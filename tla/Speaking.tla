------------------------------ MODULE Speaking ------------------------------
(***************************************************************************)
(* The core of the server: the five message queues, the main thread that   *)
(* serves client commands on them, and the speak() thread that takes one   *)
(* message at a time to an output module and follows its events.           *)
(*                                                                         *)
(* Code: src/src/server/speaking.c (all of it), queue_message() of         *)
(* server.c, the life of a connection and of its settings (speechd.c,      *)
(* set.c), and the STOP, CANCEL, PAUSE, RESUME, BLOCK and SET PRIORITY     *)
(* commands of parse.c.                                                    *)
(*                                                                         *)
(* A message is a heap object: obj is its address, id the number that the  *)
(* client was given.  Two objects share an id when queue_message() copies  *)
(* a progress message into last_p5_block.  An output module is the         *)
(* environment: sess is what it was asked to do for the message that was   *)
(* sent to it, evq the playback_events it has reported so far.             *)
(*                                                                         *)
(* The speak() thread holds element_free_mutex from the moment it looks    *)
(* for a message until it goes back to poll(); the main thread holds it    *)
(* in each command that touches the queues.  So those are single actions.  *)
(* What either thread does without the mutex is split into steps.          *)
(***************************************************************************)
EXTENDS Integers, Sequences, FiniteSets, MsgQueue

CONSTANTS
  MaxClients,    \* connections accepted in a behaviour (bound on max_uid)
  Fds,           \* file descriptors that accept() can return
  MaxMessages,   \* SPEAK commands in a behaviour (bound on last_message_id)
  MaxBlocks,     \* BLOCK BEGIN commands in a behaviour (bound on max_gid)
  MaxSets,       \* SET PRIORITY commands in a behaviour
  MaxCommands,   \* STOP, CANCEL, PAUSE and RESUME commands in a behaviour
  Prios,         \* priorities that clients ask for
  Commands,      \* which of those commands clients use
  MayDisconnect, \* clients may go away
  MayMark,       \* modules report index marks
  MayFail,       \* a module may refuse a message or PAUSE, a message may not reload
  MayBreak       \* the connection to a module may break while it speaks

CommandNames == {"stop", "stopAll", "cancel", "cancelAll",
                 "pause", "pauseAll", "resume", "resumeAll"}

SPD_IMPORTANT    == 1
SPD_MESSAGE      == 2
SPD_TEXT         == 3
SPD_NOTIFICATION == 4
SPD_PROGRESS     == 5
Priority == SPD_IMPORTANT .. SPD_PROGRESS

ASSUME SpeakingAssumption ==
  /\ MaxClients \in Nat \ {0}
  /\ Fds \subseteq Nat \ {0}
  /\ MaxMessages \in Nat
  /\ MaxBlocks \in Nat
  /\ MaxSets \in Nat
  /\ MaxCommands \in Nat
  /\ Prios \subseteq Priority
  /\ Commands \subseteq CommandNames
  /\ {MayDisconnect, MayMark, MayFail, MayBreak} \subseteq BOOLEAN

Client == 1 .. MaxClients
MsgId  == 1 .. MaxMessages

(* TSpeechDMessage; gid is settings.reparted, fd the client's descriptor   *)
(* when the message was queued.  NoMessage is the NULL pointer.            *)
Message   == [id : MsgId, obj : Nat \ {0}, uid : Client, fd : Fds, gid : Nat]
NoMessage == [id |-> 0, obj |-> 0, uid |-> 0, fd |-> 0, gid |-> 0]

(* TFDSetElement; priority 0 stands for a uid that is not in fd_settings.  *)
Settings   == [active : BOOLEAN, paused : BOOLEAN, priority : 0 .. SPD_PROGRESS]
NoSettings == [active |-> FALSE, paused |-> FALSE, priority |-> 0]

(* What the module was asked to do: msg was sent to it from queue prio;    *)
(* stop and pause tell whether STOP and PAUSE have been written to it.     *)
Session == [state : {"idle", "synth", "begun", "done"},
            msg : Message \cup {NoMessage}, prio : 0 .. SPD_PROGRESS,
            stop : BOOLEAN, pause : BOOLEAN]
NoSession == [state |-> "idle", msg |-> NoMessage, prio |-> 0,
              stop |-> FALSE, pause |-> FALSE]

Event    == {"begin", "mark", "end", "stopped", "paused", "broken"}
Terminal == {"end", "stopped", "paused", "broken"}
Report   == {"none", "begin", "resume", "pause", "end", "cancel"}

VARIABLES
  settings,       \* fd_settings, by client uid
  fdUid,          \* fd_uid: the client on a descriptor, 0 for none
  inside,         \* inside_block of the socket on a descriptor
  maxUid, maxFd, maxGid,  \* SpeechdStatus
  queue,          \* MessageQueue->p1 .. p5
  pausedList,     \* MessagePausedList
  lastP5,         \* last_p5_block
  pausedWhile,    \* objects with settings.paused_while_speaking set
  marked,         \* objects with settings.index_mark set
  lastId, lastObj,        \* last_message_id; objects allocated so far
  current,        \* current_message
  SPEAKING,
  highest,        \* highest_priority
  speakingUid, speakingGid,
  speakingModule, \* speaking_module # NULL
  pollCount,
  pauseReq, pauseUid,     \* pause_requested, pause_requested_uid
  resumeReq,      \* resume_requested
  pipe,           \* bytes in speaking_pipe
  spc,            \* where the speak() thread is
  main,           \* the command that the main thread is in the middle of
  sess, evq,      \* the output module and its playback_events
  sets, cmds,     \* bounds: SET and control commands so far
  life,           \* what clients were told: the last event of each id
  dangling,       \* objects that were freed while pausedList still held them
  fault           \* why the server died, or "none"

client   == <<settings, fdUid, inside, maxUid, maxFd, maxGid>>
lists    == <<queue, pausedList, lastP5>>
objects  == <<pausedWhile, marked, lastId, lastObj>>
speaking == <<current, SPEAKING, highest, speakingUid, speakingGid,
              speakingModule, pollCount>>
requests == <<pauseReq, pauseUid, resumeReq>>
died     == <<dangling, fault>>
output   == <<sess, evq>>
bounds   == <<sets, cmds>>

vars == <<client, lists, objects, speaking, requests, pipe, spc, main,
          output, bounds, life, died>>

Init ==
  /\ settings = [u \in Client |-> NoSettings]
  /\ fdUid = [f \in Fds |-> 0]
  /\ inside = [f \in Fds |-> 0]
  /\ maxUid = 0 /\ maxFd = 0 /\ maxGid = 0
  /\ queue = [p \in Priority |-> <<>>]
  /\ pausedList = <<>> /\ lastP5 = <<>>
  /\ pausedWhile = {} /\ marked = {} /\ lastId = 0 /\ lastObj = 0
  /\ current = NoMessage /\ SPEAKING = FALSE /\ highest = 0
  /\ speakingUid = 0 /\ speakingGid = 0
  /\ speakingModule = FALSE /\ pollCount = 1
  /\ pauseReq = 0 /\ pauseUid = 0 /\ resumeReq = FALSE
  /\ pipe = 0 /\ spc = "poll"
  /\ main = [op |-> "idle", uids |-> {}]
  /\ sess = NoSession /\ evq = <<>>
  /\ sets = 0 /\ cmds = 0
  /\ life = [i \in MsgId |-> "none"]
  /\ dangling = {} /\ fault = "none"
-----------------------------------------------------------------------------
HasSettings(u) == u \in Client /\ settings[u].priority # 0
Connected(f)   == fdUid[f] # 0

(* Only an unblocked client may send the control commands (BLOCK_NO).      *)
MainIdle == main.op = "idle"
Issuer   == MainIdle /\ \E f \in Fds : Connected(f) /\ inside[f] = 0

(* speak() keeps element_free_mutex while it empties last_p5_block.        *)
Locked == spc = "transfer"

(* message_nto_speak(): the client that now owns the message's descriptor  *)
(* is paused.                                                              *)
NotToSpeak(m) == HasSettings(fdUid[m.fd]) /\ settings[fdUid[m.fd]].paused

(* The operators named Buggy... are not the code: each is a fault put in    *)
(* place of the definition that follows it, to see that a property notices. *)
BuggyClientHasMessages(q, u) ==
  \E m \in Elements(q[SPD_IMPORTANT]) : m.uid = u
ClientHasMessages(q, u) ==
  \E p \in Priority : \E m \in Elements(q[p]) : m.uid = u

(* report_begin() .. report_cancel() for the messages D.                   *)
Tell(D, e) ==
  life' = [i \in MsgId |-> IF \E m \in D : m.id = i THEN e ELSE life[i]]

(* speaking_semaphore_post(): one byte more to read.                       *)
BuggyPosted(n) == n
Posted(n) == n + 1

(* output_stop() and output_pause(): written to the module that is         *)
(* speaking_module, and of no effect once the module has finished.         *)
Reaches(s) == speakingModule /\ s.state \in {"synth", "begun"}
Stopped(s) == IF Reaches(s) THEN [s EXCEPT !.stop = TRUE] ELSE s
Paused(s)  == IF Reaches(s) THEN [s EXCEPT !.pause = TRUE] ELSE s

(* resolve_priorities(p): the queues it empties (stop_priority), the       *)
(* queues of which it keeps the newest message or block                    *)
(* (stop_priority_except_first, and p5 while something is spoken), and     *)
(* whether it calls output_stop().  q already holds the new message.       *)
Emptied(p) ==
  CASE p = SPD_IMPORTANT    -> {SPD_NOTIFICATION, SPD_PROGRESS}
    [] p = SPD_MESSAGE      -> {SPD_TEXT, SPD_NOTIFICATION, SPD_PROGRESS}
    [] p = SPD_TEXT         -> {SPD_NOTIFICATION, SPD_PROGRESS}
    [] p = SPD_NOTIFICATION -> IF SPEAKING /\ highest # SPD_NOTIFICATION
                               THEN {SPD_NOTIFICATION} ELSE {}
    [] p = SPD_PROGRESS     -> {SPD_NOTIFICATION}
Thinned(p) ==
  IF p \in {SPD_TEXT, SPD_NOTIFICATION} \/ (p = SPD_PROGRESS /\ SPEAKING)
  THEN {p} ELSE {}

(* stop_priority_except_first() keeps the whole block of the newest        *)
(* message; p5 keeps the newest message only.                              *)
BuggyKeepsBlock(s, p) == p # SPD_PROGRESS /\ LastOf(s).gid >= 0
KeepsBlock(s, p) == p # SPD_PROGRESS /\ LastOf(s).gid > 0
Newest(s, p) ==
  IF KeepsBlock(s, p)
  THEN Without(s, {m \in Elements(s) : m.gid # LastOf(s).gid})
  ELSE <<LastOf(s)>>
Resolved(q, p) ==
  [r \in Priority |-> IF r \in Emptied(p) THEN <<>>
                      ELSE IF r \in Thinned(p) THEN Newest(q[r], r) ELSE q[r]]

(* The rest of a replaced block is freed without a CANCEL event.           *)
BuggySilenced(q, p) ==
  IF p \in Thinned(p) THEN Elements(q[p]) \ Elements(Newest(q[p], p)) ELSE {}
Silenced(q, p) ==
  IF p \in Thinned(p) /\ KeepsBlock(q[p], p)
  THEN {m \in Elements(q[p]) : m.gid # LastOf(q[p]).gid} ELSE {}
BuggyCancelled(q, p) ==
  UNION {Elements(q[r]) : r \in Emptied(p) \cup Thinned(p)}
Cancelled(q, p) ==
  (UNION {Elements(q[r]) \ Elements(Resolved(q, p)[r]) : r \in Priority})
    \ Silenced(q, p)
BuggyInterrupts(q, p) == SPEAKING /\ highest >= p
Interrupts(q, p) ==
  \/ p = SPD_IMPORTANT /\ SPEAKING /\ highest # SPD_IMPORTANT
  \/ p = SPD_MESSAGE /\ SPEAKING /\ highest \notin {SPD_IMPORTANT, SPD_MESSAGE}
  \/ highest \in Emptied(p)
  \/ /\ p \in {SPD_TEXT, SPD_NOTIFICATION} /\ highest = p
     /\ KeepsBlock(q[p], p) => speakingGid # LastOf(q[p]).gid

(* spd_message_copy(): the same message at a new address.                  *)
Copy(m, o) == [m EXCEPT !.obj = o]

(* queue_message() from "Put the element new to queue" on: m is appended   *)
(* to queue p, a progress message is also copied to last_p5_block, and     *)
(* speak() is woken.  obj is the address of the copy.                      *)
Copied(S, m, obj) == IF m.obj \in S THEN S \cup {obj} ELSE S
Enqueue(m, p, obj) ==
  LET q == [queue EXCEPT ![p] = Append(@, m)]
      c == Copy(m, obj)
  IN  /\ queue' = Resolved(q, p)
      /\ Tell(Cancelled(q, p), "cancel")
      /\ sess' = IF Interrupts(q, p) THEN Stopped(sess) ELSE sess
      /\ pipe' = Posted(pipe)
      /\ IF p = SPD_PROGRESS
         THEN /\ lastP5' = IF lastP5 # <<>> /\ LastOf(lastP5).gid = m.gid
                           THEN Append(lastP5, c) ELSE <<c>>
              /\ lastObj' = obj
              /\ pausedWhile' = Copied(pausedWhile, m, obj)
              /\ marked' = Copied(marked, m, obj)
         ELSE /\ lastObj' = obj - 1
              /\ UNCHANGED <<lastP5, pausedWhile, marked>>
-----------------------------------------------------------------------------
(* The main thread: one command of one client at a time.                   *)

(* speechd_connection_new() *)
Connect(f) ==
  LET u == maxUid + 1 IN
  /\ MainIdle /\ ~Connected(f) /\ maxUid < MaxClients
  /\ maxUid' = u
  /\ maxFd' = IF f > maxFd THEN f ELSE maxFd
  /\ settings' = [settings EXCEPT ![u] =
       [active |-> TRUE, paused |-> FALSE, priority |-> SPD_MESSAGE]]
  /\ fdUid' = [fdUid EXCEPT ![f] = u]
  /\ inside' = [inside EXCEPT ![f] = 0]
  /\ UNCHANGED <<maxGid, lists, objects, speaking, requests, pipe, spc, main,
                 output, bounds, life, died>>

(* speechd_connection_destroy() *)
BuggyMaxFdWithout(f) == IF maxFd > 0 THEN maxFd - 1 ELSE 0
MaxFdWithout(f) == IF f = maxFd THEN maxFd - 1 ELSE maxFd
Disconnect(f) ==
  /\ MayDisconnect /\ MainIdle /\ Connected(f)
  /\ settings' = [settings EXCEPT ![fdUid[f]].active = FALSE]
  /\ fdUid' = [fdUid EXCEPT ![f] = 0]
  /\ maxFd' = MaxFdWithout(f)
  /\ UNCHANGED <<inside, maxUid, maxGid, lists, objects, speaking, requests,
                 pipe, spc, main, output, bounds, life, died>>

(* SET SELF PRIORITY p, refused inside a block *)
SetPriority(f, p) ==
  /\ MainIdle /\ Connected(f) /\ inside[f] = 0 /\ sets < MaxSets
  /\ p # settings[fdUid[f]].priority
  /\ settings' = [settings EXCEPT ![fdUid[f]].priority = p]
  /\ sets' = sets + 1
  /\ UNCHANGED <<fdUid, inside, maxUid, maxFd, maxGid, lists, objects,
                 speaking, requests, pipe, spc, main, output, cmds, life, died>>

(* BLOCK BEGIN and BLOCK END *)
BlockBegin(f) ==
  /\ MainIdle /\ Connected(f) /\ inside[f] = 0 /\ maxGid < MaxBlocks
  /\ maxGid' = maxGid + 1
  /\ inside' = [inside EXCEPT ![f] = maxGid + 1]
  /\ UNCHANGED <<settings, fdUid, maxUid, maxFd, lists, objects, speaking,
                 requests, pipe, spc, main, output, bounds, life, died>>
BlockEnd(f) ==
  /\ MainIdle /\ Connected(f) /\ inside[f] > 0
  /\ inside' = [inside EXCEPT ![f] = 0]
  /\ UNCHANGED <<settings, fdUid, maxUid, maxFd, maxGid, lists, objects,
                 speaking, requests, pipe, spc, main, output, bounds, life, died>>

(* queue_message() for the text that followed SPEAK *)
Queue(f) ==
  LET m == [id |-> lastId + 1, obj |-> lastObj + 1, uid |-> fdUid[f],
            fd |-> f, gid |-> inside[f]]
  IN  /\ MainIdle /\ ~Locked /\ Connected(f) /\ lastId < MaxMessages
      /\ lastId' = lastId + 1
      /\ Enqueue(m, settings[fdUid[f]].priority, lastObj + 2)
      /\ UNCHANGED <<client, pausedList, speaking, requests, spc, main, evq,
                     bounds, died>>

Command(name) ==
  /\ Issuer /\ name \in Commands /\ cmds < MaxCommands
  /\ cmds' = cmds + 1

(* speaking_stop(): stop the message, and drop what is left of its block   *)
(* at the end of its queue, without an event.                              *)
Speaks(u)  == SPEAKING /\ speakingUid = u
BlockOf(u) ==
  LET s == queue[highest] IN
  IF Speaks(u) /\ s # <<>> /\ LastOf(s).gid # 0 /\ LastOf(s).uid = u
  THEN {m \in Elements(s) : m.gid = LastOf(s).gid /\ m.uid = u} ELSE {}
AfterStop(u) ==
  IF Speaks(u) THEN [queue EXCEPT ![highest] = DropTrailing(@, BlockOf(u))]
  ELSE queue
BuggyUidAfterStop(u) == IF Speaks(u) THEN 0 ELSE speakingUid
UidAfterStop(u) == IF SPEAKING THEN speakingUid ELSE 0
StopClient(u) ==
  /\ sess' = IF Speaks(u) THEN Stopped(sess) ELSE sess
  /\ speakingUid' = UidAfterStop(u)

Stop(u) ==
  /\ Command("stop") /\ ~Locked
  /\ queue' = AfterStop(u)
  /\ StopClient(u)
  /\ UNCHANGED <<client, pausedList, lastP5, objects, current, SPEAKING,
                 highest, speakingGid, speakingModule, pollCount, requests,
                 pipe, spc, main, evq, sets, life, died>>

(* speaking_stop_all(): speaking_get_queue() asserts that highest_priority *)
(* is a priority; of a block only group 1 is dropped.                      *)
StopAll ==
  /\ Command("stopAll") /\ ~Locked
  /\ sess' = Stopped(sess)
  /\ IF highest = 0
     THEN fault' = "assert" /\ UNCHANGED queue
     ELSE /\ queue' = [queue EXCEPT ![highest] =
               DropTrailing(@, {m \in Elements(@) : m.gid = 1})]
          /\ UNCHANGED fault
  /\ UNCHANGED <<client, pausedList, lastP5, objects, speaking, requests,
                 pipe, spc, main, evq, sets, life, dangling>>

(* speaking_cancel(): STOP, then drop the client's messages of all queues. *)
Cancel(u) ==
  LET q == AfterStop(u)
      D == UNION {{m \in Elements(q[p]) : m.uid = u} : p \in Priority}
  IN  /\ Command("cancel") /\ ~Locked
      /\ StopClient(u)
      /\ queue' = [p \in Priority |-> Without(q[p], D)]
      /\ Tell(D, "cancel")
      /\ UNCHANGED <<client, pausedList, lastP5, objects, current, SPEAKING,
                     highest, speakingGid, speakingModule, pollCount, requests,
                     pipe, spc, main, evq, sets, died>>

(* speaking_cancel_all(): output_stop() before the mutex is taken, then    *)
(* stop_priority() on the five queues, which stops the output once more.   *)
CancelAll ==
  /\ Command("cancelAll")
  /\ sess' = Stopped(sess)
  /\ main' = [main EXCEPT !.op = "cancelAll"]
  /\ UNCHANGED <<client, lists, objects, speaking, requests, pipe, spc, evq,
                 sets, life, died>>
CancelAllQueues ==
  /\ main.op = "cancelAll" /\ ~Locked
  /\ sess' = IF highest # 0 THEN Stopped(sess) ELSE sess
  /\ queue' = [p \in Priority |-> <<>>]
  /\ Tell(UNION {Elements(queue[p]) : p \in Priority}, "cancel")
  /\ main' = [main EXCEPT !.op = "idle"]
  /\ UNCHANGED <<client, pausedList, lastP5, objects, speaking, requests, pipe,
                 spc, evq, bounds, died>>

(* parse_pause(): the request is a flag that speak() reads; the uid of     *)
(* PAUSE for one client is written after the flag.                         *)
Pause(u) ==
  /\ Command("pause")
  /\ pauseReq' = 2
  /\ main' = [op |-> "pause", uids |-> {u}]
  /\ UNCHANGED <<client, lists, objects, speaking, pauseUid, resumeReq, pipe,
                 spc, output, sets, life, died>>
PausePost ==
  /\ main.op = "pause"
  /\ \E u \in main.uids : pauseUid' = u
  /\ pipe' = Posted(pipe)
  /\ main' = [op |-> "idle", uids |-> {}]
  /\ UNCHANGED <<client, lists, objects, speaking, pauseReq, resumeReq, spc,
                 output, bounds, life, died>>
PauseAll ==
  /\ Command("pauseAll")
  /\ pauseReq' = 1
  /\ pipe' = Posted(pipe)
  /\ UNCHANGED <<client, lists, objects, speaking, pauseUid, resumeReq, spc,
                 main, output, sets, life, died>>

(* The clients that speaking_pause_all() and speaking_resume_all() reach.  *)
UpToMaxFd == {fdUid[f] : f \in {g \in Fds : g <= maxFd /\ Connected(g)}}

(* speaking_resume() and speaking_resume_all(): per client, first the flag *)
(* of the client, then the request and the wake-up.                        *)
Resume(name, U) ==
  LET V == {u \in U : HasSettings(u)} IN
  /\ Command(name)
  /\ main' = [op |-> IF V = {} THEN "idle" ELSE "resume", uids |-> V]
  /\ UNCHANGED <<client, lists, objects, speaking, requests, pipe, spc, output,
                 sets, life, died>>
ResumeClient ==
  /\ main.op = "resume"
  /\ \E u \in main.uids :
       /\ settings' = [settings EXCEPT ![u].paused = FALSE]
       /\ main' = [op |-> "resumePost", uids |-> main.uids \ {u}]
  /\ UNCHANGED <<fdUid, inside, maxUid, maxFd, maxGid, lists, objects, speaking,
                 requests, pipe, spc, output, bounds, life, died>>
ResumePost ==
  /\ main.op = "resumePost"
  /\ resumeReq' = TRUE
  /\ pipe' = Posted(pipe)
  /\ main' = [main EXCEPT !.op = IF main.uids = {} THEN "idle" ELSE "resume"]
  /\ UNCHANGED <<client, lists, objects, speaking, pauseReq, pauseUid, spc,
                 output, bounds, life, died>>
-----------------------------------------------------------------------------
(* The speak() thread.                                                     *)

(* poll() returns for a byte in speaking_pipe, for an event of the module  *)
(* (watched when poll_count is 2), or for both; one of each is read.       *)
HasEvent == pollCount = 2 /\ evq # <<>>
BuggyReadByte == pipe - 1
ReadByte == IF pipe > 0 THEN pipe - 1 ELSE 0

PollWake ==
  /\ spc = "poll" /\ pipe > 0 /\ ~HasEvent
  /\ pipe' = pipe - 1
  /\ spc' = "pause"
  /\ UNCHANGED <<client, lists, objects, speaking, requests, main, output,
                 bounds, life, died>>

(* is_sb_speaking() for the event e                                        *)
Handle(e) ==
  /\ spc = "poll" /\ HasEvent /\ Head(evq) = e /\ current # NoMessage
  /\ evq' = Tail(evq)
  /\ spc' = "pause"
  /\ UNCHANGED <<client, lists, lastId, lastObj, highest, speakingUid,
                 speakingGid, requests, main, bounds, died>>

HandleBegin ==
  /\ Handle("begin")
  /\ SPEAKING' = TRUE
  /\ pausedWhile' = pausedWhile \ {current.obj}
  /\ Tell({current}, IF current.obj \in pausedWhile THEN "resume" ELSE "begin")
  /\ pipe' = ReadByte
  /\ UNCHANGED <<marked, current, speakingModule, pollCount, sess>>

HandleMark ==
  /\ Handle("mark")
  /\ marked' = marked \cup {current.obj}
  /\ pipe' = ReadByte
  /\ UNCHANGED <<pausedWhile, current, SPEAKING, speakingModule, pollCount,
                 sess, life>>

(* END and STOPPED also wake speak() up once more.                         *)
HandleDone ==
  \E e \in {"end", "stopped"} :
    /\ Handle(e)
    /\ SPEAKING' = FALSE /\ speakingModule' = FALSE /\ pollCount' = 1
    /\ Tell({current}, IF e = "end" THEN "end" ELSE "cancel")
    /\ pipe' = Posted(ReadByte)
    /\ sess' = NoSession
    /\ UNCHANGED <<pausedWhile, marked, current>>

HandlePaused ==
  /\ Handle("paused")
  /\ SPEAKING' = FALSE /\ speakingModule' = FALSE /\ pollCount' = 1
  /\ Tell({current}, "pause")
  /\ current' = NoMessage
  /\ pipe' = ReadByte
  /\ sess' = NoSession
  /\ UNCHANGED <<pausedWhile, marked>>

(* No event is told, and speaking_module stays set.                        *)
HandleBroken ==
  /\ Handle("broken")
  /\ SPEAKING' = FALSE /\ pollCount' = 1
  /\ pipe' = ReadByte
  /\ sess' = NoSession
  /\ UNCHANGED <<pausedWhile, marked, current, speakingModule, life>>

(* speaking_pause() for each client that was asked for; the message that   *)
(* is spoken is also put on pausedList, unless output_pause() cannot write *)
(* to its module.                                                          *)
PutAside(m) ==
  IF m \in Elements(pausedList) THEN pausedList ELSE Append(pausedList, m)

HandlePause ==
  LET U == IF pauseReq = 1 THEN UpToMaxFd ELSE {pauseUid}
      hit == SPEAKING /\ speakingUid \in U /\ HasSettings(speakingUid)
             /\ current # NoMessage
  IN
  /\ spc = "pause" /\ pauseReq # 0
  /\ settings' = [u \in Client |->
       IF u \in U /\ HasSettings(u)
       THEN [settings[u] EXCEPT !.paused = TRUE] ELSE settings[u]]
  /\ \/ /\ hit
        /\ sess' = Paused(sess)
        /\ pausedWhile' = pausedWhile \cup {current.obj}
        /\ pausedList' = PutAside(current)
     \/ /\ hit => MayFail
        /\ UNCHANGED <<sess, pausedWhile, pausedList>>
  /\ spc' = "pauseClear"
  /\ UNCHANGED <<fdUid, inside, maxUid, maxFd, maxGid, queue, lastP5, marked,
                 lastId, lastObj, speaking, requests, pipe, main, evq, bounds,
                 life, died>>
ClearPause ==
  /\ spc = "pauseClear"
  /\ pauseReq' = 0
  /\ spc' = "poll"
  /\ UNCHANGED <<client, lists, objects, speaking, pauseUid, resumeReq, pipe,
                 main, output, bounds, life, died>>

(* "Continuing because already speaking"                                   *)
BuggyAfterCheck == "resume"
AfterCheck == IF SPEAKING THEN "poll" ELSE "resume"
CheckSpeaking ==
  /\ spc = "pause" /\ pauseReq = 0
  /\ spc' = AfterCheck
  /\ UNCHANGED <<client, lists, objects, speaking, requests, pipe, main,
                 output, bounds, life, died>>

(* reload_message(): with gid 0, to the queue of the client's priority of  *)
(* now.  A message that has an index mark may fail to be found again.      *)
Speakable(s) == {i \in DOMAIN s : ~NotToSpeak(s[i])}
First(I) == CHOOSE i \in I : \A j \in I : i <= j

(* "current_message is pretty useless after the requeue, make it NULL"     *)
BuggyCurrentAfter(m) == current
CurrentAfter(m) == IF current = m THEN NoMessage ELSE current

ResumeOne ==
  LET i == First(Speakable(pausedList))
      m == pausedList[i]
  IN
  /\ spc = "resume" /\ resumeReq /\ Speakable(pausedList) # {}
  /\ pausedList' = Without(pausedList, {m})
  /\ current' = CurrentAfter(m)
  /\ \/ /\ \A j \in 1 .. i : pausedList[j].obj \notin dangling
        /\ HasSettings(m.uid)
        /\ Enqueue([m EXCEPT !.gid = 0], settings[m.uid].priority, lastObj + 1)
        /\ UNCHANGED fault
     \/ /\ \A j \in 1 .. i : pausedList[j].obj \notin dangling
        /\ HasSettings(m.uid) /\ MayFail /\ m.obj \in marked
        /\ UNCHANGED <<queue, lastP5, pausedWhile, marked, lastObj, sess, pipe,
                       life, fault>>
     \/ /\ \/ \E j \in 1 .. i : pausedList[j].obj \in dangling
           \/ ~HasSettings(m.uid)
        /\ fault' = IF HasSettings(m.uid) THEN "freed" ELSE "settings"
        /\ UNCHANGED <<queue, lastP5, pausedWhile, marked, lastObj, sess, pipe,
                       life>>
  /\ UNCHANGED <<client, lastId, SPEAKING, highest, speakingUid, speakingGid,
                 speakingModule, pollCount, requests, spc, main, evq, bounds,
                 dangling>>
ResumeEnd ==
  /\ spc = "resume" /\ resumeReq /\ Speakable(pausedList) = {}
  /\ spc' = "resumeClear"
  /\ UNCHANGED <<client, lists, objects, speaking, requests, pipe, main, output,
                 bounds, life, died>>
ResumeClear ==
  /\ spc = "resumeClear"
  /\ resumeReq' = FALSE
  /\ spc' = "take"
  /\ UNCHANGED <<client, lists, objects, speaking, pauseReq, pauseUid, pipe,
                 main, output, bounds, life, died>>

(* "Handle postponed priority progress message": last_p5_block goes to the *)
(* message queue, and what an arriving message would purge is purged.      *)
Taking   == spc = "take" \/ (spc = "resume" /\ ~resumeReq)
Transfer == lastP5 # <<>> /\ queue[SPD_PROGRESS] = <<>>

TransferOne ==
  /\ Taking \/ Locked
  /\ Transfer /\ Len(lastP5) > 1
  /\ queue' = [queue EXCEPT ![SPD_MESSAGE] = InsertById(@, Head(lastP5))]
  /\ lastP5' = Tail(lastP5)
  /\ spc' = "transfer"
  /\ UNCHANGED <<client, pausedList, objects, speaking, requests, pipe, main,
                 output, bounds, life, died>>
TransferLast ==
  LET m   == LastOf(lastP5)
      old == {t \in Elements(queue[SPD_TEXT]) : t.id < m.id}
  IN
  /\ Taking \/ Locked
  /\ Transfer /\ Len(lastP5) = 1
  /\ queue' = [queue EXCEPT ![SPD_MESSAGE] = InsertById(@, m),
                            ![SPD_TEXT] = Without(@, old),
                            ![SPD_NOTIFICATION] = <<>>]
  /\ Tell(old \cup Elements(queue[SPD_NOTIFICATION]), "cancel")
  /\ lastP5' = <<>>
  /\ highest' = SPD_MESSAGE
  /\ pipe' = Posted(pipe)
  /\ spc' = "poll"
  /\ UNCHANGED <<client, pausedList, objects, current, SPEAKING, speakingUid,
                 speakingGid, speakingModule, pollCount, requests, main, output,
                 bounds, died>>

(* get_message_from_queues(): the first message of the highest priority    *)
(* whose client is not paused.                                             *)
Ready == {p \in Priority : Speakable(queue[p]) # {}}
Next1 == queue[First(Ready)][First(Speakable(queue[First(Ready)]))]
TakeNext ==
  /\ Taking /\ ~Transfer /\ Ready # {}
  /\ queue' = [queue EXCEPT ![First(Ready)] = Without(@, {Next1})]
  /\ highest' = First(Ready)
  /\ spc' = "poll"

TakeNothing ==
  /\ Taking /\ ~Transfer /\ Ready = {}
  /\ spc' = "poll"
  /\ UNCHANGED <<client, lists, objects, speaking, requests, pipe, main,
                 output, bounds, life, died>>

(* No output module, an invalid text, or (sent) output_speak() failed after *)
(* output_set_speaking_monitor(): the message is in no list any more.      *)
TakeFails ==
  \E sent \in BOOLEAN :
    /\ MayFail /\ TakeNext
    /\ speakingModule' = (speakingModule \/ sent)
    /\ speakingUid' = IF sent THEN Next1.uid ELSE speakingUid
    /\ speakingGid' = IF sent THEN Next1.gid ELSE speakingGid
    /\ UNCHANGED <<client, pausedList, lastP5, objects, current, SPEAKING,
                   pollCount, requests, pipe, main, output, bounds, life, died>>

(* The message that was spoken before is freed, unless it waits to be      *)
(* resumed; its client's settings go if it has left and has no message.    *)
BuggyForgets(u, m) == ~settings[u].active /\ ~ClientHasMessages(queue', u)
Forgets(u, m) ==
  ~settings[u].active /\ u # m.uid /\ ~ClientHasMessages(queue', u)
ReleaseCurrent(m) ==
  LET u == current.uid IN
  IF current = NoMessage \/ current.obj \in pausedWhile
  THEN UNCHANGED <<settings, died>>
  ELSE IF ~HasSettings(u)
  THEN fault' = "settings" /\ UNCHANGED <<settings, dangling>>
  ELSE /\ settings' =
            IF Forgets(u, m) THEN [settings EXCEPT ![u] = NoSettings] ELSE settings
       /\ dangling' = dangling \cup
            ({current.obj} \cap {p.obj : p \in Elements(pausedList)})
       /\ UNCHANGED fault

TakeSpeak ==
  LET m == Next1 IN
  /\ TakeNext
  /\ sess' = [state |-> "synth", msg |-> m, prio |-> First(Ready),
              stop |-> FALSE, pause |-> FALSE]
  /\ SPEAKING' = TRUE /\ speakingModule' = TRUE /\ pollCount' = 2
  /\ speakingUid' = m.uid /\ speakingGid' = m.gid
  /\ ReleaseCurrent(m)
  /\ current' = m
  /\ lastP5' = IF lastP5 # <<>> /\ LastOf(lastP5).gid = m.gid THEN <<>>
               ELSE lastP5
  /\ UNCHANGED <<fdUid, inside, maxUid, maxFd, maxGid, pausedList, objects,
                 requests, pipe, main, evq, bounds, life>>
-----------------------------------------------------------------------------
(* The output module and output_thread_func(): the events of a session.    *)
(* A module may finish although it was asked to stop or to pause.          *)
Emit(e) ==
  /\ evq' = Append(evq, e)
  /\ UNCHANGED <<client, lists, objects, speaking, requests, pipe, spc, main,
                 bounds, life, died>>
EmitBegin ==
  /\ sess.state = "synth"
  /\ sess' = [sess EXCEPT !.state = "begun"]
  /\ Emit("begin")
EmitMark ==
  /\ MayMark /\ sess.state = "begun"
  /\ sess.msg.obj \notin marked /\ "mark" \notin Elements(evq)
  /\ UNCHANGED sess
  /\ Emit("mark")
EmitTerminal ==
  /\ sess.state \in {"synth", "begun"}
  /\ \E e \in Terminal :
       /\ e = "end"     => sess.state = "begun"
       /\ e = "stopped" => sess.stop
       /\ e = "paused"  => sess.pause
       /\ e = "broken"  => MayBreak
       /\ Emit(e)
  /\ sess' = [sess EXCEPT !.state = "done"]
-----------------------------------------------------------------------------
MainStep ==
  \/ \E f \in Fds : Connect(f) \/ Disconnect(f) \/ Queue(f)
                    \/ BlockBegin(f) \/ BlockEnd(f)
                    \/ \E p \in Prios : SetPriority(f, p)
  \/ \E u \in 1 .. maxUid : Stop(u) \/ Cancel(u) \/ Pause(u)
                            \/ Resume("resume", {u})
  \/ StopAll \/ CancelAll \/ PauseAll \/ Resume("resumeAll", UpToMaxFd)
MainGoesOn == CancelAllQueues \/ PausePost \/ ResumeClient \/ ResumePost
SpeakStep ==
  \/ PollWake
  \/ HandleBegin \/ HandleMark \/ HandleDone \/ HandlePaused \/ HandleBroken
  \/ HandlePause \/ ClearPause \/ CheckSpeaking
  \/ ResumeOne \/ ResumeEnd \/ ResumeClear
  \/ TransferOne \/ TransferLast \/ TakeNothing \/ TakeFails \/ TakeSpeak
ModuleStep == EmitBegin \/ EmitMark \/ EmitTerminal

Next == fault = "none" /\ (MainStep \/ MainGoesOn \/ SpeakStep \/ ModuleStep)

Spec == Init /\ [][Next]_vars

(* The threads are scheduled; a module that was sent a message begins and  *)
(* finishes.  Clients are under no obligation.                             *)
Fairness ==
  /\ WF_vars(fault = "none" /\ MainGoesOn)
  /\ WF_vars(fault = "none" /\ SpeakStep)
  /\ WF_vars(fault = "none" /\ (EmitBegin \/ EmitTerminal))
FairSpec == Spec /\ Fairness
-----------------------------------------------------------------------------
(* The type invariant: every variable of the server keeps the values that  *)
(* its C type and the code allow; pause_requested is 0, 1 (all clients) or *)
(* 2 (one client), and the bytes of speaking_pipe are never overdrawn.     *)
ClientOK ==
  /\ settings \in [Client -> Settings]
  /\ fdUid \in [Fds -> 0 .. MaxClients]
  /\ inside \in [Fds -> Nat]
  /\ maxUid \in 0 .. MaxClients /\ maxFd \in Nat /\ maxGid \in Nat
ListsOK ==
  /\ queue \in [Priority -> Seq(Message)]
  /\ pausedList \in Seq(Message) /\ lastP5 \in Seq(Message)
ObjectsOK ==
  /\ pausedWhile \subseteq Nat /\ marked \subseteq Nat
  /\ lastId \in 0 .. MaxMessages /\ lastObj \in Nat
SpeakingOK ==
  /\ current \in Message \cup {NoMessage}
  /\ SPEAKING \in BOOLEAN
  /\ highest \in 0 .. SPD_PROGRESS
  /\ speakingUid \in 0 .. MaxClients /\ speakingGid \in Nat
  /\ speakingModule \in BOOLEAN /\ pollCount \in {1, 2}
ControlOK ==
  /\ pauseReq \in {0, 1, 2} /\ pauseUid \in 0 .. MaxClients
  /\ resumeReq \in BOOLEAN
  /\ pipe \in Nat
  /\ spc \in {"poll", "pause", "pauseClear", "resume", "resumeClear", "take",
              "transfer"}
  /\ main \in [op : {"idle", "pause", "resume", "resumePost", "cancelAll"},
               uids : SUBSET Client]
  /\ sets \in Nat /\ cmds \in Nat
OutputOK == sess \in Session /\ evq \in Seq(Event)
ToldOK ==
  /\ life \in [MsgId -> Report]
  /\ dangling \subseteq Nat
  /\ fault \in {"none", "settings", "freed", "assert"}
TypeOK == /\ ClientOK /\ ListsOK /\ ObjectsOK /\ SpeakingOK
          /\ ControlOK /\ OutputOK /\ ToldOK

(* The flags that four functions of two threads read (SPEAKING, poll_count, *)
(* speaking_module, current_message, highest_priority, speaking_uid and    *)
(* speaking_gid) always describe the one session that is open, and events  *)
(* wait only for an open session: is_sb_speaking() reports each event for  *)
(* the message it belongs to.                                              *)
SessionAgrees ==
  /\ SPEAKING <=> sess.state # "idle"
  /\ SPEAKING <=> pollCount = 2
  /\ SPEAKING =>
       /\ speakingModule
       /\ current = sess.msg /\ current # NoMessage
       /\ highest = sess.prio /\ highest # 0
       /\ speakingUid = sess.msg.uid /\ speakingGid = sess.msg.gid
  /\ ~SPEAKING => evq = <<>>

(* A queued object is in one list only, and the message that was taken     *)
(* last is in none of them but the paused list: nothing is freed twice.    *)
SingleOwner ==
  LET Objs(s) == {m.obj : m \in Elements(s)}
      all == [i \in 1 .. 7 |-> IF i = 6 THEN pausedList
                               ELSE IF i = 7 THEN lastP5 ELSE queue[i]]
  IN  /\ \A i, j \in 1 .. 7 : i # j => Objs(all[i]) \cap Objs(all[j]) = {}
      /\ \A i \in 1 .. 7 : Cardinality(Objs(all[i])) = Len(all[i])
      /\ \A i \in (1 .. 7) \ {6} : current.obj \notin Objs(all[i])

(* The text and notification queues hold a single message or messages of a *)
(* single block, whatever was queued, resumed, stopped or taken in between *)
(* ("only the latest of them is said").                                    *)
OneBlockPerQueue ==
  \A p \in {SPD_TEXT, SPD_NOTIFICATION} :
    \A m, n \in Elements(queue[p]) : m # n => m.gid = n.gid /\ m.gid # 0

(* speaking_pause_all() and speaking_resume_all() walk descriptors up to   *)
(* SpeechdStatus.max_fd: no connected client may be above it.              *)
MaxFdCovers == \A f \in Fds : Connected(f) => f <= maxFd

(* No message vanishes without an event: what was queued and has not been  *)
(* told to have ended or been cancelled is in a list, or being spoken.     *)
NothingLost ==
  fault = "none" => \A i \in 1 .. lastId :
    \/ life[i] \in {"end", "cancel"}
    \/ sess.msg.id = i
    \/ \E p \in Priority : \E m \in Elements(queue[p]) : m.id = i
    \/ \E m \in Elements(pausedList) : m.id = i

(* One message at a time is heard: a client that was told BEGIN or RESUME  *)
(* is told END, PAUSE or CANCEL before any other is told BEGIN or RESUME.  *)
OneVoice ==
  \A i \in MsgId : life[i] \in {"begin", "resume"}
                     => SPEAKING /\ current.id = i

(* speak() never sleeps in poll() while a message could be spoken: each    *)
(* one has a byte, an event or a running step of a thread that leads to it.*)
NotStranded ==
  (spc = "poll" /\ pipe = 0 /\ ~SPEAKING /\ MainIdle /\ fault = "none")
    => Ready = {} /\ lastP5 = <<>>

(* When a message is queued, what is being spoken is stopped exactly when  *)
(* the priorities say so ("never interrupted", "doesn't interrupt itself", *)
(* "interrupts itself" except within a block), although the decision is    *)
(* made from highest_priority and speaking_gid, by another thread than the *)
(* one that speaks.                                                        *)
MayInterrupt ==
  [p \in Priority |->
     CASE p = SPD_IMPORTANT -> Priority \ {SPD_IMPORTANT}
       [] p \in {SPD_MESSAGE, SPD_TEXT}
            -> {SPD_TEXT, SPD_NOTIFICATION, SPD_PROGRESS}
       [] OTHER -> {SPD_NOTIFICATION}]
SameBlock(g) == g # 0 /\ g = sess.msg.gid
PriorityInterplay ==
  [][\A f \in Fds :
       lastId' # lastId /\ Connected(f) /\ sess.state \in {"synth", "begun"}
         /\ (\E p \in Priority : \E m \in Elements(queue'[p]) :
               m.id = lastId' /\ m.fd = f)
         => LET p == settings[fdUid[f]].priority IN
            sess'.stop = (sess.stop \/ (sess.prio \in MayInterrupt[p]
              /\ ~(p = sess.prio /\ SameBlock(inside[f]))))]_vars

(* What a client is told of one message: BEGIN once, then END or CANCEL,   *)
(* or CANCEL alone.  What was told CANCEL has left the queues, and only    *)
(* the copy of a progress message, in last_p5_block, may still be begun.   *)
EventOrder ==
  [][\A i \in MsgId : life'[i] # life[i] =>
       /\ <<life[i], life'[i]>> \in
            {<<"none", "begin">>, <<"none", "cancel">>, <<"begin", "end">>,
             <<"begin", "cancel">>, <<"cancel", "begin">>}
       /\ life'[i] = "cancel" => \A p \in Priority : \A m \in Elements(queue'[p]) :
                                   m.id # i]_vars

(* The server does not die.                                                *)
NoFault == fault = "none"

(* Whatever clients queue is spoken or cancelled in the end.               *)
AllServed == <>[](lastP5 = <<>> /\ ~SPEAKING /\ \A p \in Priority : queue[p] = <<>>)
=============================================================================
