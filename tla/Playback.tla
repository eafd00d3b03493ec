------------------------------ MODULE Playback ------------------------------
(***************************************************************************)
(* The output layer while a message is spoken with the sound on the        *)
(* server's side (src/src/server/output.c, output->audio set): output_speak, *)
(* output_stop and output_pause, the output thread that reads the module's *)
(* events and feeds the playback queue, the playback_events list with the  *)
(* pipe_speak of each module, and output_is_speaking(), which hands the    *)
(* events to the speak() thread.                                           *)
(*                                                                         *)
(* The module is the environment.  What it answers is chosen when the      *)
(* output thread reads it: it may have been written long before, so that   *)
(* END stays possible after STOP was sent.  output_lock() serialises       *)
(* output_speak, output_stop and output_pause; the flags output_* are read *)
(* by the output thread without it.                                        *)
(***************************************************************************)
EXTENDS SpeakQueue

CONSTANTS
  Modules,   \* output modules that work
  NoModule,  \* the NULL pointer
  MaxSpeak,  \* messages spoken in a behaviour
  MaxTroubles, \* how much may disturb a behaviour: STOP and PAUSE requests,
             \* refused messages and broken pipes
  Script,    \* the tracks, marks and icons of a message, in order; a module
             \* may end before it has sent them all
  Troubles,  \* which of these happen: stop, pause, refuse, break
  MayQuit    \* the server may terminate

ItemTypes == {"AUDIO", "MARK", "SD_MARK", "SOUND_ICON"}

ASSUME PlaybackAssumption ==
  /\ NoModule \notin Modules
  /\ {MaxSpeak, MaxTroubles} \subseteq Nat
  /\ Script \in Seq(ItemTypes)
  /\ Troubles \subseteq {"stop", "pause", "refuse", "break"}
  /\ MayQuit \in BOOLEAN

Utterance == 0 .. MaxSpeak
EventType == {"begin", "mark", "end", "stop", "pause", "broken"}
Terminal  == {"end", "stop", "pause", "broken"}

VARIABLES
  speakingModule,  \* speaking_module
  endQueued, stopAsked, pauseAsked, pauseQueued,
                   \* output_end_queued, output_stop_requested,
                   \* output_pause_requested, output_pause_queued
  events,          \* playback_events
  bytes,           \* bytes in the pipe_speak of each module
  target,          \* the local `output' of output_queue_event(), by thread
  speaker,         \* where the speak() thread is
  reader,          \* the output thread: where it is and what it has to do
  control,         \* the thread in output_stop() or output_pause(), or at exit
  synth,           \* the module: what it was told and what it has sent
  utt,             \* messages handed to output_speak() so far
  troubles,        \* bound: troubles so far
  asked,           \* history: the requests made during this message
  handled,         \* history: the last event the speak() thread took
  heard,           \* history: it took the BEGIN of this message
  stopFor,         \* history: the message whose stop was requested last
  crossed,         \* history: a stop or pause was lost or met the END
  spoilt           \* history: a message was refused or its pipe broke

outFlags == <<endQueued, stopAsked, pauseAsked, pauseQueued>>
eventQ   == <<events, bytes, target>>
threads  == <<speaker, reader, control>>
history  == <<asked, handled, heard, stopFor, crossed, spoilt>>
outVars  == <<speakingModule, outFlags, eventQ, threads, synth, utt, troubles, history>>
vars     == <<queueVars, outVars>>

Silent  == [told |-> {}, begun |-> FALSE, sent |-> 0]
NoEvent == [type |-> "none", utt |-> 0]

MayTrouble(what) == what \in Troubles /\ troubles < MaxTroubles

Init ==
  /\ QueueInit
  /\ speakingModule = NoModule
  /\ endQueued = FALSE /\ stopAsked = FALSE
  /\ pauseAsked = FALSE /\ pauseQueued = FALSE
  /\ events = <<>> /\ bytes = [m \in Modules |-> 0]
  /\ target = [t \in Thread |-> NoModule]
  /\ speaker = "idle" /\ control = "free"
  /\ reader = [at |-> "done", todo |-> <<>>, last |-> FALSE]
  /\ synth = Silent /\ utt = 0 /\ troubles = 0
  /\ asked = {} /\ handled = NoEvent /\ heard = FALSE
  /\ stopFor = 0 /\ crossed = FALSE /\ spoilt = FALSE

-----------------------------------------------------------------------------
(* output_queue_event(), in the thread t that reports: whether anybody     *)
(* listens is looked up first, the event is appended afterwards.           *)

Listened == speakingModule # NoModule

Looks(t) ==
  /\ target' = [target EXCEPT ![t] = speakingModule]
  /\ UNCHANGED <<events, bytes>>

BuggyAppends(t, type, u) ==
  /\ events' = <<[type |-> type, utt |-> u]>> \o events
  /\ bytes' = [bytes EXCEPT ![target[t]] = @ + 1]
  /\ target' = [target EXCEPT ![t] = NoModule]

Appends(t, type, u) ==
  /\ events' = Append(events, [type |-> type, utt |-> u])
  /\ bytes' = [bytes EXCEPT ![target[t]] = @ + 1]
  /\ target' = [target EXCEPT ![t] = NoModule]

(* What either thread of the queue does outside its reports. *)
PlayWorks ==
  /\ PlayThread
  /\ crossed' = (crossed \/ (Got({"END"}) /\ stopRequested /\ state = "SPEAKING")
                    \/ (play.at = "told" /\ pauseState = "REQUESTED" /\ sop # "sleep"))
  /\ stopFor' = IF stopRequested' THEN utt ELSE stopFor
  /\ UNCHANGED <<speakingModule, outFlags, eventQ, threads, synth, utt, troubles,
                 asked, handled, heard, spoilt>>

SopWorks == SopThread /\ UNCHANGED outVars

ReportName == [BEGIN |-> "begin", MARK |-> "mark", SD_MARK |-> "mark", END |-> "end"]

PlayDrops == ~Listened /\ PlayTold("tell") /\ UNCHANGED outVars

PlayLooks ==
  /\ play.at = "tell" /\ Listened
  /\ Looks("play") /\ PlayGoes("append")
  /\ UNCHANGED <<flags, queue, configured, asleep, sop, speakingModule, outFlags,
                 threads, synth, utt, troubles, history>>

PlayAppends ==
  /\ play.at = "append"
  /\ Appends("play", ReportName[play.entry.type], play.entry.utt)
  /\ PlayTold("append")
  /\ UNCHANGED <<speakingModule, outFlags, threads, synth, utt, troubles, history>>

SopDrops == ~Listened /\ SopTold({"tellStop", "tellPause"}) /\ UNCHANGED outVars

SopLooks ==
  /\ sop \in {"tellStop", "tellPause"} /\ Listened
  /\ Looks("sop")
  /\ sop' = IF sop = "tellStop" THEN "appendStop" ELSE "appendPause"
  /\ UNCHANGED <<flags, queue, configured, asleep, play, speakingModule, outFlags,
                 threads, synth, utt, troubles, history>>

SopAppends ==
  /\ sop \in {"appendStop", "appendPause"}
  /\ Appends("sop", IF sop = "appendStop" THEN "stop" ELSE "pause", stopFor)
  /\ SopTold({"appendStop", "appendPause"})
  /\ UNCHANGED <<speakingModule, outFlags, threads, synth, utt, troubles, history>>

-----------------------------------------------------------------------------
(* The speak() thread.  output_speak() holds the output lock throughout.   *)

SpeakBegins(m) ==
  /\ speaker = "idle" /\ control = "free" /\ utt < MaxSpeak
  /\ speakingModule' = m
  /\ speaker' = "sending"
  /\ UNCHANGED <<queueVars, outFlags, eventQ, reader, control, synth, utt, troubles,
                 history>>

(* The module accepts: the flags are reset and the output thread started.  *)
SpeakSent ==
  /\ speaker = "sending"
  /\ \E ok \in BOOLEAN : BeforeSynth(ok)
  /\ utt' = utt + 1 /\ synth' = Silent
  /\ endQueued' = FALSE /\ stopAsked' = FALSE
  /\ pauseAsked' = FALSE /\ pauseQueued' = FALSE
  /\ speaker' = "listen"
  /\ reader' = [at |-> "read", todo |-> <<>>, last |-> FALSE]
  /\ asked' = {} /\ heard' = FALSE /\ handled' = NoEvent
  /\ UNCHANGED <<speakingModule, eventQ, control, troubles, stopFor, crossed, spoilt>>

(* The module refuses (or its pipe is broken): output_speak() returns with *)
(* speaking_module set and the queue in BEFORE_SYNTH.                      *)
SpeakRefused ==
  /\ speaker = "sending" /\ MayTrouble("refuse")
  /\ troubles' = troubles + 1
  /\ \E ok \in BOOLEAN : BeforeSynth(ok)
  /\ utt' = utt + 1
  /\ speaker' = "idle" /\ spoilt' = TRUE
  /\ UNCHANGED <<speakingModule, outFlags, eventQ, reader, control, synth, asked,
                 handled, heard, stopFor, crossed>>

(* output_is_speaking(): one event is taken when pipe_speak has a byte.    *)
TakeEvent ==
  /\ speaker = "listen" /\ bytes[speakingModule] > 0
  /\ handled' = Head(events) /\ events' = Tail(events)
  /\ bytes' = [bytes EXCEPT ![speakingModule] = @ - 1]
  /\ heard' = (heard \/ Head(events).type = "begin")
  /\ speaker' = IF Head(events).type \in Terminal THEN "join" ELSE "listen"
  /\ UNCHANGED <<queueVars, speakingModule, outFlags, target, reader, control,
                 synth, utt, troubles, asked, stopFor, crossed, spoilt>>

(* The output thread is joined; is_sb_speaking() then forgets the module,  *)
(* except when its pipe was broken (speaking.c:725).                       *)
Joined ==
  /\ speaker = "join" /\ reader.at = "done"
  /\ speakingModule' = IF handled.type = "broken" THEN speakingModule ELSE NoModule
  /\ speaker' = "idle"
  /\ UNCHANGED <<queueVars, outFlags, eventQ, reader, control, synth, utt, troubles,
                 history>>

-----------------------------------------------------------------------------
(* The output thread.                                                      *)

LastEvents == {"702", "703", "704", "broken"}

Answers ==
  (IF synth.begun THEN {"702"} ELSE {"701"})
  \cup (IF synth.begun /\ synth.sent < Len(Script) THEN {Script[synth.sent + 1]} ELSE {})
  \cup (IF "stop" \in synth.told THEN {"703"} ELSE {})
  \cup (IF synth.begun /\ "pause" \in synth.told THEN {"704"} ELSE {})
  \cup (IF MayTrouble("break") THEN {"broken"} ELSE {})

(* What output_module_is_speaking() does with the event, from the flags as *)
(* it finds them; each operation of the list takes the queue's mutex.      *)
Discards == stopAsked \/ (pauseAsked /\ pauseQueued)
IfNotPaused(op) == IF pauseQueued THEN <<>> ELSE <<op>>

ToDo(e) ==
  CASE e = "701" -> <<"beforePlay">>
    [] e = "702" -> IF stopAsked THEN <<"stop">>
                    ELSE IF pauseAsked THEN IfNotPaused("pause") \o <<"END">>
                    ELSE <<"END", "endQueued">>
    [] e = "703" -> IfNotPaused("stop")
    [] e = "704" -> IfNotPaused("pause") \o <<"END">>
    [] e = "SD_MARK" /\ ~Discards -> <<e, "pauseAtMark">>
    [] e \in ItemTypes \ {"SD_MARK"} /\ ~Discards -> <<e>>
    [] e = "broken" -> <<"broken">>
    [] OTHER -> <<>>

(* A mark of the server is still to be played: the pause will take effect. *)
MarkAhead ==
  \/ \E i \in DOMAIN queue : queue[i].type = "SD_MARK"
  \/ play.entry.type = "SD_MARK" /\ play.at \in {"tell", "append", "told"}

Reader(todo, last) ==
  [at |-> IF todo # <<>> THEN "act" ELSE IF last THEN "done" ELSE "read",
   todo |-> todo, last |-> last]

ReadEvent ==
  /\ reader.at = "read"
  /\ \E e \in Answers :
       /\ reader' = Reader(ToDo(e), e \in LastEvents)
       /\ synth' = [synth EXCEPT !.begun = @ \/ e = "701",
                                 !.sent = IF e \in ItemTypes THEN @ + 1 ELSE @]
       /\ spoilt' = (spoilt \/ e = "broken")
       /\ troubles' = troubles + (IF e = "broken" THEN 1 ELSE 0)
       /\ crossed' = (crossed \/ (e = "703" /\ pauseQueued /\ ~MarkAhead))
  /\ UNCHANGED <<queueVars, speakingModule, outFlags, eventQ, speaker, control, utt,
                 asked, handled, heard, stopFor>>

Doing(ops) == reader.at = "act" /\ reader.todo # <<>> /\ Head(reader.todo) \in ops
OpDone     == reader' = Reader(Tail(reader.todo), reader.last)

readerOthers == <<speakingModule, speaker, control, synth, utt, troubles, asked,
                  handled, heard, spoilt>>
readerElse   == <<readerOthers, crossed>>

ActQueue ==
  /\ \/ Doing({"beforePlay"}) /\ BeforePlay(utt)
     \/ Doing({"MARK", "SD_MARK", "SOUND_ICON", "END"}) /\ Push(Head(reader.todo), utt)
     \/ Doing({"pause"}) /\ Pause
     \/ Doing({"stop"}) /\ ~CanStop /\ UNCHANGED queueVars
  /\ OpDone
  /\ crossed' = (crossed \/ (Doing({"stop"}) /\ state # "IDLE" /\ ~stopRequested))
  /\ UNCHANGED <<outFlags, eventQ, stopFor, readerOthers>>

(* module_speak_queue_add_audio(): refused, pushed, or waiting for room.   *)
ActAudio ==
  /\ Doing({"AUDIO"}) /\ asleep["reader"] = Awake
  /\ \/ AddAudio(utt) /\ OpDone
     \/ WaitForRoom("reader") /\ UNCHANGED reader
  /\ UNCHANGED <<outFlags, eventQ, stopFor, readerElse>>

ActStop ==
  /\ Doing({"stop"}) /\ StopAndWait("reader")
  /\ reader' = [reader EXCEPT !.at = "stopping", !.todo = Tail(@)]
  /\ stopFor' = utt
  /\ UNCHANGED <<outFlags, eventQ, readerElse>>

ActStopReturns ==
  /\ reader.at = "stopping" /\ asleep["reader"] = Awake
  /\ reader' = Reader(reader.todo, reader.last)
  /\ UNCHANGED <<queueVars, outFlags, eventQ, stopFor, readerElse>>

(* output_end_queued is set after END was pushed, without the queue's mutex. *)
ActEndQueued ==
  /\ Doing({"endQueued"}) /\ OpDone
  /\ endQueued' = TRUE
  /\ UNCHANGED <<queueVars, stopAsked, pauseAsked, pauseQueued, eventQ, stopFor,
                 readerElse>>

(* Looked at again after the mark was pushed. *)
ActPauseAtMark ==
  /\ Doing({"pauseAtMark"}) /\ OpDone
  /\ IF pauseAsked THEN Pause /\ pauseQueued' = TRUE
                   ELSE UNCHANGED <<queueVars, pauseQueued>>
  /\ UNCHANGED <<endQueued, stopAsked, pauseAsked, eventQ, stopFor, readerElse>>

ActBroken ==
  /\ \/ Doing({"broken"}) /\ ~Listened /\ OpDone /\ UNCHANGED eventQ
     \/ /\ Doing({"broken"}) /\ Listened /\ Looks("reader")
        /\ reader' = [reader EXCEPT !.todo = <<"appendBroken">>]
     \/ Doing({"appendBroken"}) /\ Appends("reader", "broken", utt) /\ OpDone
  /\ UNCHANGED <<queueVars, outFlags, stopFor, readerElse>>

OutputThread ==
  \/ ReadEvent
  \/ ActQueue \/ ActAudio \/ ActStop \/ ActStopReturns
  \/ ActEndQueued \/ ActPauseAtMark \/ ActBroken

-----------------------------------------------------------------------------
(* output_stop() and output_pause(), on behalf of a client or of speak().  *)

controlElse == <<speakingModule, eventQ, speaker, reader, utt, handled, heard, crossed, spoilt>>

(* Free to ask: nobody holds the output lock, some message was spoken.     *)
MayAsk(what) ==
  /\ control = "free" /\ speaker \notin {"sending", "gone"}
  /\ Listened /\ MayTrouble(what)
  /\ troubles' = troubles + 1 /\ asked' = asked \cup {what}

StopsDirectly == endQueued

(* The module has finished: the queue is stopped directly. *)
OutputStopDirectly ==
  /\ MayAsk("stop") /\ StopsDirectly
  /\ \/ /\ StopAndWait("control")
        /\ control' = "stopping" /\ stopFor' = utt
     \/ /\ ~CanStop /\ UNCHANGED <<queueVars, stopFor, control>>
  /\ UNCHANGED <<outFlags, synth, controlElse>>

StopReturns ==
  /\ control = "stopping" /\ asleep["control"] = Awake
  /\ control' = "free"
  /\ UNCHANGED <<queueVars, outFlags, synth, troubles, asked, stopFor, controlElse>>

(* The module is at work: set the flag, flush the queue, then tell it.     *)
OutputStop ==
  /\ MayAsk("stop") /\ ~StopsDirectly
  /\ stopAsked' = TRUE /\ control' = "flush"
  /\ UNCHANGED <<queueVars, endQueued, pauseAsked, pauseQueued, synth, stopFor,
                 controlElse>>

OutputStopFlushes ==
  /\ control = "flush" /\ Flush /\ control' = "sendStop"
  /\ UNCHANGED <<outFlags, synth, troubles, asked, stopFor, controlElse>>

OutputPauseDirectly ==
  /\ MayAsk("pause") /\ endQueued
  /\ Pause
  /\ UNCHANGED <<outFlags, control, synth, stopFor, controlElse>>

OutputPause ==
  /\ MayAsk("pause") /\ ~endQueued
  /\ pauseAsked' = TRUE /\ control' = "sendPause"
  /\ UNCHANGED <<queueVars, endQueued, stopAsked, pauseQueued, synth, stopFor,
                 controlElse>>

(* The module reads STOP or PAUSE; one that has finished ignores it.       *)
OutputTells ==
  /\ control \in {"sendStop", "sendPause"}
  /\ synth' = [synth EXCEPT !.told =
                 @ \cup {IF control = "sendStop" THEN "stop" ELSE "pause"}]
  /\ control' = "free"
  /\ UNCHANGED <<queueVars, outFlags, troubles, asked, stopFor, controlElse>>

(* The end of main(): the speak() thread is cancelled and joined, then     *)
(* module_speak_queue_terminate().                                         *)
Quit ==
  /\ MayQuit /\ control = "free" /\ speaker \in {"idle", "listen", "join"}
  /\ Terminate
  /\ speaker' = "gone" /\ control' = "quitting"
  /\ UNCHANGED <<speakingModule, outFlags, eventQ, reader, synth, utt, troubles, history>>

QuitDone ==
  /\ control = "quitting" /\ play.at = "gone" /\ sop = "gone"
  /\ control' = "gone"
  /\ UNCHANGED <<queueVars, speakingModule, outFlags, eventQ, speaker, reader, synth,
                 utt, troubles, history>>

-----------------------------------------------------------------------------
PlaySteps    == PlayWorks \/ PlayDrops \/ PlayLooks \/ PlayAppends
SopSteps     == SopWorks \/ SopDrops \/ SopLooks \/ SopAppends
SpeakerSteps == SpeakSent \/ SpeakRefused \/ TakeEvent \/ Joined
ControlSteps == StopReturns \/ OutputStopFlushes \/ OutputTells \/ QuitDone
Requests     == OutputStop \/ OutputStopDirectly \/ OutputPause \/ OutputPauseDirectly

Next ==
  \/ PlaySteps \/ SopSteps \/ SpeakerSteps \/ ControlSteps \/ OutputThread
  \/ (\E m \in Modules : SpeakBegins(m)) \/ Requests \/ Quit

Spec == Init /\ [][Next]_vars

(* Threads run; a module that speaks sends its last event some time.  No   *)
(* client has to ask anything.                                             *)
Fairness ==
  /\ WF_vars(PlaySteps) /\ WF_vars(SopSteps) /\ WF_vars(SpeakerSteps)
  /\ WF_vars(ControlSteps) /\ WF_vars(OutputThread)

FairSpec == Spec /\ Fairness

-----------------------------------------------------------------------------
(* Properties.  Two histories name the exceptions.  crossed: the play      *)
(* thread took END while a stop was being carried out, or a stop or pause  *)
(* came while the stop_or_pause thread was not waiting, or a STOPPED event *)
(* was ignored because of a pause whose mark had already passed.  spoilt:  *)
(* a module refused a message or its pipe broke, which leaves the queue in *)
(* the middle of that message.                                             *)

TypeOK ==
  /\ QueueTypeOK
  /\ speakingModule \in Modules \cup {NoModule}
  /\ {endQueued, stopAsked, pauseAsked, pauseQueued, heard, crossed, spoilt} \subseteq BOOLEAN
  /\ \A i \in DOMAIN events : events[i].type \in EventType /\ events[i].utt \in Utterance
  /\ bytes \in [Modules -> Nat]
  /\ speaker \in {"idle", "sending", "listen", "join", "gone"}
  /\ speaker \in {"sending", "listen", "join"} => speakingModule # NoModule
  /\ control \in {"free", "flush", "sendStop", "sendPause", "stopping", "quitting", "gone"}
  /\ reader.at \in {"read", "act", "stopping", "done"}
  /\ reader.at = "act" <=> reader.todo # <<>> /\ reader.at # "stopping"

(* Every event that the speak() thread takes from playback_events is about *)
(* the message it has sent, although three threads append to that list and *)
(* two of them outlive the message (output_queue_event, output.c:999).     *)
OwnEvents ==
  ~crossed /\ ~spoilt /\ handled # NoEvent => handled.utt = utt

(* Once the speak() thread was told that a message is over, no sound of it *)
(* is played or waits to be played: the queue is cleared before STOPPED    *)
(* and PAUSED are reported, and END comes after the last track             *)
(* (speak_queue_stop_or_pause and speak_queue_play).                       *)
Silence ==
  ~crossed /\ ~spoilt /\ speaker = "idle" =>
    /\ ~Got({"AUDIO", "SOUND_ICON"})
    /\ \A i \in DOMAIN queue : queue[i].type = "END"

(* The output layer keeps the promise of PlaybackSession to speak().       *)
Session == INSTANCE PlaybackSession WITH
  phase <- IF speaker # "listen" THEN "silent" ELSE IF heard THEN "begun" ELSE "open",
  last  <- handled.type,
  mixed <- crossed \/ spoilt
SessionKept == Session!Spec

(* A message ends for the speak() thread: neither the bounded queue, nor   *)
(* the four condition variables, nor a refused or broken message before it *)
(* keeps it waiting for ever.                                              *)
AllEnd == (speaker = "listen") ~> (speaker # "listen" \/ crossed)

(* STOP makes the output layer stop: a message whose stop was asked ends   *)
(* (output_stop; ssip.texi on STOP).                                       *)
StopEnds == (speaker = "listen" /\ "stop" \in asked) ~> (speaker # "listen")
=============================================================================
