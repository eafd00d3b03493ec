------------------------------- MODULE Modules -------------------------------
(***************************************************************************)
(* The output modules at work: the synthesis in the main thread of most    *)
(* kinds, and the worker of the threaded ones.                             *)
(***************************************************************************)
EXTENDS ModuleSide

Unlocked == main \notin {"accepts", "refuses"}

(* module_send() takes module_stdout_mutex. *)
Says(line) == Unlocked /\ replies' = Append(replies, line)

Unheard == UNCHANGED replies

-----------------------------------------------------------------------------
(* module_speak_sync(): clear the flags, accept, and begin.  flite clears  *)
(* its flag when it ends; the first call of espeak_Synth()'s callback      *)
(* begins, unless it stops first.                                          *)
BuggyResets ==
  /\ speaking' = TRUE /\ UNCHANGED stop
  /\ pause' = FALSE /\ markSent' = FALSE

Resets ==
  /\ speaking' = TRUE /\ stop' = (kind = "flite" /\ stop)
  /\ pause' = FALSE /\ markSent' = FALSE

SyncSpeak ==
  /\ kind \in Synchronous /\ main = "idle" /\ NextIs("SPEAK")
  /\ TakesText(Head(commands).text) /\ Resets
  /\ replies' = replies \o (IF kind = "espeak" THEN <<"200">> ELSE <<"200", "701">>)
  /\ main' = Flavour.first /\ pos' = 0 /\ commands' = Tail(commands)
  /\ UNCHANGED <<server, thread>>

(* module_process(STDIN_FILENO, 0) goes on once there is no command left.  *)
Looked ==
  /\ main \in {"first", "look"} /\ commands = <<>>
  /\ main' = "step"
  /\ IF main = "first" /\ ~stop THEN Says("701") ELSE Unheard
  /\ UNCHANGED <<server, commands, progress, shouldStop, flags, pos, thread>>

(* The items of a text: a part, its mark, the next part...                 *)
Parts     == 2 * text.parts
IsPart(p) == p % 2 = 0

Halts == stop \/ (pause /\ markSent)

(* module_tts_output_server(): after a stop the audio is thrown away; the  *)
(* commands are read after each piece that is sent.                        *)
SendPart ==
  /\ main = "step" /\ ~Halts /\ pos < Parts /\ IsPart(pos)
  /\ IF shouldStop
     THEN /\ skipped' = TRUE /\ UNCHANGED said
          /\ main' = IF Flavour.looks THEN "look" ELSE "step"
     ELSE /\ said' = said + 1 /\ UNCHANGED skipped
          /\ main' = "look"
  /\ pos' = pos + (IF Flavour.marks THEN 1 ELSE 2)
  /\ UNCHANGED <<server, commands, replies, text, stopped, shouldStop, flags, thread>>

(* The callback of espeak may bring a mark with the audio or apart.        *)
SendMark ==
  /\ main = "step" /\ ~Halts /\ pos < Parts /\ ~IsPart(pos)
  /\ Says("700") /\ markSent' = pause /\ pos' = pos + 1
  /\ main' \in (IF Flavour.looks \/ kind = "espeak" THEN {"look"} ELSE {})
             \cup (IF Flavour.looks THEN {} ELSE {"step"})
  /\ UNCHANGED <<server, commands, progress, shouldStop, speaking, stop, pause, thread>>

(* The synthesizer fails: those of espeak and festival before any audio,   *)
(* the others at a part.                                                   *)
SynthesisFails ==
  /\ \/ kind \in {"espeak", "festival"} /\ main = Flavour.first /\ pos = 0
     \/ /\ kind \in {"flite", "kali", "pico", "ibmtts", "baratinoo", "openjtalk"}
        /\ main = "step" /\ ~Halts /\ pos < Parts /\ IsPart(pos)
  /\ orders' = orders \cup {"FAILURE"} /\ main' = "fails"
  /\ UNCHANGED <<kind, session, heard, spoken, everPaused>>
  /\ UNCHANGED <<commands, replies, progress, shouldStop, flags, pos, thread>>

(* The event that ends a message, and the flags cleared with it.  Some     *)
(* kinds report a failure as a stop, the others do not tell it.            *)
SyncEnd ==
  /\ main = "fails" \/ (main = "step" /\ (Halts \/ pos = Parts))
  /\ Says(IF main = "fails" /\ kind \in {"flite", "kali", "festival"}
          THEN "703" ELSE Flavour.ends)
  /\ speaking' = FALSE /\ stop' = (kind \notin {"flite", "festival", "pico"} /\ stop)
  /\ main' = "idle"
  /\ UNCHANGED <<server, commands, progress, shouldStop, pause, markSent, pos, thread>>

-----------------------------------------------------------------------------
(* The worker of generic: _generic_speak().                                *)

Worker(from, to) == worker = from /\ worker' = to

UnchangedByWorker == UNCHANGED <<server, commands, text, skipped, stopped, shouldStop, main, pos>>

WorkerWakes ==
  /\ semaphore > 0 /\ semaphore' = semaphore - 1
  /\ Worker("wait", IF text.icon THEN "icon" ELSE "begin")
  /\ stop' = (stop /\ kind # "cicero")
  /\ speaking' = (speaking \/ kind = "cicero")
  /\ given' = 0 /\ child' = "none"
  /\ UnchangedByWorker /\ UNCHANGED <<replies, said, pause, markSent>>

(* A sound icon is played by a command of its own, that no STOP can kill.  *)
IconBegins ==
  /\ Worker("icon", "ended") /\ Says("701") /\ said' = 1
  /\ UnchangedByWorker /\ UNCHANGED <<flags, semaphore, child, given>>

(* An icon, and a text of cicero without parts, end before the module is   *)
(* free to take the next message.                                          *)
EndsBeforeFree ==
  /\ Worker("ended", "free") /\ Says("702")
  /\ UnchangedByWorker /\ UNCHANGED <<said, flags, semaphore, child, given>>

Frees ==
  /\ Worker("free", IF kind = "cicero" THEN "clear" ELSE "wait")
  /\ speaking' = FALSE
  /\ UnchangedByWorker
  /\ UNCHANGED <<replies, said, stop, pause, markSent, semaphore, child, given>>

WorkerBegins ==
  /\ Worker("begin", IF kind = "cicero" THEN "loop" ELSE "fork") /\ Says("701")
  /\ UnchangedByWorker /\ UNCHANGED <<said, flags, semaphore, child, given>>

Forks ==
  /\ Worker("fork", IF kind = "generic" THEN "feed" ELSE "reap") /\ child' = "new"
  /\ UnchangedByWorker /\ UNCHANGED <<replies, said, flags, semaphore, given>>

(* module_parent_wfork() gives the child a part at a time; a pause is only *)
(* looked at, and cleared, before a part.                                  *)
Feeds ==
  /\ Worker("feed", IF ~pause /\ given < text.parts THEN "answer" ELSE "reap")
  /\ given' = IF ~pause /\ given < text.parts THEN given + 1 ELSE given
  /\ pause' = FALSE
  /\ UnchangedByWorker
  /\ UNCHANGED <<replies, said, speaking, stop, markSent, semaphore, child>>

BuggyAnswered == child = "reads" /\ said = given

Answered == child = "killed" \/ (child = "reads" /\ said = given)

FeedsMore ==
  /\ Worker("answer", IF child = "killed" THEN "reap" ELSE "feed") /\ Answered
  /\ UnchangedByWorker /\ UNCHANGED <<replies, said, flags, semaphore, child, given>>

Gone == {"exited", "killed"}

Reaps ==
  /\ Worker("reap", "report") /\ child \in Gone /\ speaking' = FALSE
  /\ UnchangedByWorker
  /\ UNCHANGED <<replies, said, stop, pause, markSent, semaphore, child, given>>

Reports ==
  /\ Worker("report", "wait") /\ Says(IF child = "killed" THEN "703" ELSE "702")
  /\ UnchangedByWorker /\ UNCHANGED <<said, flags, semaphore, child, given>>

(* The child: it makes its group after the fork; that of dummy plays one   *)
(* file, that of generic reads parts until the pipe is closed.             *)
ChildGroups ==
  /\ child = "new" /\ child' = IF kind = "generic" THEN "reads" ELSE "plays"
  /\ UnchangedByWorker /\ UNCHANGED <<replies, said, flags, worker, semaphore, given>>

ChildSpeaks ==
  /\ child = "reads" /\ said < given /\ said' = said + 1
  /\ UnchangedByWorker /\ UNCHANGED <<replies, flags, worker, semaphore, child, given>>

ChildExits ==
  /\ \/ child = "plays" /\ said' = text.parts
     \/ child = "reads" /\ worker = "reap" /\ said = given /\ UNCHANGED said
  /\ child' = "exited"
  /\ UnchangedByWorker /\ UNCHANGED <<replies, flags, worker, semaphore, given>>

-----------------------------------------------------------------------------
(* The worker of cicero: _cicero_speak().                                  *)

CiceroLoops ==
  /\ worker = "loop" /\ Unheard
  /\ worker' = IF stop THEN "stops" ELSE IF given = text.parts THEN "ended" ELSE "poll"
  /\ given' = IF worker' = "poll" THEN given + 1 ELSE given
  /\ speaking' = (speaking /\ ~stop)
  /\ UnchangedByWorker /\ UNCHANGED <<said, stop, pause, markSent, semaphore, child>>

(* The part is spoken, or the synthesizer is told to stop. *)
CiceroPolls ==
  /\ Worker("poll", IF stop THEN "stops" ELSE "loop") /\ Unheard
  /\ speaking' = FALSE /\ said' = IF stop THEN said ELSE said + 1
  /\ UnchangedByWorker /\ UNCHANGED <<stop, pause, markSent, semaphore, child, given>>

CiceroStops ==
  /\ Worker("stops", "clear") /\ Says("703")
  /\ UnchangedByWorker /\ UNCHANGED <<said, flags, semaphore, child, given>>

CiceroClears ==
  /\ Worker("clear", "wait") /\ stop' = FALSE /\ Unheard
  /\ UnchangedByWorker
  /\ UNCHANGED <<said, speaking, pause, markSent, semaphore, child, given>>
-----------------------------------------------------------------------------
MainStep ==
  \/ AsyncSpeak \/ AsyncReply \/ Handles
  \/ SyncSpeak \/ Looked \/ SendPart \/ SendMark
  \/ SynthesisFails \/ SyncEnd

WorkerStep ==
  \/ WorkerWakes \/ WorkerBegins \/ IconBegins \/ EndsBeforeFree \/ Frees
  \/ Forks \/ Feeds \/ FeedsMore \/ Reaps \/ Reports
  \/ CiceroLoops \/ CiceroPolls \/ CiceroStops \/ CiceroClears

ChildStep == ChildGroups \/ ChildSpeaks \/ ChildExits

Next ==
  \/ ServerSpeaks \/ ServerHears
  \/ \E o \in {"STOP", "PAUSE"} : ServerOrders(o)
  \/ MainStep \/ WorkerStep \/ ChildStep

Spec == Init /\ [][Next]_vars

(* The threads, the child and the server's reading are scheduled; nothing  *)
(* obliges the server to speak, stop or pause.                             *)
FairSpec ==
  /\ Spec
  /\ WF_vars(MainStep) /\ WF_vars(WorkerStep) /\ WF_vars(ChildStep)
  /\ WF_vars(ServerHears)

-----------------------------------------------------------------------------
TypeOK ==
  /\ kind \in Kinds
  /\ session \in {"none", "asked", "accepted"} /\ orders \subseteq {"STOP", "PAUSE", "FAILURE"}
  /\ main \in {"idle", "accepts", "refuses", "first", "look", "step", "fails"}
  /\ worker \in {"wait", "icon", "begin", "ended", "free", "fork", "feed", "answer",
                 "reap", "report", "loop", "poll", "stops", "clear"}
  /\ child \in {"none", "new", "reads", "plays"} \cup Gone
  /\ {said, given} \subseteq 0 .. MaxParts /\ semaphore \in 0 .. 1
  /\ stopped \in {"no", "yes", "lost"}

(* Every kind keeps the contract of a module: one answer, one begin, one   *)
(* end; a message is not reported as stopped or paused when nobody asked   *)
(* for that and no synthesizer failed.                                     *)
Contract == INSTANCE ModuleContract
ContractKept == Contract!ContractSpec

(* A message that nobody stopped or paused is spoken whole if no           *)
(* synthesizer failed, whatever was ordered for the messages before; but   *)
(* for generic a pause that comes too late cuts the next message:          *)
(* generic_pause_requested is left set.                                    *)
SpokenWhole ==
  [][ /\ ServerHears /\ session = "accepted" /\ session' = "none" /\ orders = {}
      /\ ~(kind = "generic" /\ everPaused)
      => Head(replies) = "702" /\ said = text.parts ]_vars

(* Once the module has handled a STOP nothing more of the message is       *)
(* spoken, unless the STOP was lost (StopLost) or it is a sound icon.      *)
StopCuts ==
  [][ stopped = "yes" /\ stopped' = "yes" /\ ~text.icon => said' = said ]_vars

(* The comment of module_pause() (ibmtts.c:532): after a pause the module  *)
(* goes on until the next mark.  So a mark is not reported when the audio  *)
(* before it was thrown away: the text would be skipped on resume.         *)
MarksCovered ==
  [][ Len(replies') > Len(replies) /\ replies'[Len(replies')] = "700" => ~skipped ]_vars

(* Every request to speak comes to an end. *)
AllEnd == session # "none" ~> session = "none"
=============================================================================
