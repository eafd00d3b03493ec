----------------------------- MODULE SpeakQueue -----------------------------
(***************************************************************************)
(* The playback queue that the server plays the sound of its modules from: *)
(* src/src/common/speak_queue.c.  One producer pushes what a module sent,  *)
(* the play thread plays it and reports events in step with the sound, the *)
(* stop_or_pause thread throws away what is left when a stop is asked.     *)
(*                                                                         *)
(* Every section under speak_queue_mutex is one action.  A thread that     *)
(* waits on a condition variable is in `asleep` with the condition's name; *)
(* it runs again only after a signal or a broadcast took it out, and then  *)
(* tests its loop condition once more.  An entry carries, besides its      *)
(* type, the number of the message it was pushed for; that number is there *)
(* for the properties only.  All tracks have the same length, so that      *)
(* playback_queue_size is the number of AUDIO entries in the queue.        *)
(*                                                                         *)
(* module_report_event_*() is the user's: the actions that report take the *)
(* program counter to a report, and the user's module appends the event.   *)
(***************************************************************************)
EXTENDS Naturals, Sequences, FiniteSets

CONSTANTS
  MaxQueueSize   \* speak_queue_maxsize, in tracks (option max_queue_size)

ASSUME QueueSizeAssumption == MaxQueueSize \in Nat

EntryType == {"BEGIN", "AUDIO", "MARK", "SD_MARK", "SOUND_ICON", "END"}
Condition == {"play", "stop_or_pause", "data", "room"}
Thread    == {"play", "sop", "reader", "control"}
Awake     == "no"

VARIABLES
  state,          \* speak_queue_state
  pauseState,     \* speak_queue_pause_state
  stopRequested,  \* speak_queue_stop_requested
  flushRequested, \* speak_queue_flush_requested
  closeRequested, \* speak_queue_close_requested
  queue,          \* playback_queue
  configured,     \* speak_queue_configured
  asleep,         \* the condition each thread waits on, or Awake
  play,           \* the play thread: where it is, the entry it popped
  sop             \* where the stop_or_pause thread is

flags     == <<state, pauseState, stopRequested, flushRequested, closeRequested>>
queueVars == <<flags, queue, configured, asleep, play, sop>>

NoEntry == [type |-> "none", utt |-> 0]

QueueInit ==
  /\ state = "IDLE" /\ pauseState = "OFF"
  /\ stopRequested = FALSE /\ flushRequested = FALSE /\ closeRequested = FALSE
  /\ queue = <<>> /\ configured = FALSE
  /\ asleep = [t \in Thread |-> Awake]
  /\ play = [at |-> "top", entry |-> NoEntry]
  /\ sop = "top"

Size == Cardinality({i \in DOMAIN queue : queue[i].type = "AUDIO"})

(* pthread_cond_signal: one of the waiting threads, if any, runs again.    *)
Signalled(c, new) ==
  \/ \E t \in Thread : asleep[t] = c /\ new = [asleep EXCEPT ![t] = Awake]
  \/ (\A t \in Thread : asleep[t] # c) /\ new = asleep

(* pthread_cond_broadcast of the conditions C. *)
Woken(C) == [t \in Thread |-> IF asleep[t] \in C THEN Awake ELSE asleep[t]]

(* The types of the queue's variables, and where a sleeping thread sleeps. *)
QueueTypeOK ==
  /\ state \in {"IDLE", "BEFORE_SYNTH", "BEFORE_PLAY", "SPEAKING"}
  /\ pauseState \in {"OFF", "REQUESTED", "MARK_REPORTED"}
  /\ {stopRequested, flushRequested, closeRequested, configured} \subseteq BOOLEAN
  /\ \A i \in DOMAIN queue : queue[i].type \in EntryType
  /\ asleep \in [Thread -> Condition \cup {Awake}]
  /\ play.at \in {"top", "sleep", "pop", "got", "tell", "append", "told", "gone"}
  /\ sop \in {"top", "sleep", "awake", "poll", "clear", "reset", "tellStop", "tellPause",
              "appendStop", "appendPause", "gone"}
  /\ asleep["play"] \in ({Awake} \cup (IF play.at = "sleep" THEN {"play"} ELSE {})
                                  \cup (IF play.at = "pop" THEN {"data"} ELSE {}))
  /\ asleep["sop"] \in ({Awake} \cup (IF sop = "sleep" THEN {"stop_or_pause"} ELSE {}))

-----------------------------------------------------------------------------
(* The calls of the user.  Those that may wait are split at the wait.      *)

BeforeSynth(ok) ==
  /\ ok = (state = "IDLE")
  /\ state' = IF ok THEN "BEFORE_SYNTH" ELSE state
  /\ pauseState' = IF ok THEN "OFF" ELSE pauseState
  /\ stopRequested' = (stopRequested /\ ~ok)
  /\ flushRequested' = (flushRequested /\ ~ok)
  /\ UNCHANGED <<closeRequested, queue, configured, asleep, play, sop>>

(* An entry is appended and the play thread is told (playback_queue_push). *)
Push(type, utt) ==
  /\ queue' = Append(queue, [type |-> type, utt |-> utt])
  /\ Signalled("data", asleep')
  /\ UNCHANGED <<flags, configured, play, sop>>

(* "data" and "play" are conditions of the play thread alone: it is woken  *)
(* from whichever of the two it waits on.                                  *)
BeforePlay(utt) ==
  \/ /\ state = "BEFORE_SYNTH"
     /\ state' = "BEFORE_PLAY"
     /\ queue' = Append(queue, [type |-> "BEGIN", utt |-> utt])
     /\ asleep' = Woken({"data", "play"})
     /\ UNCHANGED <<pauseState, stopRequested, flushRequested, closeRequested,
                    configured, play, sop>>
  \/ state # "BEFORE_SYNTH" /\ UNCHANGED queueVars

AudioRefused == state = "IDLE" \/ stopRequested \/ flushRequested

(* module_speak_queue_add_audio() up to its return or its wait for room.   *)
AddAudio(utt) ==
  \/ AudioRefused /\ UNCHANGED queueVars
  \/ ~AudioRefused /\ Size <= MaxQueueSize /\ Push("AUDIO", utt)

WaitForRoom(t) ==
  /\ ~AudioRefused /\ Size > MaxQueueSize
  /\ asleep' = [asleep EXCEPT ![t] = "room"]
  /\ UNCHANGED <<flags, queue, configured, play, sop>>

CanStop == state # "IDLE" /\ ~stopRequested /\ sop = "sleep"

(* module_speak_queue_stop() when it stops: t waits for room to be told.   *)
StopAndWait(t) ==
  /\ CanStop
  /\ stopRequested' = TRUE
  /\ asleep' = [Woken({"stop_or_pause"}) EXCEPT ![t] = "room"]
  /\ UNCHANGED <<state, pauseState, flushRequested, closeRequested, queue,
                 configured, play, sop>>

Pause ==
  /\ pauseState' = IF pauseState = "OFF" /\ ~stopRequested THEN "REQUESTED"
                                                           ELSE pauseState
  /\ UNCHANGED <<state, stopRequested, flushRequested, closeRequested, queue,
                 configured, asleep, play, sop>>

Flush ==
  /\ flushRequested' = TRUE
  /\ Signalled("room", asleep')
  /\ UNCHANGED <<state, pauseState, stopRequested, closeRequested, queue,
                 configured, play, sop>>

(* module_speak_queue_terminate(), up to its two pthread_join calls. *)
Terminate ==
  /\ stopRequested' = TRUE /\ closeRequested' = TRUE
  /\ asleep' = Woken(Condition)
  /\ UNCHANGED <<state, pauseState, flushRequested, queue, configured, play, sop>>

-----------------------------------------------------------------------------
(* The play thread.                                                        *)

PlaySleeping == play.at \in {"sleep", "gone"}
Playable     == state \in {"BEFORE_PLAY", "SPEAKING"}

PlayGoes(at) ==
  play' = [at |-> at, entry |-> IF at \in {"pop", "top", "gone"} THEN NoEntry ELSE play.entry]

(* The top of its outer loop: close the audio device, then wait for work.  *)
PlayTop ==
  /\ play.at = "top"
  /\ configured' = FALSE
  /\ play' = [at |-> IF closeRequested THEN "gone"
                     ELSE IF Playable THEN "pop" ELSE "sleep",
              entry |-> NoEntry]
  /\ asleep' = [asleep EXCEPT !["play"] = IF closeRequested \/ Playable
                                          THEN Awake ELSE "play"]
  /\ UNCHANGED <<flags, queue, sop>>

PlayWakes ==
  /\ play.at = "sleep" /\ asleep["play"] = Awake
  /\ IF closeRequested \/ Playable
     THEN PlayGoes(IF closeRequested THEN "gone" ELSE "pop") /\ UNCHANGED asleep
     ELSE asleep' = [asleep EXCEPT !["play"] = "play"] /\ UNCHANGED play
  /\ UNCHANGED <<flags, queue, configured, sop>>

(* playback_queue_pop(); a mark is reported at once, before the lock is    *)
(* taken again to look whether to pause there.                             *)
PlayPopStopped ==
  /\ play.at = "pop" /\ asleep["play"] = Awake /\ stopRequested
  /\ PlayGoes("top")
  /\ UNCHANGED <<flags, queue, configured, asleep, sop>>

PlayPopWaits ==
  /\ play.at = "pop" /\ asleep["play"] = Awake /\ ~stopRequested /\ queue = <<>>
  /\ asleep' = [asleep EXCEPT !["play"] = "data"]
  /\ UNCHANGED <<flags, queue, configured, play, sop>>

BuggyRoomAfterPop(entry) == asleep
RoomAfterPop(entry) == IF entry.type = "AUDIO" THEN Woken({"room"}) ELSE asleep

PlayPop ==
  /\ play.at = "pop" /\ asleep["play"] = Awake /\ ~stopRequested /\ queue # <<>>
  /\ play' = [at |-> IF Head(queue).type \in {"MARK", "SD_MARK"} THEN "tell" ELSE "got",
              entry |-> Head(queue)]
  /\ queue' = Tail(queue)
  /\ asleep' = RoomAfterPop(Head(queue))
  /\ UNCHANGED <<flags, configured, sop>>

Got(types) == play.at = "got" /\ play.entry.type \in types

(* The device is opened for a track if it is not open, and left open.  For *)
(* an icon it is closed, then opened for the icon's file if that is legible. *)
PlaySound ==
  /\ Got({"AUDIO", "SOUND_ICON"})
  /\ configured' \in (IF play.entry.type = "AUDIO" THEN {TRUE} ELSE BOOLEAN)
  /\ PlayGoes("pop")
  /\ UNCHANGED <<flags, queue, asleep, sop>>

(* BEGIN counts only for a message that is about to be played.             *)
PlayBegin ==
  /\ Got({"BEGIN"})
  /\ state' = IF state = "BEFORE_PLAY" THEN "SPEAKING" ELSE state
  /\ PlayGoes(IF state = "BEFORE_PLAY" THEN "tell" ELSE "pop")
  /\ UNCHANGED <<pauseState, stopRequested, flushRequested, closeRequested,
                 queue, configured, asleep, sop>>

PausesHere ==
  /\ state = "SPEAKING" /\ pauseState = "REQUESTED" /\ sop = "sleep"
  /\ play.entry.type = "SD_MARK"

(* After the mark was reported: a pause that was asked takes effect at a   *)
(* mark of the server ("__spd_...").                                       *)
PlayPauses ==
  /\ play.at = "told" /\ PausesHere
  /\ stopRequested' = TRUE /\ pauseState' = "MARK_REPORTED"
  /\ asleep' = Woken({"stop_or_pause"})
  /\ PlayGoes("top")
  /\ UNCHANGED <<state, flushRequested, closeRequested, queue, configured, sop>>

PlayPassesMark ==
  /\ play.at = "told" /\ ~PausesHere
  /\ PlayGoes("pop")
  /\ UNCHANGED <<flags, queue, configured, asleep, sop>>

AfterEnd == IF stopRequested THEN state ELSE "IDLE"

(* END finishes the message, also when a stop was asked in the meantime.   *)
PlayEnd ==
  /\ Got({"END"})
  /\ configured' = FALSE
  /\ IF state = "SPEAKING"
     THEN /\ state' = AfterEnd
          /\ pauseState' = IF stopRequested THEN pauseState ELSE "OFF"
          /\ PlayGoes("tell")
     ELSE PlayGoes("pop") /\ UNCHANGED <<state, pauseState>>
  /\ UNCHANGED <<stopRequested, flushRequested, closeRequested, queue, asleep, sop>>

(* Where the play thread goes on when its report was delivered.            *)
PlayTold(told) ==
  /\ play.at = told
  /\ PlayGoes(CASE play.entry.type = "BEGIN" -> "pop"
                [] play.entry.type = "END"   -> "top"
                [] OTHER                     -> "told")
  /\ UNCHANGED <<flags, queue, configured, asleep, sop>>

PlayThread ==
  \/ PlayTop \/ PlayWakes
  \/ PlayPopStopped \/ PlayPopWaits \/ PlayPop
  \/ PlaySound \/ PlayBegin \/ PlayPauses \/ PlayPassesMark \/ PlayEnd

-----------------------------------------------------------------------------
(* The stop_or_pause thread.  On the server module_audio_id is set before  *)
(* anything is queued, so its other branch (no audio) does not occur.      *)

SopTop ==
  /\ sop = "top"
  /\ sop' = IF closeRequested THEN "gone" ELSE "sleep"
  /\ asleep' = [asleep EXCEPT !["sop"] = IF closeRequested \/ stopRequested
                                         THEN Awake ELSE "stop_or_pause"]
  /\ UNCHANGED <<flags, queue, configured, play>>

SopWakes ==
  /\ sop = "sleep" /\ asleep["sop"] = Awake
  /\ IF ~stopRequested
     THEN asleep' = [asleep EXCEPT !["sop"] = "stop_or_pause"] /\ UNCHANGED sop
     ELSE IF closeRequested THEN sop' = "gone" /\ UNCHANGED asleep
     ELSE sop' = "awake" /\ asleep' = Woken({"data", "room"})
  /\ UNCHANGED <<flags, queue, configured, play>>

(* The state is IDLE from here on, so that module_speak_queue_before_synth() *)
(* accepts a new message while the old one is still being cleared away.    *)
SopIdles ==
  /\ sop = "awake"
  /\ state' = "IDLE"
  /\ sop' = "poll"
  /\ UNCHANGED <<pauseState, stopRequested, flushRequested, closeRequested,
                 queue, configured, asleep, play>>

BuggySopMayClear == TRUE
SopMayClear == PlaySleeping

(* It polls every 5 ms until the play thread sleeps; only after it let go   *)
(* of the mutex it clears the queue.                                       *)
SopSees ==
  /\ sop = "poll" /\ SopMayClear
  /\ sop' = "clear"
  /\ UNCHANGED <<flags, queue, configured, asleep, play>>

SopClears ==
  /\ sop = "clear"
  /\ queue' = <<>>
  /\ asleep' = Woken({"room"})
  /\ sop' = "reset"
  /\ UNCHANGED <<flags, configured, play>>

SopResets ==
  /\ sop = "reset"
  /\ sop' = IF pauseState = "MARK_REPORTED" THEN "tellPause" ELSE "tellStop"
  /\ state' = "IDLE" /\ pauseState' = "OFF"
  /\ stopRequested' = FALSE /\ flushRequested' = FALSE
  /\ UNCHANGED <<closeRequested, queue, configured, asleep, play>>

SopTold(told) ==
  /\ sop \in told
  /\ sop' = "top"
  /\ UNCHANGED <<flags, queue, configured, asleep, play>>

SopThread == SopTop \/ SopWakes \/ SopIdles \/ SopSees \/ SopClears \/ SopResets
=============================================================================
