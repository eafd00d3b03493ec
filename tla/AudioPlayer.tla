---------------------------- MODULE AudioPlayer ----------------------------
(***************************************************************************)
(* Who uses an audio device: the playback thread of speak_queue.c, which   *)
(* begins, feeds and ends it through spd_audio.c, and the thread that      *)
(* stops it meanwhile, again and again until playback sleeps.              *)
(*                                                                         *)
(* A message is Tracks tracks of Samples samples; the sound card holds up  *)
(* to Room samples and plays them one by one.  A sample is the number of   *)
(* its message.  Each sound system is a module of its own that extends     *)
(* this one and keeps its state in dev.                                    *)
(***************************************************************************)
EXTENDS Naturals, Sequences, SequencesExt

CONSTANTS
  Systems,     \* the sound systems, of which a module opens one
  Tracks, Samples, Room, Overlap,
  MaxMessages, \* messages in a behaviour
  MaxStops     \* STOP requests in a behaviour

ASSUME AudioAssumption ==
  /\ Systems \subseteq {"alsa", "pulse", "pipewire", "oss", "libao", "nas"}
  /\ {Tracks, Samples, Room} \subseteq Nat \ {0} /\ Overlap \in Nat
  /\ {MaxMessages, MaxStops} \subseteq Nat

VARIABLES
  system,     \* the sound system that was opened
  frail,      \* the device or the sound server may fail
  dev,        \* its state
  card,       \* the samples the card has still to play
  heard,      \* how many samples of the message were played
  player,     \* what the playback thread does
  message, tracks, left, \* the message, its tracks fed, samples left of this one
  configured, \* speak_queue_configured
  stopper,    \* what the stop thread does
  asked,      \* speak_queue_stop_requested
  stops,      \* bound
  told,       \* how the client was told that the last message ended
  fault       \* the thread, "play" or "stop", that used what was closed or wrote
              \* past the end, or "both": they wait for each other

chosen   == <<system, frail>>
queue    == <<message, tracks, configured>>
playVars == <<player, queue, left, heard>>
stopVars == <<stopper, asked, stops>>
vars     == <<chosen, dev, card, playVars, stopVars, told, fault>>

PlayerInit ==
  /\ system \in Systems /\ frail \in BOOLEAN /\ (frail => system # "pipewire")
  /\ card = <<>> /\ heard = 0
  /\ player = "sleep" /\ message = 0 /\ tracks = 0 /\ left = 0
  /\ configured = FALSE
  /\ stopper = "idle" /\ asked = FALSE /\ stops = 0
  /\ told = "none" /\ fault = "none"

Lesser(m, n) == IF m < n THEN m ELSE n
Free == Room - Len(card)

(* The device takes n samples of the track. *)
Takes(n) == /\ card' = card \o [i \in 1 .. n |-> message]
            /\ left' = left - n

-----------------------------------------------------------------------------
(* The playback thread: speak_queue_play().  Between two calls of the      *)
(* device it is in "next"; a system's steps lead from "begin", "feed" and  *)
(* "end" back by Began, Fed and Ended.                                     *)

Wake ==
  /\ player = "sleep" /\ stopper = "idle" /\ message < MaxMessages
  /\ player' = "next" /\ message' = message + 1 /\ tracks' = 0 /\ heard' = 0
  /\ told' = "none"
  /\ UNCHANGED <<chosen, dev, card, configured, left, stopVars, fault>>

(* playback_queue_pop(), and the calls for what it returned. *)
Pop ==
  /\ player = "next"
  /\ player' = IF ~asked /\ tracks < Tracks
               THEN IF configured THEN "feed" ELSE "begin"
               ELSE IF configured THEN "end" ELSE "sleep"
  /\ left' = Samples
  /\ UNCHANGED <<chosen, dev, card, queue, heard, stopVars, told, fault>>

(* What spd_audio_begin() returns is ignored. *)
Began == player' = "feed" /\ configured' = TRUE /\ UNCHANGED <<message, tracks>>

Fed == player' = "next" /\ tracks' = tracks + 1 /\ UNCHANGED <<message, configured>>

Ended ==
  /\ player' = "sleep" /\ configured' = FALSE
  /\ told' = IF asked THEN told ELSE "end"
  /\ UNCHANGED <<message, tracks>>

(* spd_audio_begin() and spd_audio_end() of a system that has neither. *)
PlainBegin ==
  /\ player = "begin" /\ Began
  /\ UNCHANGED <<chosen, dev, card, left, heard, stopVars, told, fault>>

PlainEnd ==
  /\ player = "end" /\ Ended
  /\ UNCHANGED <<chosen, dev, card, left, heard, stopVars, fault>>

Dies(who) == fault' = who /\ UNCHANGED <<chosen, dev, card, playVars, stopVars, told>>

-----------------------------------------------------------------------------
(* The stop thread: speak_queue_stop_or_pause().  A system's steps lead    *)
(* from "stop" to "wait".                                                  *)

(* A stop may also come while playback sleeps and the first sound of the   *)
(* next message is still to be made: the device is stopped all the same.   *)
Ask ==
  /\ stopper = "idle" /\ stops < MaxStops
  /\ player = "sleep" => message < MaxMessages
  /\ asked' = TRUE /\ stops' = stops + 1 /\ stopper' = "stop" /\ told' = "none"
  /\ UNCHANGED <<chosen, dev, card, playVars, fault>>

(* The lock is held from here through spd_audio_stop(). *)
Again ==
  /\ stopper = "wait" /\ player # "sleep" /\ stopper' = "stop"
  /\ UNCHANGED <<chosen, dev, card, playVars, asked, stops, told, fault>>

Tell ==
  /\ stopper = "wait" /\ player = "sleep"
  /\ stopper' = "idle" /\ asked' = FALSE /\ told' = "stop"
  /\ UNCHANGED <<chosen, dev, card, playVars, stops, fault>>

(* The sound card plays. *)
Plays ==
  /\ card # <<>> /\ card' = Tail(card)
  /\ heard' = IF Head(card) = message THEN heard + 1 ELSE heard
  /\ UNCHANGED <<chosen, dev, player, queue, left, stopVars, told, fault>>
=============================================================================
