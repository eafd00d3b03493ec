----------------------------- MODULE AlsaDevice -----------------------------
(***************************************************************************)
(* src/src/audio/alsa.c.  A pipe that lives from alsa_begin() to           *)
(* alsa_end() tells the playback thread to stop: it polls it together with *)
(* the card and never empties it, so that a stop is not lost whenever it   *)
(* arrives in between.                                                     *)
(***************************************************************************)
EXTENDS AudioPlayer

AlsaInit == [opened |-> FALSE, stop |-> FALSE, ready |-> FALSE, polls |-> FALSE,
             pcm |-> TRUE,
             dropped |-> TRUE]  \* the last snd_pcm_drop() of alsa_end() worked

(* alsa_begin(), locked up to alsa_opened = 1; it may fail before or after *)
(* that, and is not undone.                                                *)
BuggyAlsaBegun == [dev EXCEPT !.opened = TRUE, !.ready = TRUE, !.polls = TRUE]
AlsaBegun == [dev EXCEPT !.opened = TRUE, !.ready = TRUE, !.polls = TRUE, !.stop = FALSE]

AlsaBegin ==
  /\ player = "begin" /\ dev.pcm /\ Began
  /\ \/ dev' = AlsaBegun
     \/ frail /\ dev' = [AlsaBegun EXCEPT !.ready = FALSE]
     \/ frail /\ dev' = [dev EXCEPT !.ready = FALSE]
  /\ UNCHANGED <<chosen, card, left, heard, stopVars, told, fault>>

(* ERROR_EXIT: _alsa_close() closes the card for good. *)
AlsaClosed ==
  IF dev.opened THEN [dev EXCEPT !.opened = FALSE, !.pcm = FALSE, !.polls = FALSE] ELSE dev

(* snd_pcm_writei() in alsa_feed(), or its error. *)
AlsaWrite ==
  /\ player = "feed" /\ dev.pcm
  /\ \/ /\ dev.ready /\ Takes(Lesser(left, Free)) /\ player' = "poll"
        /\ UNCHANGED <<dev, queue>>
     \/ /\ ~dev.ready \/ frail
        /\ dev' = AlsaClosed /\ Fed /\ UNCHANGED <<card, left>>
  /\ UNCHANGED <<chosen, heard, stopVars, told, fault>>

(* wait_for_poll() while the track is fed; it or snd_pcm_drop() may fail.  *)
AlsaPoll ==
  /\ player = "poll"
  /\ \/ /\ dev.stop /\ card' = <<>> /\ player' = "drain" /\ UNCHANGED <<dev, queue>>
     \/ /\ ~dev.stop /\ Free > 0
        /\ player' = (IF left = 0 THEN "drain" ELSE "feed") /\ UNCHANGED <<dev, queue, card>>
     \/ /\ frail /\ Fed /\ UNCHANGED card
        /\ dev' = IF dev.stop THEN dev ELSE AlsaClosed
  /\ UNCHANGED <<chosen, left, heard, stopVars, told, fault>>

(* alsa_drain_left(), which may fail. *)
Drained(rest) == frail \/ dev.stop \/ Len(card) <= rest

AlsaDrain ==
  /\ player = "drain" /\ Drained(Overlap) /\ Fed
  /\ \/ dev.stop /\ card' = <<>>
     \/ UNCHANGED card
  /\ UNCHANGED <<chosen, dev, left, heard, stopVars, told, fault>>

(* alsa_end(): if snd_pcm_drop() fails the card plays on and the pipe      *)
(* stays open; the device counts as in use.                                *)
AlsaEnd ==
  /\ player = "end" /\ dev.pcm /\ dev.polls /\ Drained(0) /\ Ended
  /\ \/ card' = <<>>
        /\ dev' = [dev EXCEPT !.opened = FALSE, !.polls = FALSE, !.dropped = TRUE]
     \/ frail /\ dev' = [dev EXCEPT !.dropped = FALSE] /\ UNCHANGED card
  /\ UNCHANGED <<chosen, left, heard, stopVars, fault>>

AlsaUsedClosed ==
  /\ \/ player \in {"begin", "feed"} /\ ~dev.pcm
     \/ player = "end" /\ ~(dev.pcm /\ dev.polls)
  /\ Dies("play")

(* alsa_stop(): nothing unless the device is in use. *)
AlsaStop ==
  /\ stopper = "stop" /\ stopper' = "wait"
  /\ dev' = [dev EXCEPT !.stop = dev.stop \/ dev.opened]
  /\ UNCHANGED <<chosen, card, playVars, asked, stops, told, fault>>

AlsaNext ==
  /\ system = "alsa"
  /\ AlsaBegin \/ AlsaWrite \/ AlsaPoll \/ AlsaDrain \/ AlsaEnd \/ AlsaUsedClosed \/ AlsaStop
=============================================================================
