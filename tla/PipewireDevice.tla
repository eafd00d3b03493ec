--------------------------- MODULE PipewireDevice ---------------------------
(***************************************************************************)
(* src/src/audio/pipewire.c.  The playback thread writes into a ring       *)
(* buffer that on_process() empties from PipeWire's own thread; the stop   *)
(* thread sets both indexes back to zero while either may be between       *)
(* reading its index and writing it back.  The indexes count on, the room  *)
(* is a difference of unsigned numbers: a read index that passes the write *)
(* index leaves more room than the ring has, and so does a ring filled     *)
(* beyond its size, into which a whole track is then written.              *)
(***************************************************************************)
EXTENDS AudioPlayer, Integers

CONSTANTS Ring,     \* SAMPLE_BUFFER_SIZE, in samples
          Quantum   \* the most samples that PipeWire requests at once

ASSUME RingAssumption == {Ring, Quantum} \subseteq Nat \ {0}

None == <<>>

PipewireInit ==
  [running |-> TRUE,   \* is_running
   active |-> TRUE,    \* what pw_stream_set_active() asked for
   stream |-> "none",  \* its state; "none" before the first pipewire_begin()
   r |-> 0, w |-> 0,
   woken |-> FALSE,    \* eventfd_number counts at least one
   copy |-> None,      \* the write index and the size of a copy under way
   proc |-> None]      \* on_process(): the read index and what it takes

Fill == dev.w - dev.r

(* pipewire_begin() connects the stream for the first track and, after a   *)
(* disconnect, for one of another sample rate: active again, but with      *)
(* is_running and the ring as they were.  There is no pipewire_end().      *)
PwBegin ==
  /\ player = "begin" /\ Began
  /\ \/ dev.stream # "none" /\ UNCHANGED dev
     \/ dev' = [dev EXCEPT !.stream = "connecting", !.active = TRUE]
  /\ UNCHANGED <<chosen, card, left, heard, stopVars, told, fault>>

PwEnd ==
  /\ player = "end" /\ Ended
  /\ UNCHANGED <<chosen, dev, card, left, heard, stopVars, fault>>

(* pipewire_feed_sync_overlap() *)
PwFeed ==
  /\ player = "feed" /\ player' = "room"
  /\ dev' = IF dev.stream = "paused" /\ ~dev.running
            THEN [dev EXCEPT !.running = TRUE, !.active = TRUE] ELSE dev
  /\ UNCHANGED <<chosen, card, queue, left, heard, stopVars, told, fault>>

PwStopped ==
  /\ player = "room" /\ ~dev.running /\ Fed
  /\ UNCHANGED <<chosen, dev, card, left, heard, stopVars, told, fault>>

Space == IF Fill > Ring THEN left ELSE Lesser(left, Ring - Fill)

PwRoom ==
  /\ player = "room" /\ dev.running
  /\ IF Fill = Ring
     THEN player' = "sleeps" /\ UNCHANGED dev
     ELSE /\ player' = "copy"
          /\ dev' = [dev EXCEPT !.copy = <<dev.w, Space>>]
  /\ UNCHANGED <<chosen, card, queue, left, heard, stopVars, told, fault>>

(* spa_ringbuffer_write_data() goes round the ring once and no more. *)
Overruns(at, n) == n > Ring - (at % Ring) + Ring

PwOverrun == player = "copy" /\ Overruns(dev.copy[1], dev.copy[2]) /\ Dies("play")

PwCopy ==
  /\ player = "copy" /\ ~Overruns(dev.copy[1], dev.copy[2])
  /\ LET at == dev.copy[1]  n == dev.copy[2] IN
     /\ dev' = [dev EXCEPT !.w = at + n, !.copy = None]
     /\ left' = left - n
     /\ player' = IF left = n THEN "rest" ELSE "room"
  /\ UNCHANGED <<chosen, card, queue, heard, stopVars, told, fault>>

(* The last wait, which looks at the ring and not at is_running. *)
Nearly == Fill \in 0 .. Overlap

PwRest ==
  /\ player = "rest"
  /\ IF Nearly THEN Fed ELSE player' = "rests" /\ UNCHANGED queue
  /\ UNCHANGED <<chosen, dev, card, left, heard, stopVars, told, fault>>

PwWoken ==
  /\ player \in {"sleeps", "rests"} /\ dev.woken
  /\ player' = IF player = "sleeps" THEN "room" ELSE "rest"
  /\ dev' = [dev EXCEPT !.woken = FALSE]
  /\ UNCHANGED <<chosen, card, queue, left, heard, stopVars, told, fault>>

(* on_process() *)
PwTakes ==
  /\ dev.stream = "streaming" /\ dev.proc = None
  /\ dev' = [dev EXCEPT !.proc = <<dev.r, IF Fill > 0 THEN Lesser(Fill, Quantum) ELSE 0>>]
  /\ UNCHANGED <<chosen, card, playVars, stopVars, told, fault>>

PwUpdates ==
  /\ dev.proc # None
  /\ dev' = [dev EXCEPT !.proc = None, !.woken = TRUE,
                        !.r = IF dev.proc[2] > 0 THEN dev.proc[1] + dev.proc[2] ELSE @]
  /\ UNCHANGED <<chosen, card, playVars, stopVars, told, fault>>

(* The stream is connected, starts or pauses some time after it was asked. *)
PwFollows ==
  /\ \/ dev.stream = "connecting" /\ dev' = [dev EXCEPT !.stream = "paused"]
     \/ dev.stream = "paused" /\ dev.active /\ dev' = [dev EXCEPT !.stream = "streaming"]
     \/ dev.stream = "streaming" /\ ~dev.active /\ dev' = [dev EXCEPT !.stream = "paused"]
  /\ UNCHANGED <<chosen, card, playVars, stopVars, told, fault>>

(* pipewire_stop() *)
BuggyPwHalted == [dev EXCEPT !.running = FALSE]
PwHalted == [dev EXCEPT !.running = FALSE, !.woken = TRUE]

PwHalt ==
  /\ stopper = "stop" /\ stopper' = "pause" /\ dev' = PwHalted
  /\ UNCHANGED <<chosen, card, playVars, asked, stops, told, fault>>

PwPause ==
  /\ stopper = "pause" /\ stopper' = "reset"
  /\ dev' = [dev EXCEPT !.active = FALSE]
  /\ UNCHANGED <<chosen, card, playVars, asked, stops, told, fault>>

PwReset ==
  /\ stopper = "reset" /\ stopper' = "wait"
  /\ dev' = [dev EXCEPT !.r = 0, !.w = 0]
  /\ UNCHANGED <<chosen, card, playVars, asked, stops, told, fault>>

PipewireNext ==
  /\ system = "pipewire"
  /\ \/ PwBegin \/ PwEnd \/ PwFeed \/ PwStopped \/ PwRoom \/ PwOverrun \/ PwCopy \/ PwRest \/ PwWoken
     \/ PwTakes \/ PwUpdates \/ PwFollows \/ PwHalt \/ PwPause \/ PwReset
=============================================================================
