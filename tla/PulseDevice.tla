---------------------------- MODULE PulseDevice ----------------------------
(***************************************************************************)
(* src/src/audio/pulse.c.  All of it runs under the lock of PulseAudio's   *)
(* main loop, which is released only to wait.  The flag playing is set by  *)
(* a write and cleared by a stop; whoever finds it cleared flushes.  The   *)
(* stop thread waits for its flush with drain_lock held.                   *)
(***************************************************************************)
EXTENDS AudioPlayer

PulseInit == [conn |-> TRUE, dead |-> FALSE, playing |-> FALSE, tuned |-> FALSE]

(* pulse_begin(): a connection with other parameters is closed, whoever    *)
(* waits in it, and id->pa_simple is NULL until the new one stands.        *)
PulseTuned ==
  /\ player = "begin" /\ dev.tuned /\ Began
  /\ UNCHANGED <<chosen, dev, card, left, heard, stopVars, told, fault>>

PulseClose ==
  /\ player = "begin" /\ stopper # "flush" /\ player' = "connect"
  /\ dev' = [dev EXCEPT !.conn = FALSE] /\ card' = <<>>
  /\ UNCHANGED <<chosen, queue, left, heard, stopVars, told, fault>>

PulseClosesUnder == player = "begin" /\ stopper = "flush" /\ Dies("stop")

PulseConnect ==
  /\ player = "connect" /\ Began
  /\ \/ dev' = [conn |-> TRUE, dead |-> FALSE, playing |-> FALSE, tuned |-> TRUE]
     \/ frail /\ dev' = [dev EXCEPT !.tuned = FALSE]
  /\ UNCHANGED <<chosen, card, left, heard, stopVars, told, fault>>

(* spd_pa_simple_write(): writes what fits, then waits for room.           *)
PulseWrite ==
  /\ player \in {"feed", "write"} /\ dev.conn /\ ~dev.dead
  /\ player = "write" => dev.playing /\ Free > 0
  /\ Takes(Lesser(left, Free))
  /\ dev' = [dev EXCEPT !.playing = TRUE]
  /\ player' = IF left' = 0 THEN "drain" ELSE "write"
  /\ UNCHANGED <<chosen, queue, heard, stopVars, told, fault>>

PulseInterrupted ==
  /\ player = "write" /\ ~dev.playing /\ ~dev.dead
  /\ card' = <<>> /\ player' = "drain"
  /\ UNCHANGED <<chosen, dev, queue, left, heard, stopVars, told, fault>>

(* A dead connection: pulse_feed() closes it, and pa_current_rate still    *)
(* tells the next pulse_begin() that it has the right one.                 *)
PulseFails ==
  /\ player \in {"feed", "write"} /\ dev.conn /\ dev.dead /\ stopper # "flush"
  /\ dev' = [dev EXCEPT !.conn = FALSE] /\ Fed
  /\ UNCHANGED <<chosen, card, left, heard, stopVars, told, fault>>

(* Before it closes it flushes: it holds the main loop's lock, which the   *)
(* stop thread needs to return, and waits for that thread's drain_lock.    *)
PulseLocks ==
  /\ player \in {"feed", "write"} /\ dev.conn /\ dev.dead /\ stopper = "flush"
  /\ Dies("both")

(* spd_pa_simple_drain() *)
BuggyFlushed == card
Flushed == IF dev.playing THEN card ELSE <<>>

PulseDrained(rest) == dev.dead \/ ~dev.playing \/ Len(card) <= rest

PulseDrain ==
  /\ player = "drain" /\ PulseDrained(Overlap) /\ card' = Flushed /\ Fed
  /\ UNCHANGED <<chosen, dev, left, heard, stopVars, told, fault>>

PulseEnd ==
  /\ player = "end" /\ dev.conn /\ PulseDrained(0) /\ card' = Flushed /\ Ended
  /\ UNCHANGED <<chosen, dev, left, heard, stopVars, fault>>

(* pulse_stop(): spd_pa_simple_flush() of id->pa_simple, whatever it is.   *)
PulseStop ==
  /\ stopper = "stop" /\ dev.conn
  /\ IF dev.playing \/ dev.dead
     THEN stopper' = "wait" /\ UNCHANGED card
     ELSE stopper' = "flush" /\ card' = <<>>
  /\ dev' = [dev EXCEPT !.playing = FALSE]
  /\ UNCHANGED <<chosen, playVars, asked, stops, told, fault>>

(* The flush is acknowledged, or the server has gone. *)
PulseFlushed ==
  /\ stopper = "flush" /\ stopper' = "wait"
  /\ UNCHANGED <<chosen, dev, card, playVars, asked, stops, told, fault>>

PulseUsedClosed ==
  /\ ~dev.conn
  /\ \/ player \in {"feed", "end"} /\ Dies("play")
     \/ stopper = "stop" /\ Dies("stop")

(* The PulseAudio server goes away; its callbacks wake whoever waits.      *)
PulseServerDies ==
  /\ frail /\ dev.conn /\ ~dev.dead
  /\ dev' = [dev EXCEPT !.dead = TRUE] /\ card' = <<>>
  /\ UNCHANGED <<chosen, playVars, stopVars, told, fault>>

PulseNext ==
  /\ system = "pulse"
  /\ \/ PulseTuned \/ PulseClose \/ PulseClosesUnder \/ PulseConnect \/ PulseWrite
     \/ PulseInterrupted \/ PulseFails \/ PulseLocks \/ PulseDrain \/ PulseEnd
     \/ PulseStop \/ PulseFlushed \/ PulseUsedClosed \/ PulseServerDies
=============================================================================
