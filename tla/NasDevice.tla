----------------------------- MODULE NasDevice -----------------------------
(***************************************************************************)
(* src/src/audio/nas.c.  It plays whole tracks: the sound server is given  *)
(* all of a track as a flow, and the playback thread waits on a condition  *)
(* variable for as long as the track takes.  The wait may be over before   *)
(* the server has played it: tv_nsec may exceed a second, which            *)
(* pthread_cond_timedwait() refuses.  A stop removes the flow that is      *)
(* noted and signals the variable; the signal is lost on a thread that     *)
(* does not wait yet, and an earlier flow plays on.                        *)
(***************************************************************************)
EXTENDS AudioPlayer

NasInit == [flow |-> FALSE, waits |-> FALSE]

NasPlay ==
  /\ player = "feed"
  /\ \/ Takes(left) /\ dev' = [dev EXCEPT !.flow = TRUE] /\ player' = "wait" /\ UNCHANGED queue
     \/ frail /\ Fed /\ UNCHANGED <<dev, card, left>>
  /\ UNCHANGED <<chosen, heard, stopVars, told, fault>>

NasWait ==
  /\ player = "wait" /\ ~dev.waits /\ player' = "waiting"
  /\ dev' = [dev EXCEPT !.waits = TRUE]
  /\ UNCHANGED <<chosen, card, queue, left, heard, stopVars, told, fault>>

(* Woken by the signal or by time. *)
NasReturn ==
  /\ player = "waiting" /\ Fed
  /\ dev' = [flow |-> FALSE, waits |-> FALSE]
  /\ UNCHANGED <<chosen, card, left, heard, stopVars, told, fault>>

(* AuStopFlow() under flow_mutex: what is left of the last track. *)
NasStop ==
  /\ stopper = "stop" /\ stopper' = "signal"
  /\ card' = IF dev.flow THEN SubSeq(card, 1, Len(card) - Lesser(Samples, Len(card))) ELSE card
  /\ dev' = [dev EXCEPT !.flow = FALSE]
  /\ UNCHANGED <<chosen, playVars, asked, stops, told, fault>>

NasSignal ==
  /\ stopper = "signal" /\ stopper' = "wait"
  /\ dev' = [dev EXCEPT !.waits = FALSE]
  /\ UNCHANGED <<chosen, card, playVars, asked, stops, told, fault>>

NasNext ==
  /\ system = "nas"
  /\ \/ PlainBegin \/ PlainEnd \/ NasPlay \/ NasWait \/ NasReturn \/ NasStop \/ NasSignal
=============================================================================
