---------------------------- MODULE LibaoDevice ----------------------------
(***************************************************************************)
(* src/src/audio/libao.c.  It plays whole tracks: a track is handed to the *)
(* library in pieces of AO_SEND_BYTES (here one sample), and returns when  *)
(* the library has taken the last, not when it was heard.  A stop is a     *)
(* flag that is looked at between two pieces and cleared by the next       *)
(* track; what the library holds is not taken back.                        *)
(***************************************************************************)
EXTENDS AudioPlayer

LibaoInit == [opened |-> FALSE, stop |-> FALSE]

LibaoOpen ==
  /\ player = "feed"
  /\ \/ dev' = [opened |-> TRUE, stop |-> FALSE] /\ player' = "write" /\ UNCHANGED queue
     \/ frail /\ ~dev.opened /\ Fed /\ UNCHANGED dev
  /\ UNCHANGED <<chosen, card, left, heard, stopVars, told, fault>>

(* ao_play() waits for room; when it fails the device is closed.           *)
LibaoWrite ==
  /\ player = "write" /\ left > 0 /\ ~dev.stop
  /\ \/ Free > 0 /\ Takes(1) /\ UNCHANGED <<dev, player, queue>>
     \/ frail /\ dev' = [dev EXCEPT !.opened = FALSE] /\ Fed /\ UNCHANGED <<card, left>>
  /\ UNCHANGED <<chosen, heard, stopVars, told, fault>>

LibaoDone ==
  /\ player = "write" /\ (left = 0 \/ dev.stop) /\ Fed
  /\ UNCHANGED <<chosen, dev, card, left, heard, stopVars, told, fault>>

LibaoStop ==
  /\ stopper = "stop" /\ stopper' = "wait"
  /\ dev' = [dev EXCEPT !.stop = TRUE]
  /\ UNCHANGED <<chosen, card, playVars, asked, stops, told, fault>>

LibaoNext ==
  /\ system = "libao"
  /\ \/ PlainBegin \/ PlainEnd \/ LibaoOpen \/ LibaoWrite \/ LibaoDone \/ LibaoStop
=============================================================================
