----------------------------- MODULE OssDevice -----------------------------
(***************************************************************************)
(* src/src/audio/oss.c.  It only plays whole tracks: each opens the device *)
(* file, writes as the card makes room, waits on a condition variable for  *)
(* as long as what it wrote takes, and closes the file.  A stop resets the *)
(* card and signals that variable: the signal is lost on a thread that     *)
(* does not wait.                                                          *)
(***************************************************************************)
EXTENDS AudioPlayer

OssInit == [fd |-> FALSE, waits |-> FALSE]

(* _oss_open(), and the settings of the format. *)
OssOpen ==
  /\ player = "feed"
  /\ \/ dev' = [dev EXCEPT !.fd = TRUE] /\ player' = "write" /\ UNCHANGED queue
     \/ frail /\ Fed /\ UNCHANGED dev
  /\ UNCHANGED <<chosen, card, left, heard, stopVars, told, fault>>

OssWrite ==
  /\ player = "write"
  /\ \/ Free > 0 /\ Takes(Lesser(left, Free)) /\ player' = "written"
     \/ frail /\ player' = "close" /\ UNCHANGED <<card, left>>
  /\ UNCHANGED <<chosen, dev, queue, heard, stopVars, told, fault>>

(* pthread_cond_timedwait() for the samples written, less DELAY. *)
OssWait ==
  /\ player = "written" /\ player' = "wait" /\ dev' = [dev EXCEPT !.waits = TRUE]
  /\ UNCHANGED <<chosen, card, queue, left, heard, stopVars, told, fault>>

OssTimeout ==
  /\ player = "wait" /\ dev.waits /\ Len(card) <= Overlap
  /\ player' = IF left = 0 THEN "rest" ELSE "write"
  /\ dev' = [dev EXCEPT !.waits = left = 0]
  /\ UNCHANGED <<chosen, card, queue, left, heard, stopVars, told, fault>>

OssInterrupted ==
  /\ player = "wait" /\ ~dev.waits /\ player' = "close"
  /\ UNCHANGED <<chosen, dev, card, queue, left, heard, stopVars, told, fault>>

(* The resting delay, cut short by the signal too. *)
OssRest ==
  /\ player = "rest" /\ player' = "close" /\ dev' = [dev EXCEPT !.waits = FALSE]
  /\ UNCHANGED <<chosen, card, queue, left, heard, stopVars, told, fault>>

(* _oss_close() under fd_mutex: close() waits until the card has played.   *)
OssClose ==
  /\ player = "close" /\ card = <<>>
  /\ dev' = [dev EXCEPT !.fd = FALSE] /\ Fed
  /\ UNCHANGED <<chosen, card, left, heard, stopVars, told, fault>>

(* oss_stop(): a reset that fails is not followed by the signal. *)
OssReset ==
  /\ stopper = "stop" /\ player # "close"
  /\ \/ stopper' = "signal" /\ card' = IF dev.fd THEN <<>> ELSE card
     \/ frail /\ dev.fd /\ stopper' = "wait" /\ UNCHANGED card
  /\ UNCHANGED <<chosen, dev, playVars, asked, stops, told, fault>>

OssSignal ==
  /\ stopper = "signal" /\ stopper' = "wait"
  /\ dev' = [dev EXCEPT !.waits = FALSE]
  /\ UNCHANGED <<chosen, card, playVars, asked, stops, told, fault>>

OssNext ==
  /\ system = "oss"
  /\ \/ PlainBegin \/ PlainEnd \/ OssOpen \/ OssWrite \/ OssWait \/ OssTimeout
     \/ OssInterrupted \/ OssRest \/ OssClose \/ OssReset \/ OssSignal
=============================================================================
