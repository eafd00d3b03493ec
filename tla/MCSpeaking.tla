----------------------------- MODULE MCSpeaking -----------------------------
(***************************************************************************)
(* The module of TLC's runs on Speaking.  Each .cfg chooses the clients,   *)
(* messages, priorities and commands of one question; the bounds are the   *)
(* constants of Speaking.                                                  *)
(*                                                                         *)
(* The properties below are what the SSIP documentation, the comments and  *)
(* the assertions of the server say of it and the code does not always do. *)
(* Each one is checked by a run of its own that shows how it fails.        *)
(***************************************************************************)
EXTENDS Speaking

(* ssip.texi, CANCEL event: a message that was reported cancelled "will    *)
(* not be spoken anymore".                                                 *)
CancelIsFinal ==
  [][\A i \in MsgId : life[i] = "cancel" => life'[i] = "cancel"]_vars

(* ssip.texi, priority progress: when the progress messages that wait are  *)
(* purged by others, the newest of them is still going to be said: it is   *)
(* spoken now, or its copy waits in last_p5_block or with the messages.    *)
LastProgressSaid ==
  [][queue[SPD_PROGRESS] # <<>> /\ queue'[SPD_PROGRESS] = <<>> =>
       LET last == LastOf(queue[SPD_PROGRESS]) IN
       \/ current'.id = last.id
       \/ \E m \in Elements(lastP5') \cup Elements(queue'[SPD_MESSAGE]) :
            m.id = last.id]_vars

(* ssip.texi, PAUSE: the messages of the client that was named by a PAUSE  *)
(* are postponed: the client's paused flag is set in the end.              *)
PauseHonoured ==
  \A u \in Client : (main.op = "pause" /\ main.uids = {u} /\ HasSettings(u))
                      ~> settings[u].paused

(* speechd.c, speechd_connection_destroy(): the settings of a client that  *)
(* has left are kept as long as it has a message in the queues.            *)
SettingsKept ==
  \A m \in Elements(pausedList) \cup Elements(lastP5)
             \cup UNION {Elements(queue[p]) : p \in Priority} : HasSettings(m.uid)

(* speaking.c, speaking_get_queue(): assert(priority >= SPD_IMPORTANT ...) *)
(* holds whenever speaking_stop_all() asks for the queue that is spoken.   *)
QueueExists == fault # "assert"
=============================================================================
