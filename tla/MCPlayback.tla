----------------------------- MODULE MCPlayback -----------------------------
(* The playback of two messages whose text holds a mark of the server      *)
(* between two tracks; a full queue holds one track.                       *)
EXTENDS Playback

MCScript == <<"AUDIO", "SD_MARK", "AUDIO">>
=============================================================================
