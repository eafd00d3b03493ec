------------------------------- MODULE Audio -------------------------------
(***************************************************************************)
(* An output module that plays through one of the sound systems of         *)
(* src/src/audio: the playback thread, the thread that stops it, and the   *)
(* threads of the sound system itself.                                     *)
(***************************************************************************)
EXTENDS AlsaDevice, PulseDevice, PipewireDevice, OssDevice, LibaoDevice, NasDevice

Init ==
  /\ PlayerInit
  /\ dev = CASE system = "alsa" -> AlsaInit [] system = "pulse" -> PulseInit
             [] system = "pipewire" -> PipewireInit [] system = "oss" -> OssInit
             [] system = "libao" -> LibaoInit [] system = "nas" -> NasInit

Works == fault = "none"

DeviceNext ==
  \/ AlsaNext \/ PulseNext \/ PipewireNext \/ OssNext \/ LibaoNext \/ NasNext

Next ==
  /\ Works
  /\ \/ Wake \/ Pop \/ Ask \/ Again \/ Tell \/ Plays
     \/ DeviceNext

(* The threads are scheduled, the card plays, and PipeWire calls back.     *)
PlayerSteps ==
  /\ Works /\ (Pop \/ DeviceNext)
  /\ <<player, fault>>' # <<player, fault>>

StopperSteps ==
  /\ Works /\ (Again \/ Tell \/ DeviceNext)
  /\ <<stopper, fault>>' # <<stopper, fault>>

RingSteps == Works /\ system = "pipewire" /\ (PwTakes \/ PwUpdates \/ PwFollows)

CardSteps == Works /\ Plays

Spec == Init /\ [][Next]_vars
FairSpec == Spec /\ WF_vars(PlayerSteps) /\ WF_vars(StopperSteps)
                 /\ WF_vars(RingSteps) /\ WF_vars(CardSteps)

-----------------------------------------------------------------------------
(* Whoever was told that speech has stopped hears no more of it, with the  *)
(* systems whose stop takes back what the card was given, unless ALSA      *)
(* refused to drop it.                                                     *)
Silence ==
  Works /\ told = "stop" /\ player = "sleep" /\ system \in {"alsa", "pulse", "oss"}
    /\ (system = "alsa" => dev.dropped)
  => card = <<>>

(* What the card has still to play of the message: libao and NAS report   *)
(* the end while it plays.                                                 *)
StillPlaying ==
  IF system \in {"libao", "nas"} THEN Cardinality({i \in DOMAIN card : card[i] = message}) ELSE 0

(* A message reported as spoken to its end is heard whole, unless the      *)
(* device failed: no stop of an earlier message cuts it.                   *)
Whole ==
  Works /\ told = "end" /\ ~frail /\ system # "pipewire" =>
    heard + StillPlaying = Tracks * Samples

(* A stop that was asked for is carried out: neither a lost wake-up nor a  *)
(* full device keeps the playback thread from seeing it.                   *)
StopReturns == asked ~> (told = "stop" \/ ~Works)
=============================================================================
