------------------------- MODULE AudioProofs -------------------------
(***************************************************************************)
(* Proofs about Audio, for any number of messages, tracks, samples and     *)
(* stops and any room of the card, on each of the six systems.             *)
(***************************************************************************)
EXTENDS Audio, FiniteSetTheorems, TLAPS

-----------------------------------------------------------------------------
(* How many samples of the message m the list s holds.                     *)
Places(s, m) == {i \in DOMAIN s : s[i] = m}
Count(s, m) == Cardinality(Places(s, m))

LEMMA PlacesFinite ==
  ASSUME NEW s \in Seq(Nat), NEW m
  PROVE  IsFiniteSet(Places(s, m)) /\ Count(s, m) \in Nat
<1>1. Len(s) \in Nat /\ Places(s, m) \subseteq 1 .. Len(s)
  BY DEF Places
<1>2. IsFiniteSet(1 .. Len(s))
  BY <1>1, FS_Interval
<1> QED BY <1>1, <1>2, FS_Subset, FS_CardinalityType DEF Count

(* What is appended is counted.                                            *)
LEMMA CountTaken ==
  ASSUME NEW s \in Seq(Nat), NEW m \in Nat, NEW n \in Nat
  PROVE  Count(s \o [i \in 1 .. n |-> m], m) = Count(s, m) + n
<1> DEFINE t == s \o [i \in 1 .. n |-> m]
           new == Len(s) + 1 .. Len(s) + n
<1>1. [i \in 1 .. n |-> m] \in Seq(Nat) /\ Len([i \in 1 .. n |-> m]) = n
  OBVIOUS
<1>2. /\ t \in Seq(Nat) /\ Len(t) = Len(s) + n /\ Len(s) \in Nat
      /\ \A i \in 1 .. Len(s) : t[i] = s[i]
      /\ \A i \in new : t[i] = m
  BY <1>1
<1>3. Places(t, m) = Places(s, m) \cup new /\ Places(s, m) \cap new = {}
  <2> HIDE DEF t
  <2> QED BY <1>2 DEF Places
<1>4. IsFiniteSet(new) /\ Cardinality(new) = n
  <2>1. Len(s) + 1 \in Int /\ Len(s) + n \in Int
    BY <1>2
  <2>2. IsFiniteSet(new)
        /\ Cardinality(new) = IF Len(s) + 1 > Len(s) + n THEN 0 ELSE (Len(s) + n) - (Len(s) + 1) + 1
    BY <2>1, FS_Interval
  <2>3. Len(s) \in Nat /\ n \in Nat
    BY <1>2
  <2>4. (IF Len(s) + 1 > Len(s) + n THEN 0 ELSE (Len(s) + n) - (Len(s) + 1) + 1) = n
    BY <2>3
  <2> QED BY <2>2, <2>4
<1>5. Cardinality(Places(t, m)) = Cardinality(Places(s, m)) + n - Cardinality({})
  <2> HIDE DEF t, new
  <2> QED BY <1>3, <1>4, PlacesFinite, FS_Union
<1> QED BY <1>5, FS_EmptySet, PlacesFinite DEF Count

(* What is played is counted no longer.                                    *)
LEMMA CountPlayed ==
  ASSUME NEW s \in Seq(Nat), s # <<>>, NEW m \in Nat
  PROVE  Count(s, m) = Count(Tail(s), m) + (IF Head(s) = m THEN 1 ELSE 0)
<1> DEFINE t == Tail(s)
           f == [i \in Places(t, m) |-> i + 1]
           rest == Places(s, m) \ {1}
<1>1. /\ t \in Seq(Nat) /\ Len(s) \in Nat \ {0} /\ Len(t) = Len(s) - 1
      /\ \A i \in 1 .. Len(t) : t[i] = s[i + 1]
      /\ Head(s) = s[1]
  OBVIOUS
<1>2. f \in Bijection(Places(t, m), rest)
  <2> HIDE DEF t
  <2>1. f \in [Places(t, m) -> rest]
    BY <1>1 DEF Places
  <2>2. \A i, j \in Places(t, m) : f[i] = f[j] => i = j
    BY <1>1 DEF Places
  <2>3. ASSUME NEW k \in rest
        PROVE  \E i \in Places(t, m) : f[i] = k
    <3>1. k \in 2 .. Len(s) /\ s[k] = m
      BY <1>1 DEF Places
    <3>2. k - 1 \in 1 .. Len(t) /\ t[k - 1] = s[(k - 1) + 1] /\ (k - 1) + 1 = k
      BY <1>1, <3>1
    <3>3. k - 1 \in Places(t, m)
      BY <1>1, <3>1, <3>2 DEF Places
    <3> QED BY <3>2, <3>3
  <2> HIDE DEF f
  <2> QED BY <2>1, <2>2, <2>3 DEF Bijection, Injection, Surjection, IsInjective
<1>3. IsFiniteSet(Places(s, m)) /\ IsFiniteSet(Places(t, m))
  BY <1>1, PlacesFinite
<1>4. Cardinality(rest) = Cardinality(Places(t, m))
  <2> HIDE DEF f, t, rest
  <2>1. ExistsBijection(Places(t, m), rest)
    BY <1>2 DEF ExistsBijection
  <2> QED BY <2>1, <1>3, FS_Bijection
<1>5. CASE Head(s) = m
  <2>1. 1 \in Places(s, m)
    BY <1>1, <1>5 DEF Places
  <2>2. Cardinality(rest) = Cardinality(Places(s, m)) - 1
    BY <1>3, <2>1, FS_RemoveElement
  <2> HIDE DEF t, rest
  <2>3. Count(s, m) \in Nat /\ Count(t, m) \in Nat
    BY <1>1, PlacesFinite
  <2> QED BY <1>4, <1>5, <2>2, <2>3 DEF Count, t
<1>6. CASE Head(s) # m
  <2>1. rest = Places(s, m)
    BY <1>1, <1>6 DEF Places
  <2> HIDE DEF t, rest
  <2>2. Count(s, m) \in Nat /\ Count(t, m) \in Nat
    BY <1>1, PlacesFinite
  <2> QED BY <1>4, <1>6, <2>1, <2>2 DEF Count, t
<1> QED BY <1>5, <1>6

(* There is nothing of a message that comes later than all of them.        *)
LEMMA CountNone ==
  ASSUME NEW s, NEW m, \A i \in DOMAIN s : s[i] # m
  PROVE  Count(s, m) = 0
<1>1. Places(s, m) = {}
  BY DEF Places
<1> QED BY <1>1, FS_EmptySet DEF Count

-----------------------------------------------------------------------------
(* The inductive invariant, of the five systems that the properties are    *)
(* about.  In Busy the playback thread is within a track.                  *)
Busy == {"feed", "poll", "drain", "write", "written", "wait", "waiting", "rest", "close"}
Fed1 == tracks * Samples + (IF player \in Busy THEN Samples - left ELSE 0)

(* The two threads: what was configured, fed and told when.                *)
ThreadsInv ==
  /\ player \in {"sleep", "next", "begin", "connect", "end"} \cup Busy
  /\ message \in Nat /\ tracks \in 0 .. Tracks /\ left \in 0 .. Samples /\ heard \in Nat
  /\ frail \in BOOLEAN /\ configured \in BOOLEAN /\ asked \in BOOLEAN
  /\ asked <=> stopper # "idle"
  /\ told # "none" => player = "sleep"
  /\ told = "end" => ~asked
  /\ player \in {"sleep", "begin", "connect"} => ~configured
  /\ player \in Busy \cup {"end"} => configured
  /\ ~configured /\ player # "sleep" => tracks = 0
  /\ player \in Busy => tracks < Tracks
  /\ player \in {"begin", "connect"} => left = Samples

(* The card holds what was fed so far, of this message and earlier ones.   *)
CardInv ==
  /\ card \in Seq(Nat)
  /\ system # "nas" => Len(card) <= Room
  /\ \A i \in DOMAIN card : card[i] <= message

(* Of a message that nobody asked to stop, all that was fed is heard or    *)
(* still in the card, and its end is only told when all of it was fed.     *)
CountInv ==
  ~frail /\ ~asked =>
    /\ player # "sleep" => heard + Count(card, message) = Fed1
    /\ player = "end" => tracks = Tracks
    /\ told = "end" => heard + Count(card, message) = Tracks * Samples

(* For each system: where its playback thread can be, when the card is     *)
(* empty, and that a message which nobody asked to stop meets no sign of   *)
(* an earlier stop in the device.                                          *)
AlsaInv ==
  /\ dev \in [opened : BOOLEAN, stop : BOOLEAN, ready : BOOLEAN, polls : BOOLEAN, pcm : BOOLEAN,
             dropped : BOOLEAN]
  /\ player \notin {"connect", "write", "written", "wait", "waiting", "rest", "close"}
  /\ ~configured /\ dev.dropped => card = <<>>
  /\ ~frail => dev.dropped
  /\ ~frail /\ ~asked => /\ configured => ~dev.stop /\ dev.ready
                         /\ player = "drain" => left = 0

PulseInv ==
  /\ dev \in [conn : BOOLEAN, dead : BOOLEAN, playing : BOOLEAN, tuned : BOOLEAN]
  /\ player \notin {"poll", "written", "wait", "waiting", "rest", "close"}
  /\ ~configured => card = <<>>
  /\ dev.dead => frail /\ card = <<>>
  /\ ~frail /\ ~asked =>
       /\ player \in {"write", "drain"} \/ (configured /\ tracks > 0) => dev.playing
       /\ player = "drain" => left = 0

OssInv ==
  /\ dev \in [fd : BOOLEAN, waits : BOOLEAN]
  /\ player \notin {"connect", "poll", "drain", "waiting"}
  /\ player \notin {"write", "written", "wait", "rest", "close"} => card = <<>>
  /\ ~frail /\ ~asked => /\ player \in {"wait", "rest"} => dev.waits
                         /\ player \in {"rest", "close"} => left = 0

LibaoInv ==
  /\ dev \in [opened : BOOLEAN, stop : BOOLEAN]
  /\ player \notin {"connect", "poll", "drain", "written", "wait", "waiting", "rest", "close"}
  /\ ~frail /\ ~asked => (player = "write" => ~dev.stop)

NasInv ==
  /\ dev \in [flow : BOOLEAN, waits : BOOLEAN]
  /\ player \notin {"connect", "poll", "drain", "write", "written", "rest", "close"}
  /\ ~frail /\ ~asked => (player \in {"wait", "waiting"} => left = 0)

SystemInv ==
  /\ system \in {"alsa", "pulse", "oss", "libao", "nas"}
  /\ system = "alsa" => AlsaInv
  /\ system = "pulse" => PulseInv
  /\ system = "oss" => OssInv
  /\ system = "libao" => LibaoInv
  /\ system = "nas" => NasInv

Inv == ThreadsInv /\ CardInv /\ CountInv /\ SystemInv

LEMMA Constants ==
  /\ Tracks \in Nat \ {0} /\ Samples \in Nat \ {0} /\ Room \in Nat \ {0} /\ Overlap \in Nat
  /\ Tracks * Samples \in Nat
  /\ \A n \in Nat : n * Samples \in Nat /\ (n + 1) * Samples = n * Samples + Samples
BY AudioAssumption

(* A step that leaves the card and the numbers of a message alone keeps    *)
(* what is in the card; playing, taking and clearing the card keep it too. *)
LEMMA CardSame ==
  ASSUME CardInv, UNCHANGED <<system, card>>, message \in Nat, message' \in Nat, message' >= message
  PROVE  CardInv'
BY DEF CardInv

LEMMA CardCleared ==
  ASSUME UNCHANGED system, card' = <<>>
  PROVE  CardInv' /\ Count(card', message') = 0
<1>1. Count(<<>>, message') = 0
  BY CountNone
<1> QED BY <1>1, Constants DEF CardInv

LEMMA CardTakes ==
  ASSUME CardInv, UNCHANGED <<system, message>>, message \in Nat, NEW n \in Nat, Takes(n),
         system # "nas" => n <= Free
  PROVE  CardInv' /\ Count(card', message') = Count(card, message) + n
<1> DEFINE t == [i \in 1 .. n |-> message]
<1>1. t \in Seq(Nat) /\ Len(t) = n /\ card \in Seq(Nat) /\ card' = card \o t
  BY DEF CardInv, Takes
<1>2. card' \in Seq(Nat) /\ Len(card') = Len(card) + n
  BY <1>1
<1>3. \A i \in DOMAIN card' : card'[i] <= message'
  <2> SUFFICES ASSUME NEW i \in DOMAIN card' PROVE card'[i] <= message
    OBVIOUS
  <2>1. i \in 1 .. Len(card) + n
    BY <1>2
  <2>2. CASE i \in 1 .. Len(card)
    BY <1>1, <2>2 DEF CardInv
  <2>3. CASE i \in Len(card) + 1 .. Len(card) + n
    <3>1. card'[i] = message
      BY <1>1, <2>3
    <3> QED BY <3>1
  <2> QED BY <1>1, <2>1, <2>2, <2>3
<1>4. Count(card', message') = Count(card, message) + n
  BY <1>1, CountTaken
<1>5. system # "nas" => Len(card') <= Room
  BY <1>1, <1>2, Constants DEF Free
<1> QED BY <1>2, <1>3, <1>4, <1>5 DEF CardInv

LEMMA LesserType ==
  ASSUME NEW a \in Nat, NEW b \in Nat
  PROVE  Lesser(a, b) \in Nat /\ Lesser(a, b) <= a /\ Lesser(a, b) <= b
BY DEF Lesser

LEMMA FreeType ==
  ASSUME CardInv, system # "nas"
  PROVE  Free \in Nat
BY Constants DEF CardInv, Free

-----------------------------------------------------------------------------
(* The threads, between two calls of the device.                           *)

LEMMA WakeKeeps == ASSUME Inv, Wake PROVE Inv'
<1> USE DEF Inv
<1>1. ThreadsInv'
  BY Constants DEF Wake, ThreadsInv, chosen, stopVars, Busy
<1>2. CardInv'
  BY CardSame DEF Wake, chosen, ThreadsInv
<1>3. CountInv'
  <2>1. \A i \in DOMAIN card : card[i] # message + 1
    BY DEF CardInv, ThreadsInv
  <2>2. Count(card', message') = 0
    BY <2>1, CountNone DEF Wake
  <2> QED BY <2>2, Constants DEF Wake, CountInv, Fed1, Busy
<1>4. SystemInv'
  BY DEF Wake, SystemInv, AlsaInv, PulseInv, OssInv, LibaoInv, NasInv, ThreadsInv, chosen, stopVars
<1> QED BY <1>1, <1>2, <1>3, <1>4

LEMMA PopKeeps == ASSUME Inv, Pop PROVE Inv'
<1> USE DEF Inv
<1>1. ThreadsInv'
  BY Constants DEF Pop, ThreadsInv, chosen, queue, stopVars, Busy
<1>2. CardInv'
  BY CardSame DEF Pop, chosen, queue, ThreadsInv
<1>3. CountInv'
  BY Constants DEF Pop, CountInv, Fed1, Busy, ThreadsInv, chosen, queue, stopVars
<1>4. SystemInv'
  BY DEF Pop, SystemInv, AlsaInv, PulseInv, OssInv, LibaoInv, NasInv, ThreadsInv, chosen, queue, stopVars
<1> QED BY <1>1, <1>2, <1>3, <1>4

LEMMA StopperKeeps == ASSUME Inv, Ask \/ Again \/ Tell PROVE Inv'
<1> USE DEF Inv
<1>1. ThreadsInv'
  <2>1. CASE Ask
    BY <2>1 DEF Ask, ThreadsInv, chosen, queue, playVars, Busy
  <2>2. CASE Again
    BY <2>2 DEF Again, ThreadsInv, chosen, queue, playVars, Busy
  <2>3. CASE Tell
    BY <2>3 DEF Tell, ThreadsInv, chosen, queue, playVars, Busy
  <2> QED BY <2>1, <2>2, <2>3
<1>2. CardInv'
  BY CardSame DEF Ask, Again, Tell, chosen, queue, playVars, ThreadsInv
<1>3. CountInv'
  BY DEF Ask, Again, Tell, CountInv, Fed1, Busy, ThreadsInv, chosen, queue, playVars
<1>4. SystemInv'
  BY DEF Ask, Again, Tell, SystemInv, AlsaInv, PulseInv, OssInv, LibaoInv, NasInv, ThreadsInv,
         chosen, queue, playVars, Busy
<1> QED BY <1>1, <1>2, <1>3, <1>4

LEMMA PlaysKeeps == ASSUME Inv, Plays PROVE Inv'
<1> USE DEF Inv
<1>1. ThreadsInv'
  BY DEF Plays, ThreadsInv, chosen, queue, stopVars
<1>2. card \in Seq(Nat) /\ card # <<>> /\ card' = Tail(card) /\ system' = system /\ message' = message
  BY DEF Plays, CardInv, chosen, queue
<1>3. CardInv'
  <2> DEFINE t == Tail(card)
  <2>1. /\ t \in Seq(Nat) /\ Len(t) = Len(card) - 1 /\ Len(card) \in Nat \ {0}
        /\ \A i \in 1 .. Len(t) : t[i] = card[i + 1]
    BY <1>2
  <2>2. \A i \in 1 .. Len(t) : t[i] <= message
    <3> SUFFICES ASSUME NEW i \in 1 .. Len(t) PROVE t[i] <= message
      OBVIOUS
    <3>1. i + 1 \in DOMAIN card /\ t[i] = card[i + 1]
      BY <1>2, <2>1
    <3> QED BY <3>1 DEF CardInv
  <2>3. system # "nas" => Len(t) <= Room
    BY <2>1, Constants DEF CardInv
  <2> HIDE DEF t
  <2>4. DOMAIN t = 1 .. Len(t)
    BY <2>1
  <2> QED BY <1>2, <2>1, <2>2, <2>3, <2>4 DEF CardInv, t
<1>4. Count(card, message) = Count(card', message') + (IF Head(card) = message THEN 1 ELSE 0)
  BY <1>2, CountPlayed DEF ThreadsInv
<1>5. heard' + Count(card', message') = heard + Count(card, message)
  <2>1. Count(card', message') \in Nat /\ heard \in Nat
    <3>1. Tail(card) \in Seq(Nat)
      BY <1>2
    <3> QED BY <1>2, <3>1, PlacesFinite DEF ThreadsInv
  <2> QED BY <1>4, <2>1 DEF Plays
<1>6. CountInv'
  BY <1>5 DEF Plays, CountInv, Fed1, chosen, queue, stopVars
<1>7. SystemInv'
  <2>1. card' # <<>> => card # <<>>
    BY <1>2
  <2> QED BY <2>1 DEF Plays, SystemInv, AlsaInv, PulseInv, OssInv, LibaoInv, NasInv, chosen, queue, stopVars
<1> QED BY <1>1, <1>3, <1>6, <1>7

LEMMA DiesKeeps == ASSUME Inv, NEW who, Dies(who) PROVE Inv'
BY DEF Inv, Dies, ThreadsInv, CardInv, CountInv, SystemInv, AlsaInv, PulseInv, OssInv, LibaoInv,
       NasInv, Fed1, Count, Places, chosen, queue, playVars, stopVars

(* What the threads and the numbers make of a call of the device: within a *)
(* track, when the card takes samples, and when the track was fed.         *)
Shared == ThreadsInv /\ CardInv /\ CountInv

LEMMA BusyKeeps ==
  ASSUME Shared, player \in Busy, player' \in Busy,
         UNCHANGED <<chosen, card, queue, left, heard, stopVars, told>>
  PROVE  Shared'
<1> USE DEF Shared, chosen, queue, stopVars
<1>1. ThreadsInv'
  BY DEF ThreadsInv, Busy
<1>2. CardInv'
  BY CardSame DEF ThreadsInv
<1>3. CountInv'
  BY DEF CountInv, Fed1, Busy
<1> QED BY <1>1, <1>2, <1>3

LEMMA TakesKeeps ==
  ASSUME Shared, player \in Busy, player' \in Busy, NEW n \in Nat, n <= left, Takes(n),
         system # "nas" => n <= Free, UNCHANGED <<chosen, queue, heard, stopVars, told>>
  PROVE  Shared'
<1> USE DEF Shared, chosen, queue, stopVars
<1>1. ThreadsInv'
  BY Constants DEF Takes, ThreadsInv, Busy
<1>2. CardInv' /\ Count(card', message') = Count(card, message) + n
  BY CardTakes DEF ThreadsInv
<1>3. Count(card, message) \in Nat /\ tracks * Samples \in Nat
  BY PlacesFinite, Constants DEF CardInv, ThreadsInv
<1>4. Fed1' = Fed1 + n
  <2> DEFINE T == tracks * Samples
  <2>1. Fed1 = T + (Samples - left) /\ Fed1' = T + (Samples - (left - n)) /\ T \in Nat
    BY <1>3 DEF Takes, Fed1
  <2> HIDE DEF T
  <2> QED BY <2>1, Constants DEF ThreadsInv
<1>5. heard' + Count(card', message') = heard + Count(card, message) + n
  BY <1>2, <1>3 DEF ThreadsInv
<1>6. CountInv'
  BY <1>4, <1>5 DEF CountInv, ThreadsInv, Busy
<1> QED BY <1>1, <1>2, <1>6

LEMMA FedKeeps ==
  ASSUME Shared, player \in Busy, Fed, ~frail /\ ~asked => left = 0,
         UNCHANGED <<chosen, card, left, heard, stopVars, told>>
  PROVE  Shared'
<1> USE DEF Shared, Fed, chosen, queue, stopVars
<1>1. ThreadsInv'
  BY Constants DEF ThreadsInv, Busy
<1>2. CardInv'
  BY CardSame DEF ThreadsInv
<1>3. CountInv'
  BY Constants DEF CountInv, Fed1, Busy, ThreadsInv
<1> QED BY <1>1, <1>2, <1>3

(* The card is cleared of a message that somebody asked to stop, or of     *)
(* which nothing is left.                                                  *)
LEMMA ClearedKeeps ==
  ASSUME Shared, UNCHANGED <<chosen, playVars, stopVars, told>>, card' = <<>>,
         frail \/ asked
  PROVE  Shared'
<1> USE DEF Shared, chosen, queue, playVars, stopVars
<1>1. ThreadsInv'
  BY DEF ThreadsInv
<1>2. CardInv'
  BY CardCleared
<1>3. CountInv'
  BY DEF CountInv, ThreadsInv
<1> QED BY <1>1, <1>2, <1>3

(* Of the stop thread's steps within spd_audio_stop() only the card is     *)
(* seen here.                                                              *)
LEMMA StoppingKeeps ==
  ASSUME Shared, asked, stopper' # "idle", UNCHANGED <<chosen, playVars, asked, stops, told>>,
         CardInv'
  PROVE  Shared'
BY DEF Shared, chosen, queue, playVars, ThreadsInv, CountInv

(* The end of a message: all of it is heard, or in the card.               *)
LEMMA EndedKeeps ==
  ASSUME Shared, player = "end", Ended, UNCHANGED <<chosen, left, heard, stopVars>>,
         card' = card \/ (card' = <<>> /\ (frail \/ asked \/ card = <<>>))
  PROVE  Shared'
<1> USE DEF Shared, Ended, chosen, queue, stopVars
<1>1. ThreadsInv'
  BY DEF ThreadsInv, Busy
<1>2. CardInv'
  BY CardSame, CardCleared DEF ThreadsInv
<1>3. CountInv'
  <2> SUFFICES ASSUME ~frail, ~asked
               PROVE  heard' + Count(card', message') = Tracks * Samples
    BY DEF CountInv
  <2>1. tracks = Tracks /\ heard + Count(card, message) = Fed1
    BY DEF CountInv
  <2>2. Fed1 = Tracks * Samples
    BY <2>1, Constants DEF Fed1, Busy
  <2>3. card' = card
    OBVIOUS
  <2> QED BY <2>1, <2>2, <2>3
<1> QED BY <1>1, <1>2, <1>3

(* The device is open for a message: nothing of it was fed.                *)
LEMMA BeganKeeps ==
  ASSUME Shared, player \in {"begin", "connect"}, Began, UNCHANGED <<chosen, card, left, heard, stopVars, told>>
  PROVE  Shared'
<1> USE DEF Shared, Began, chosen, queue, stopVars
<1>1. ThreadsInv'
  BY Constants DEF ThreadsInv, Busy
<1>2. CardInv'
  BY CardSame DEF ThreadsInv
<1>3. CountInv'
  BY Constants DEF CountInv, Fed1, Busy, ThreadsInv
<1> QED BY <1>1, <1>2, <1>3

(* spd_audio_begin() and spd_audio_end() of oss, libao and nas.            *)
LEMMA PlainKeeps ==
  ASSUME Inv, system \in {"oss", "libao", "nas"}, PlainBegin \/ PlainEnd
  PROVE  Inv'
<1> USE DEF PlainBegin, PlainEnd
<1>1. Shared'
  BY BeganKeeps, EndedKeeps DEF Inv, Shared
<1>2. SystemInv'
  BY DEF Inv, Began, Ended, SystemInv, OssInv, LibaoInv, NasInv, ThreadsInv, chosen, queue, stopVars
<1> QED BY <1>1, <1>2 DEF Inv, Shared

-----------------------------------------------------------------------------
(* alsa                                                                    *)

LEMMA AlsaKeeps == ASSUME Inv, system = "alsa", AlsaNext PROVE Inv'
<1> USE DEF Inv, Shared, SystemInv, AlsaInv
<1>1. ASSUME AlsaBegin PROVE Inv'
  <2>1. Shared'
    BY <1>1, BeganKeeps DEF AlsaBegin
  <2>2. SystemInv'
    BY <1>1 DEF AlsaBegin, AlsaBegun, Began, chosen, stopVars, Busy
  <2> QED BY <2>1, <2>2
<1>2. ASSUME AlsaWrite PROVE Inv'
  <2>1. CASE dev.ready /\ Takes(Lesser(left, Free)) /\ player' = "poll" /\ UNCHANGED <<dev, queue>>
    <3>1. Lesser(left, Free) \in Nat /\ Lesser(left, Free) <= left /\ Lesser(left, Free) <= Free
      <4>1. left \in Nat /\ Free \in Nat
        BY FreeType, Constants DEF ThreadsInv
      <4> QED BY <4>1, LesserType
    <3>2. Shared'
      BY <1>2, <2>1, <3>1, TakesKeeps DEF AlsaWrite, Busy
    <3>3. SystemInv'
      BY <1>2, <2>1 DEF AlsaWrite, ThreadsInv, Busy, chosen, queue, stopVars
    <3> QED BY <3>2, <3>3
  <2>2. CASE (~dev.ready \/ frail) /\ dev' = AlsaClosed /\ Fed /\ UNCHANGED <<card, left>>
    <3>1. Shared'
      BY <1>2, <2>2, FedKeeps DEF AlsaWrite, ThreadsInv, Busy
    <3>2. SystemInv'
      BY <1>2, <2>2 DEF AlsaWrite, AlsaClosed, Fed, ThreadsInv, Busy, chosen, stopVars
    <3> QED BY <3>1, <3>2
  <2> QED BY <1>2, <2>1, <2>2 DEF AlsaWrite
<1>3. ASSUME AlsaPoll PROVE Inv'
  <2>1. CASE dev.stop /\ card' = <<>> /\ player' = "drain" /\ UNCHANGED <<dev, queue>>
    <3>1. ThreadsInv'
      BY <1>3, <2>1 DEF AlsaPoll, ThreadsInv, Busy, chosen, queue, stopVars
    <3>2. CardInv'
      BY <1>3, <2>1, CardCleared DEF AlsaPoll, chosen
    <3>3. CountInv' /\ SystemInv'
      BY <1>3, <2>1 DEF AlsaPoll, CountInv, ThreadsInv, Busy, chosen, queue, stopVars
    <3> QED BY <3>1, <3>2, <3>3
  <2>2. CASE player' = (IF left = 0 THEN "drain" ELSE "feed") /\ UNCHANGED <<dev, queue, card>>
    <3>1. Shared'
      BY <1>3, <2>2, BusyKeeps DEF AlsaPoll, Busy
    <3>2. SystemInv'
      BY <1>3, <2>2 DEF AlsaPoll, ThreadsInv, Busy, chosen, queue, stopVars
    <3> QED BY <3>1, <3>2
  <2>3. CASE frail /\ Fed /\ UNCHANGED card /\ dev' = IF dev.stop THEN dev ELSE AlsaClosed
    <3>1. Shared'
      BY <1>3, <2>3, FedKeeps DEF AlsaPoll, Busy
    <3>2. SystemInv'
      BY <1>3, <2>3 DEF AlsaPoll, AlsaClosed, Fed, ThreadsInv, Busy, chosen, stopVars
    <3> QED BY <3>1, <3>2
  <2> QED BY <1>3, <2>1, <2>2, <2>3 DEF AlsaPoll
<1>4. ASSUME AlsaDrain PROVE Inv'
  <2> USE DEF Fed, chosen, queue, stopVars
  <2>1. ThreadsInv'
    BY <1>4, Constants DEF AlsaDrain, ThreadsInv, Busy
  <2>2. CardInv'
    BY <1>4, CardSame, CardCleared DEF AlsaDrain, ThreadsInv
  <2>3. CountInv'
    BY <1>4, Constants DEF AlsaDrain, CountInv, Fed1, Busy, ThreadsInv
  <2>4. SystemInv'
    BY <1>4 DEF AlsaDrain, ThreadsInv, Busy
  <2> QED BY <2>1, <2>2, <2>3, <2>4
<1>5. ASSUME AlsaEnd PROVE Inv'
  <2>1. frail \/ asked \/ card = <<>>
    BY <1>5 DEF AlsaEnd, Drained, ThreadsInv, CardInv
  <2>2. Shared'
    BY <1>5, <2>1, EndedKeeps DEF AlsaEnd
  <2>3. SystemInv'
    BY <1>5 DEF AlsaEnd, Ended, chosen, queue, stopVars
  <2> QED BY <2>2, <2>3
<1>6. ASSUME AlsaStop PROVE Inv'
  <2>1. asked /\ CardInv'
    BY <1>6, CardSame DEF AlsaStop, ThreadsInv, chosen, playVars, queue
  <2>2. Shared'
    BY <1>6, <2>1, StoppingKeeps DEF AlsaStop
  <2>3. SystemInv'
    BY <1>6, <2>1 DEF AlsaStop, chosen, playVars, queue
  <2> QED BY <2>2, <2>3
<1>7. ASSUME AlsaUsedClosed PROVE Inv'
  BY <1>7, DiesKeeps DEF AlsaUsedClosed
<1> QED BY <1>1, <1>2, <1>3, <1>4, <1>5, <1>6, <1>7 DEF AlsaNext

-----------------------------------------------------------------------------
(* pulse                                                                   *)

LEMMA PulseKeeps == ASSUME Inv, system = "pulse", PulseNext PROVE Inv'
<1> USE DEF Inv, Shared, SystemInv, PulseInv
<1>1. ASSUME PulseTuned \/ PulseConnect PROVE Inv'
  <2>1. Shared'
    BY <1>1, BeganKeeps DEF PulseTuned, PulseConnect
  <2>2. SystemInv'
    <3>1. player' = "feed" /\ configured' /\ card = <<>> /\ tracks' = 0 /\ UNCHANGED <<system, frail, asked, card>>
      BY <1>1 DEF PulseTuned, PulseConnect, Began, ThreadsInv, chosen, stopVars
    <3>2. dev' \in [conn : BOOLEAN, dead : BOOLEAN, playing : BOOLEAN, tuned : BOOLEAN] /\ (dev'.dead => dev.dead)
      <4>1. CASE dev' = dev \/ dev' = [dev EXCEPT !.tuned = FALSE]
        BY <4>1
      <4>2. CASE dev' = [conn |-> TRUE, dead |-> FALSE, playing |-> FALSE, tuned |-> TRUE]
        BY <4>2
      <4> QED BY <1>1, <4>1, <4>2 DEF PulseTuned, PulseConnect
    <3> QED BY <3>1, <3>2
  <2> QED BY <2>1, <2>2
<1>2. ASSUME PulseClose PROVE Inv'
  <2>1. card' = card
    BY <1>2 DEF PulseClose, ThreadsInv
  <2>2. ThreadsInv'
    BY <1>2 DEF PulseClose, ThreadsInv, Busy, chosen, queue, stopVars
  <2>3. CardInv'
    BY <1>2, CardCleared DEF PulseClose, chosen
  <2>4. CountInv'
    BY <1>2, <2>1 DEF PulseClose, CountInv, Fed1, ThreadsInv, Busy, chosen, queue, stopVars
  <2>5. SystemInv'
    BY <1>2 DEF PulseClose, ThreadsInv, chosen, queue, stopVars
  <2> QED BY <2>2, <2>3, <2>4, <2>5
<1>3. ASSUME PulseWrite PROVE Inv'
  <2>1. Lesser(left, Free) \in Nat /\ Lesser(left, Free) <= left /\ Lesser(left, Free) <= Free
    <3>1. left \in Nat /\ Free \in Nat
      BY FreeType, Constants DEF ThreadsInv
    <3> QED BY <3>1, LesserType
  <2>2. player \in Busy /\ player' \in Busy
    BY <1>3 DEF PulseWrite, Busy
  <2>3. Shared'
    BY <1>3, <2>1, <2>2, TakesKeeps DEF PulseWrite
  <2>4. SystemInv'
    BY <1>3 DEF PulseWrite, ThreadsInv, Busy, chosen, queue, stopVars
  <2> QED BY <2>3, <2>4
<1>4. ASSUME PulseInterrupted PROVE Inv'
  <2>1. frail \/ asked
    BY <1>4 DEF PulseInterrupted
  <2>2. ThreadsInv'
    BY <1>4 DEF PulseInterrupted, ThreadsInv, Busy, chosen, queue, stopVars
  <2>3. CardInv'
    BY <1>4, CardCleared DEF PulseInterrupted, chosen
  <2>4. CountInv'
    BY <1>4, <2>1 DEF PulseInterrupted, CountInv, chosen, stopVars
  <2>5. SystemInv'
    BY <1>4, <2>1 DEF PulseInterrupted, ThreadsInv, chosen, queue, stopVars
  <2> QED BY <2>2, <2>3, <2>4, <2>5
<1>5. ASSUME PulseFails PROVE Inv'
  <2>1. Shared'
    BY <1>5, FedKeeps DEF PulseFails, Busy
  <2>2. SystemInv'
    BY <1>5 DEF PulseFails, Fed, ThreadsInv, chosen, stopVars
  <2> QED BY <2>1, <2>2
<1>6. ASSUME PulseDrain PROVE Inv'
  <2>1. card' = card \/ (card' = <<>> /\ (frail \/ asked))
    BY <1>6 DEF PulseDrain, Flushed
  <2>2. CASE card' = card
    <3>1. Shared'
      BY <1>6, <2>2, FedKeeps DEF PulseDrain, Busy
    <3>2. SystemInv'
      BY <1>6, <2>2, Constants DEF PulseDrain, Fed, ThreadsInv, Busy, chosen, stopVars
    <3> QED BY <3>1, <3>2
  <2>3. CASE card' = <<>> /\ (frail \/ asked)
    <3>1. ThreadsInv'
      BY <1>6, Constants DEF PulseDrain, Fed, ThreadsInv, Busy, chosen, stopVars
    <3>2. CardInv'
      BY <1>6, <2>3, CardCleared DEF PulseDrain, chosen
    <3>3. CountInv'
      BY <1>6, <2>3 DEF PulseDrain, CountInv, chosen, stopVars
    <3>4. SystemInv'
      BY <1>6, <2>3 DEF PulseDrain, Fed, ThreadsInv, Busy, chosen, stopVars
    <3> QED BY <3>1, <3>2, <3>3, <3>4
  <2> QED BY <2>1, <2>2, <2>3
<1>7. ASSUME PulseEnd PROVE Inv'
  <2>1. card' = <<>> /\ (card' = card \/ frail \/ asked)
    <3>1. configured /\ (frail \/ asked \/ tracks > 0)
      BY <1>7, Constants DEF PulseEnd, ThreadsInv, CountInv, Busy
    <3>2. CASE dev.playing
      <4>1. card = <<>>
        BY <1>7, <3>2 DEF PulseEnd, PulseDrained, CardInv
      <4> QED BY <1>7, <3>2, <4>1 DEF PulseEnd, Flushed
    <3>3. CASE ~dev.playing
      BY <1>7, <3>1, <3>3 DEF PulseEnd, Flushed
    <3> QED BY <3>2, <3>3
  <2>2. Shared'
    BY <1>7, <2>1, EndedKeeps DEF PulseEnd
  <2>3. SystemInv'
    BY <1>7, <2>1 DEF PulseEnd, Ended, ThreadsInv, chosen, queue, stopVars
  <2> QED BY <2>2, <2>3
<1>8. ASSUME PulseStop \/ PulseFlushed PROVE Inv'
  <2>1. asked /\ CardInv'
    BY <1>8, CardSame, CardCleared DEF PulseStop, PulseFlushed, ThreadsInv, chosen, playVars, queue
  <2>2. Shared'
    BY <1>8, <2>1, StoppingKeeps DEF PulseStop, PulseFlushed
  <2>3. SystemInv'
    BY <1>8, <2>1 DEF PulseStop, PulseFlushed, chosen, playVars, queue
  <2> QED BY <2>2, <2>3
<1>9. ASSUME PulseUsedClosed \/ PulseClosesUnder \/ PulseLocks PROVE Inv'
  BY <1>9, DiesKeeps DEF PulseUsedClosed, PulseClosesUnder, PulseLocks
<1>10. ASSUME PulseServerDies PROVE Inv'
  <2>1. Shared'
    BY <1>10, ClearedKeeps DEF PulseServerDies
  <2>2. SystemInv'
    BY <1>10 DEF PulseServerDies, chosen, playVars, stopVars, queue
  <2> QED BY <2>1, <2>2
<1> QED BY <1>1, <1>2, <1>3, <1>4, <1>5, <1>6, <1>7, <1>8, <1>9, <1>10 DEF PulseNext

-----------------------------------------------------------------------------
(* oss                                                                     *)

LEMMA OssKeeps == ASSUME Inv, system = "oss", OssNext PROVE Inv'
<1> USE DEF Inv, Shared, SystemInv, OssInv
<1>1. ASSUME PlainBegin \/ PlainEnd PROVE Inv'
  BY <1>1, PlainKeeps
<1>2. ASSUME OssOpen PROVE Inv'
  <2>1. CASE dev' = [dev EXCEPT !.fd = TRUE] /\ player' = "write" /\ UNCHANGED queue
    <3>1. Shared'
      BY <1>2, <2>1, BusyKeeps DEF OssOpen, Busy
    <3>2. SystemInv'
      BY <1>2, <2>1 DEF OssOpen, ThreadsInv, chosen, queue, stopVars
    <3> QED BY <3>1, <3>2
  <2>2. CASE frail /\ Fed /\ UNCHANGED dev
    <3>1. Shared'
      BY <1>2, <2>2, FedKeeps DEF OssOpen, Busy
    <3>2. SystemInv'
      BY <1>2, <2>2 DEF OssOpen, Fed, chosen, stopVars
    <3> QED BY <3>1, <3>2
  <2> QED BY <1>2, <2>1, <2>2 DEF OssOpen
<1>3. ASSUME OssWrite PROVE Inv'
  <2>1. CASE Takes(Lesser(left, Free)) /\ player' = "written"
    <3>1. Lesser(left, Free) \in Nat /\ Lesser(left, Free) <= left /\ Lesser(left, Free) <= Free
      <4>1. left \in Nat /\ Free \in Nat
        BY FreeType, Constants DEF ThreadsInv
      <4> QED BY <4>1, LesserType
    <3>2. Shared'
      BY <1>3, <2>1, <3>1, TakesKeeps DEF OssWrite, Busy
    <3>3. SystemInv'
      BY <1>3, <2>1 DEF OssWrite, chosen, queue, stopVars
    <3> QED BY <3>2, <3>3
  <2>2. CASE frail /\ player' = "close" /\ UNCHANGED <<card, left>>
    <3>1. Shared'
      BY <1>3, <2>2, BusyKeeps DEF OssWrite, Busy
    <3>2. SystemInv'
      BY <1>3, <2>2 DEF OssWrite, chosen, queue, stopVars
    <3> QED BY <3>1, <3>2
  <2> QED BY <1>3, <2>1, <2>2 DEF OssWrite
<1>4. ASSUME OssWait \/ OssTimeout \/ OssInterrupted \/ OssRest PROVE Inv'
  <2>1. Shared'
    BY <1>4, BusyKeeps DEF OssWait, OssTimeout, OssInterrupted, OssRest, Busy
  <2>2. SystemInv'
    BY <1>4 DEF OssWait, OssTimeout, OssInterrupted, OssRest, ThreadsInv, chosen, queue, stopVars
  <2> QED BY <2>1, <2>2
<1>5. ASSUME OssClose PROVE Inv'
  <2>1. Shared'
    BY <1>5, FedKeeps DEF OssClose, Busy
  <2>2. SystemInv'
    BY <1>5 DEF OssClose, Fed, chosen, stopVars
  <2> QED BY <2>1, <2>2
<1>6. ASSUME OssReset PROVE Inv'
  <2>1. asked /\ CardInv'
    BY <1>6, CardSame, CardCleared DEF OssReset, ThreadsInv, chosen, playVars, queue
  <2>2. Shared'
    BY <1>6, <2>1, StoppingKeeps DEF OssReset
  <2>3. SystemInv'
    BY <1>6, <2>1 DEF OssReset, chosen, playVars, queue
  <2> QED BY <2>2, <2>3
<1>7. ASSUME OssSignal PROVE Inv'
  <2>1. asked /\ CardInv'
    BY <1>7, CardSame DEF OssSignal, ThreadsInv, chosen, playVars, queue
  <2>2. Shared'
    BY <1>7, <2>1, StoppingKeeps DEF OssSignal
  <2>3. SystemInv'
    BY <1>7, <2>1 DEF OssSignal, chosen, playVars, queue
  <2> QED BY <2>2, <2>3
<1> QED BY <1>1, <1>2, <1>3, <1>4, <1>5, <1>6, <1>7 DEF OssNext

-----------------------------------------------------------------------------
(* libao                                                                   *)

LEMMA LibaoKeeps == ASSUME Inv, system = "libao", LibaoNext PROVE Inv'
<1> USE DEF Inv, Shared, SystemInv, LibaoInv
<1>1. ASSUME PlainBegin \/ PlainEnd PROVE Inv'
  BY <1>1, PlainKeeps
<1>2. ASSUME LibaoOpen PROVE Inv'
  <2>1. CASE dev' = [opened |-> TRUE, stop |-> FALSE] /\ player' = "write" /\ UNCHANGED queue
    <3>1. Shared'
      BY <1>2, <2>1, BusyKeeps DEF LibaoOpen, Busy
    <3>2. SystemInv'
      BY <1>2, <2>1 DEF LibaoOpen, chosen, queue, stopVars
    <3> QED BY <3>1, <3>2
  <2>2. CASE frail /\ Fed /\ UNCHANGED dev
    <3>1. Shared'
      BY <1>2, <2>2, FedKeeps DEF LibaoOpen, Busy
    <3>2. SystemInv'
      BY <1>2, <2>2 DEF LibaoOpen, Fed, chosen, stopVars
    <3> QED BY <3>1, <3>2
  <2> QED BY <1>2, <2>1, <2>2 DEF LibaoOpen
<1>3. ASSUME LibaoWrite PROVE Inv'
  <2>1. CASE Free > 0 /\ Takes(1) /\ UNCHANGED <<dev, player, queue>>
    <3>1. 1 <= left /\ 1 <= Free
      BY <1>3, <2>1, FreeType, Constants DEF LibaoWrite, ThreadsInv
    <3>2. Shared'
      BY <1>3, <2>1, <3>1, TakesKeeps DEF LibaoWrite, Busy
    <3>3. SystemInv'
      BY <1>3, <2>1 DEF LibaoWrite, chosen, queue, stopVars
    <3> QED BY <3>2, <3>3
  <2>2. CASE frail /\ dev' = [dev EXCEPT !.opened = FALSE] /\ Fed /\ UNCHANGED <<card, left>>
    <3>1. Shared'
      BY <1>3, <2>2, FedKeeps DEF LibaoWrite, Busy
    <3>2. SystemInv'
      BY <1>3, <2>2 DEF LibaoWrite, Fed, chosen, stopVars
    <3> QED BY <3>1, <3>2
  <2> QED BY <1>3, <2>1, <2>2 DEF LibaoWrite
<1>4. ASSUME LibaoDone PROVE Inv'
  <2>1. Shared'
    BY <1>4, FedKeeps DEF LibaoDone, Busy
  <2>2. SystemInv'
    BY <1>4 DEF LibaoDone, Fed, chosen, stopVars
  <2> QED BY <2>1, <2>2
<1>5. ASSUME LibaoStop PROVE Inv'
  <2>1. asked /\ CardInv'
    BY <1>5, CardSame DEF LibaoStop, ThreadsInv, chosen, playVars, queue
  <2>2. Shared'
    BY <1>5, <2>1, StoppingKeeps DEF LibaoStop
  <2>3. SystemInv'
    BY <1>5, <2>1 DEF LibaoStop, chosen, playVars, queue
  <2> QED BY <2>2, <2>3
<1> QED BY <1>1, <1>2, <1>3, <1>4, <1>5 DEF LibaoNext

-----------------------------------------------------------------------------
(* nas                                                                     *)

LEMMA NasKeeps == ASSUME Inv, system = "nas", NasNext PROVE Inv'
<1> USE DEF Inv, Shared, SystemInv, NasInv
<1>1. ASSUME PlainBegin \/ PlainEnd PROVE Inv'
  BY <1>1, PlainKeeps
<1>2. ASSUME NasPlay PROVE Inv'
  <2>1. CASE Takes(left) /\ dev' = [dev EXCEPT !.flow = TRUE] /\ player' = "wait" /\ UNCHANGED queue
    <3>1. left \in Nat /\ left <= left
      BY Constants DEF ThreadsInv
    <3>2. Shared'
      BY <1>2, <2>1, <3>1, TakesKeeps DEF NasPlay, Busy
    <3>3. left' = 0
      BY <2>1, <3>1 DEF Takes
    <3>4. SystemInv'
      BY <1>2, <2>1, <3>3 DEF NasPlay, chosen, queue, stopVars
    <3> QED BY <3>2, <3>4
  <2>2. CASE frail /\ Fed /\ UNCHANGED <<dev, card, left>>
    <3>1. Shared'
      BY <1>2, <2>2, FedKeeps DEF NasPlay, Busy
    <3>2. SystemInv'
      BY <1>2, <2>2 DEF NasPlay, Fed, chosen, stopVars
    <3> QED BY <3>1, <3>2
  <2> QED BY <1>2, <2>1, <2>2 DEF NasPlay
<1>3. ASSUME NasWait PROVE Inv'
  <2>1. Shared'
    BY <1>3, BusyKeeps DEF NasWait, Busy
  <2>2. SystemInv'
    BY <1>3 DEF NasWait, chosen, queue, stopVars
  <2> QED BY <2>1, <2>2
<1>4. ASSUME NasReturn PROVE Inv'
  <2>1. Shared'
    BY <1>4, FedKeeps DEF NasReturn, Busy
  <2>2. SystemInv'
    BY <1>4 DEF NasReturn, Fed, chosen, stopVars
  <2> QED BY <2>1, <2>2
<1>5. ASSUME NasStop PROVE Inv'
  <2>1. asked /\ card \in Seq(Nat)
    BY <1>5 DEF NasStop, ThreadsInv, CardInv
  <2>2. CardInv'
    <3> DEFINE n == Len(card) - Lesser(Samples, Len(card))
    <3>1. n \in 0 .. Len(card)
      <4>1. Len(card) \in Nat /\ Samples \in Nat
        BY <2>1, Constants
      <4>2. Lesser(Samples, Len(card)) \in 0 .. Len(card)
        BY <4>1 DEF Lesser
      <4> QED BY <4>1, <4>2
    <3>2. SubSeq(card, 1, n) \in Seq(Nat) /\ DOMAIN SubSeq(card, 1, n) \subseteq DOMAIN card
          /\ \A i \in DOMAIN SubSeq(card, 1, n) : SubSeq(card, 1, n)[i] = card[i]
      <4> HIDE DEF n
      <4> QED BY <2>1, <3>1
    <3> HIDE DEF n
    <3>3. card' \in {card, SubSeq(card, 1, n)} /\ UNCHANGED <<system, message>>
      BY <1>5 DEF NasStop, n, chosen, playVars, queue
    <3> QED BY <2>1, <3>2, <3>3 DEF CardInv
  <2>3. Shared'
    BY <1>5, <2>1, <2>2, StoppingKeeps DEF NasStop
  <2>4. SystemInv'
    BY <1>5, <2>1 DEF NasStop, chosen, playVars, queue
  <2> QED BY <2>3, <2>4
<1>6. ASSUME NasSignal PROVE Inv'
  <2>1. asked /\ CardInv'
    BY <1>6, CardSame DEF NasSignal, ThreadsInv, chosen, playVars, queue
  <2>2. Shared'
    BY <1>6, <2>1, StoppingKeeps DEF NasSignal
  <2>3. SystemInv'
    BY <1>6, <2>1 DEF NasSignal, chosen, playVars, queue
  <2> QED BY <2>2, <2>3
<1> QED BY <1>1, <1>2, <1>3, <1>4, <1>5, <1>6 DEF NasNext

-----------------------------------------------------------------------------
(* The theorems.  Of pipewire they say nothing (see README), and the       *)
(* system that was opened does not change.                                 *)
PlayInv == system # "pipewire" => Inv

LEMMA InitHolds == Init => PlayInv
<1> SUFFICES ASSUME Init, system # "pipewire"
             PROVE  Inv
  BY DEF PlayInv
<1>0. system \in {"alsa", "pulse", "oss", "libao", "nas"}
  BY AudioAssumption DEF Init, PlayerInit
<1>1. ThreadsInv
  <2>1. tracks = 0 /\ left = 0 /\ heard = 0 /\ message = 0 /\ configured = FALSE /\ asked = FALSE
    BY DEF Init, PlayerInit
  <2>2. tracks \in 0 .. Tracks /\ left \in 0 .. Samples
    BY <2>1, Constants
  <2>3. player = "sleep" /\ stopper = "idle" /\ told = "none" /\ frail \in BOOLEAN
    BY DEF Init, PlayerInit
  <2> QED BY <2>1, <2>2, <2>3 DEF ThreadsInv, Busy
<1>2. CardInv
  BY Constants DEF Init, PlayerInit, CardInv
<1>3. CountInv
  BY DEF Init, PlayerInit, CountInv, Fed1, ThreadsInv
<1>4. SystemInv
  BY <1>0 DEF Init, PlayerInit, SystemInv, AlsaInv, PulseInv, OssInv, LibaoInv, NasInv, AlsaInit, PulseInit,
         OssInit, LibaoInit, NasInit
<1> QED BY <1>1, <1>2, <1>3, <1>4 DEF Inv

LEMMA SystemStays == ASSUME [Next]_vars PROVE system' = system
BY DEF Next, Wake, Pop, Ask, Again, Tell, Plays, DeviceNext, vars, chosen, PlainBegin, PlainEnd, Dies,
   AlsaNext, AlsaBegin, AlsaWrite, AlsaPoll, AlsaDrain, AlsaEnd, AlsaUsedClosed, AlsaStop,
   PulseNext, PulseTuned, PulseClose, PulseClosesUnder, PulseConnect, PulseWrite, PulseInterrupted,
   PulseFails, PulseLocks, PulseDrain, PulseEnd, PulseStop, PulseFlushed, PulseUsedClosed, PulseServerDies,
   PipewireNext, PwBegin, PwEnd, PwFeed, PwStopped, PwRoom, PwOverrun, PwCopy, PwRest, PwWoken, PwTakes,
   PwUpdates, PwFollows, PwHalt, PwPause, PwReset,
   OssNext, OssOpen, OssWrite, OssWait, OssTimeout, OssInterrupted, OssRest, OssClose, OssReset, OssSignal,
   LibaoNext, LibaoOpen, LibaoWrite, LibaoDone, LibaoStop,
   NasNext, NasPlay, NasWait, NasReturn, NasStop, NasSignal

LEMMA StepHolds == PlayInv /\ [Next]_vars => PlayInv'
<1> SUFFICES ASSUME PlayInv, [Next]_vars, system' # "pipewire"
             PROVE  Inv'
  BY DEF PlayInv
<1>1. system' = system /\ Inv
  BY SystemStays DEF PlayInv
<1>2. CASE Wake \/ Pop \/ Ask \/ Again \/ Tell \/ Plays
  BY <1>1, <1>2, WakeKeeps, PopKeeps, StopperKeeps, PlaysKeeps
<1>3. CASE DeviceNext
  BY <1>1, <1>3, AlsaKeeps, PulseKeeps, OssKeeps, LibaoKeeps, NasKeeps
     DEF DeviceNext, AlsaNext, PulseNext, PipewireNext, OssNext, LibaoNext, NasNext
<1>4. CASE UNCHANGED vars
  BY <1>1, <1>4 DEF vars, chosen, queue, playVars, stopVars, Inv, ThreadsInv, CardInv, CountInv,
     SystemInv, AlsaInv, PulseInv, OssInv, LibaoInv, NasInv, Fed1, Count, Places
<1> QED BY <1>2, <1>3, <1>4 DEF Next

LEMMA PlayInvHolds == Spec => []PlayInv
<1> QED BY InitHolds, StepHolds, PTL DEF Spec

(* Whoever was told that speech has stopped hears no more of it: what an   *)
(* alsa, pulse or oss device was given is taken back by the time the       *)
(* playback thread sleeps, whatever the stop interrupted.                  *)
THEOREM SilenceCorrect == Spec => []Silence
<1>1. PlayInv => Silence
  BY DEF PlayInv, Silence, Inv, ThreadsInv, SystemInv, AlsaInv, PulseInv, OssInv
<1> QED BY <1>1, PlayInvHolds, PTL

(* A message reported as spoken to its end is heard whole, on every system *)
(* but pipewire: no stop of an earlier message cuts it, no sample is lost  *)
(* between two tracks.                                                     *)
THEOREM WholeCorrect == Spec => []Whole
<1>1. PlayInv => Whole
  <2> SUFFICES ASSUME PlayInv, told = "end", ~frail, system # "pipewire"
               PROVE  heard + StillPlaying = Tracks * Samples
    BY DEF Whole
  <2>1. ~asked /\ player = "sleep" /\ ~configured
    BY DEF PlayInv, Inv, ThreadsInv
  <2>2. heard + Count(card, message) = Tracks * Samples
    BY <2>1 DEF PlayInv, Inv, CountInv
  <2>3. StillPlaying = Count(card, message)
    <3>1. CASE system \in {"libao", "nas"}
      BY <3>1 DEF StillPlaying, Count, Places
    <3>2. CASE system \notin {"libao", "nas"}
      <4>1. card = <<>>
        BY <2>1, <3>2 DEF PlayInv, Inv, SystemInv, AlsaInv, PulseInv, OssInv
      <4>2. Count(card, message) = 0
        BY <4>1, CountNone
      <4> QED BY <3>2, <4>2 DEF StillPlaying
    <3> QED BY <3>1, <3>2
  <2> QED BY <2>2, <2>3
<1> QED BY <1>1, PlayInvHolds, PTL
=============================================================================
