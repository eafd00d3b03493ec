--------------------------- MODULE PlaybackProofs ---------------------------
(***************************************************************************)
(* Proofs about the playback of messages on the server's side, for any     *)
(* number of messages, requests and modules, any script and any size of    *)
(* the queue: every event is about the message that was sent, nothing of a *)
(* message is heard after its end, and Playback implements PlaybackSession. *)
(***************************************************************************)
EXTENDS Playback, TLAPS, FiniteSetTheorems, SequenceTheorems

Entry  == [type : EntryType, utt : Nat]
Event  == [type : EventType, utt : Nat]
PlayAt == {"top", "sleep", "pop", "got", "tell", "append", "told", "gone"}
SopAt  == {"top", "sleep", "awake", "poll", "clear", "reset", "tellStop", "tellPause",
           "appendStop", "appendPause", "gone"}
Asks   == {"stop", "pause"}
Op     == ItemTypes \cup Asks \cup
          {"beforePlay", "pauseAtMark", "END", "endQueued", "broken"}
List     == Seq(Op) \cup {<<"appendBroken">>}
Reported == {"BEGIN", "MARK", "SD_MARK", "END"}

(* One token for every byte in a pipe_speak. *)
Tokens == {t \in Modules \X Nat : 1 <= t[2] /\ t[2] <= bytes[t[1]]}

QueueTypes ==
  /\ queue \in Seq(Entry)
  /\ play \in [at : PlayAt, entry : Entry \cup {NoEntry}]
  /\ play.at \in {"got", "tell", "append", "told"} => play.entry \in Entry
  /\ play.at \in {"tell", "append"} => play.entry.type \in Reported

ReaderTypes ==
  /\ reader \in [at : {"read", "act", "stopping", "done"}, todo : List, last : BOOLEAN]
  /\ synth \in [told : SUBSET Asks, begun : BOOLEAN, sent : Nat]

EventTypes ==
  /\ events \in Seq(Event) /\ handled \in [type : EventType \cup {"none"}, utt : Nat]
  /\ bytes \in [Modules -> Nat]
  /\ IsFiniteSet(Tokens) /\ Cardinality(Tokens) = Len(events)

TargetTypes ==
  /\ target \in [Thread -> Modules \cup {NoModule}]
  /\ play.at = "append" => target["play"] # NoModule
  /\ sop \in {"appendStop", "appendPause"} => target["sop"] # NoModule
  /\ reader.todo = <<"appendBroken">> => target["reader"] # NoModule

PlainTypes ==
  /\ state \in {"IDLE", "BEFORE_SYNTH", "BEFORE_PLAY", "SPEAKING"}
  /\ pauseState \in {"OFF", "REQUESTED", "MARK_REPORTED"}
  /\ sop \in SopAt
  /\ speakingModule \in Modules \cup {NoModule}
  /\ speaker \in {"idle", "sending", "listen", "join", "gone"}
  /\ speaker \in {"sending", "listen", "join"} => speakingModule # NoModule
  /\ asked \subseteq Asks /\ utt \in Nat /\ stopFor \in Nat
  /\ {stopRequested, stopAsked, pauseAsked, pauseQueued, endQueued, heard,
      crossed, spoilt} \subseteq BOOLEAN

Typed == QueueTypes /\ ReaderTypes /\ EventTypes /\ TargetTypes /\ PlainTypes

-----------------------------------------------------------------------------
(* Which steps change what.                                                *)

readerSteps == ReadEvent \/ ActQueue \/ ActAudio \/ ActStop \/ ActStopReturns
               \/ ActEndQueued \/ ActPauseAtMark \/ ActBroken

ActBegins == Doing({"beforePlay"}) /\ BeforePlay(utt) /\ OpDone
ActPushes == Doing({"MARK", "SD_MARK", "SOUND_ICON", "END"})
             /\ Push(Head(reader.todo), utt) /\ OpDone
ActAdds   == Doing({"AUDIO"}) /\ AddAudio(utt) /\ OpDone

LEMMA ReaderQueueSteps ==
  ASSUME ActQueue \/ ActAudio
  PROVE  \/ ActBegins \/ ActPushes \/ ActAdds
         \/ UNCHANGED <<queue, play, reader>>
         \/ (UNCHANGED <<queue, play>> /\ OpDone /\ (Doing({"pause"}) \/ Doing({"stop"})))
PROOF
  BY DEF ActQueue, ActAudio, ActBegins, ActPushes, ActAdds, Pause, WaitForRoom, queueVars

LEMMA QueueSteps ==
  ASSUME [Next]_vars
  PROVE  \/ UNCHANGED <<queue, play>>
         \/ PlayTop \/ PlayWakes \/ PlayPopStopped \/ PlayPop \/ PlaySound \/ PlayBegin
         \/ PlayPauses \/ PlayPassesMark \/ PlayEnd
         \/ PlayDrops \/ PlayLooks \/ PlayAppends \/ SopClears
         \/ ActBegins \/ ActPushes \/ ActAdds
PROOF
<1>1. ASSUME PlaySteps
      PROVE  \/ UNCHANGED <<queue, play>>
             \/ PlayTop \/ PlayWakes \/ PlayPopStopped \/ PlayPop \/ PlaySound \/ PlayBegin
             \/ PlayPauses \/ PlayPassesMark \/ PlayEnd
             \/ PlayDrops \/ PlayLooks \/ PlayAppends
  BY <1>1 DEF PlaySteps, PlayWorks, PlayThread, PlayPopWaits
<1>2. ASSUME SopSteps PROVE UNCHANGED <<queue, play>> \/ SopClears
  BY <1>2 DEF SopSteps, SopWorks, SopThread, SopTop, SopWakes, SopIdles, SopSees, SopResets,
              SopDrops, SopLooks, SopAppends, SopTold
<1>3. ASSUME SpeakerSteps \/ ControlSteps \/ Requests \/ Quit \/ \E m \in Modules : SpeakBegins(m)
      PROVE  UNCHANGED <<queue, play>>
  BY <1>3 DEF SpeakerSteps, SpeakSent, SpeakRefused, TakeEvent, Joined, BeforeSynth,
              ControlSteps, StopReturns, OutputStopFlushes, OutputTells, QuitDone, Flush,
              Requests, OutputStop, OutputStopDirectly, OutputPause, OutputPauseDirectly,
              StopAndWait, Pause, Quit, Terminate, SpeakBegins, queueVars
<1>4. ASSUME OutputThread
      PROVE  UNCHANGED <<queue, play>> \/ ActBegins \/ ActPushes \/ ActAdds
  <2>1. CASE ActQueue \/ ActAudio
    BY <2>1, ReaderQueueSteps
  <2>2. CASE ReadEvent \/ ActStop \/ ActStopReturns \/ ActEndQueued \/ ActPauseAtMark \/ ActBroken
    BY <2>2 DEF ReadEvent, ActStop, ActStopReturns, ActEndQueued, ActPauseAtMark, ActBroken,
                StopAndWait, Pause, queueVars
  <2> QED BY <1>4, <2>1, <2>2 DEF OutputThread
<1>5. CASE UNCHANGED vars
  BY <1>5 DEF vars, queueVars
<1> QED BY <1>1, <1>2, <1>3, <1>4, <1>5 DEF Next

(* Appending to and taking from a queue, element by element.               *)
LEMMA SeqAppend ==
  ASSUME NEW S, NEW s \in Seq(S), NEW x \in S
  PROVE  /\ Append(s, x) \in Seq(S) /\ Len(Append(s, x)) = Len(s) + 1
         /\ DOMAIN Append(s, x) = DOMAIN s \cup {Len(s) + 1}
         /\ \A i \in DOMAIN s : Append(s, x)[i] = s[i]
         /\ Append(s, x)[Len(s) + 1] = x
         /\ Append(s, x) # <<>>
PROOF
  OBVIOUS

LEMMA SeqTail ==
  ASSUME NEW S, NEW s \in Seq(S), s # <<>>
  PROVE  /\ Tail(s) \in Seq(S) /\ Len(Tail(s)) = Len(s) - 1 /\ Len(s) \in Nat \ {0}
         /\ DOMAIN Tail(s) = 1 .. Len(s) - 1 /\ DOMAIN s = 1 .. Len(s)
         /\ \A i \in DOMAIN Tail(s) : Tail(s)[i] = s[i + 1] /\ i + 1 \in DOMAIN s
         /\ Head(s) = s[1] /\ Head(s) \in S /\ 1 \in DOMAIN s
PROOF
  OBVIOUS

LEMMA SeqShort ==
  ASSUME NEW a, NEW b
  PROVE  /\ Head(<<a>>) = a /\ Tail(<<a>>) = <<>> /\ <<a>> # <<>>
         /\ Head(<<a, b>>) = a /\ Tail(<<a, b>>) = <<b>> /\ <<a, b>> # <<>>
         /\ <<>> \o <<a>> = <<a>> /\ <<a>> \o <<b>> = <<a, b>>
PROOF
<1>1. Head(<<a>>) = a /\ <<a>> # <<>> /\ Head(<<a, b>>) = a /\ <<a, b>> # <<>>
  OBVIOUS
<1>2. Tail(<<a>>) = <<>>
  OBVIOUS
<1>3. Tail(<<a, b>>) = <<b>>
  OBVIOUS
<1>4. <<>> \o <<a>> = <<a>>
  OBVIOUS
<1>5. <<a>> \o <<b>> = <<a, b>>
  <2>1. <<a>> \in Seq({a, b}) /\ <<b>> \in Seq({a, b}) /\ <<a, b>> \in Seq({a, b})
    OBVIOUS
  <2>2. /\ Len(<<a>> \o <<b>>) = 2 /\ (<<a>> \o <<b>>)[1] = a /\ (<<a>> \o <<b>>)[2] = b
        /\ <<a>> \o <<b>> \in Seq({a, b})
    BY <2>1, ConcatProperties
  <2>3. Len(<<a, b>>) = 2 /\ <<a, b>>[1] = a /\ <<a, b>>[2] = b
    OBVIOUS
  <2>4. \A i \in 1 .. 2 : (<<a>> \o <<b>>)[i] = <<a, b>>[i]
    <3>1. \A i \in 1 .. 2 : i = 1 \/ i = 2
      OBVIOUS
    <3> QED BY <2>2, <2>3, <3>1
  <2>5. \A s, t \in Seq({a, b}) :
           Len(s) = 2 /\ Len(t) = 2 /\ (\A i \in 1 .. 2 : s[i] = t[i]) => s = t
    BY SeqEqual
  <2> QED BY <2>1, <2>2, <2>3, <2>4, <2>5
<1> QED BY <1>1, <1>2, <1>3, <1>4, <1>5

LEMMA QueueTypesKept ==
  ASSUME Typed, [Next]_vars
  PROVE  QueueTypes'
PROOF
<1> USE DEF QueueTypes, PlayAt
<1>0. /\ queue \in Seq(Entry) /\ play \in [at : PlayAt, entry : Entry \cup {NoEntry}]
      /\ play.at \in PlayAt /\ play.entry \in Entry \cup {NoEntry}
      /\ utt \in Nat
  BY DEF Typed, PlainTypes
<1>1. CASE UNCHANGED <<queue, play>>
  BY <1>1 DEF Typed
<1>2. CASE PlayTop
  BY <1>0, <1>2 DEF PlayTop
<1>3. CASE PlayWakes \/ PlayPopStopped
  BY <1>0, <1>3 DEF PlayWakes, PlayPopStopped, PlayGoes, Typed
<1>4. CASE PlayPop
  <2>1. Tail(queue) \in Seq(Entry) /\ Head(queue) \in Entry
    BY <1>0, <1>4, SeqTail DEF PlayPop
  <2> QED BY <1>4, <2>1 DEF PlayPop, Reported
<1>5. CASE PlaySound \/ PlayPassesMark \/ PlayPauses
  <2>1. queue' = queue /\ (PlayGoes("pop") \/ PlayGoes("top"))
    BY <1>5 DEF PlaySound, PlayPassesMark, PlayPauses
  <2> QED BY <1>0, <2>1 DEF PlayGoes, Typed
<1>6. CASE PlayBegin \/ PlayEnd
  BY <1>0, <1>6 DEF PlayBegin, PlayEnd, PlayGoes, Got, Reported, Typed
<1>7. CASE PlayDrops \/ PlayAppends
  BY <1>0, <1>7 DEF PlayDrops, PlayAppends, PlayTold, PlayGoes, Typed
<1>8. CASE PlayLooks
  BY <1>0, <1>8 DEF PlayLooks, PlayGoes, Typed
<1>9. CASE SopClears
  BY <1>0, <1>9 DEF SopClears, Typed
<1>10. CASE ActBegins
  <2>1. [type |-> "BEGIN", utt |-> utt] \in Entry
    BY <1>0 DEF Entry, EntryType
  <2>2. play' = play /\ (queue' = queue \/ queue' = Append(queue, [type |-> "BEGIN", utt |-> utt]))
    BY <1>10 DEF ActBegins, BeforePlay, queueVars
  <2>3. queue' \in Seq(Entry)
    BY <1>0, <2>1, <2>2, SeqAppend
  <2> QED BY <2>2, <2>3 DEF Typed
<1>11. CASE ActPushes \/ ActAdds
  <2>1. \/ UNCHANGED <<queue, play>>
        \/ \E type \in EntryType : /\ queue' = Append(queue, [type |-> type, utt |-> utt])
                                   /\ play' = play
    BY <1>11 DEF ActPushes, ActAdds, AddAudio, Push, Doing, EntryType, queueVars
  <2>2. ASSUME NEW type \in EntryType, queue' = Append(queue, [type |-> type, utt |-> utt])
        PROVE  queue' \in Seq(Entry)
    <3>1. [type |-> type, utt |-> utt] \in Entry
      BY <1>0 DEF Entry
    <3> QED BY <1>0, <2>2, <3>1, SeqAppend
  <2> QED BY <2>1, <2>2, <1>0 DEF Typed
<1> QED BY <1>1, <1>2, <1>3, <1>4, <1>5, <1>6, <1>7, <1>8, <1>9, <1>10, <1>11, QueueSteps

-----------------------------------------------------------------------------
(* The output thread's list and what the module has sent.                  *)

LEMMA ReaderSteps ==
  ASSUME [Next]_vars
  PROVE  \/ UNCHANGED <<reader, synth>>
         \/ reader' = [at |-> "read", todo |-> <<>>, last |-> FALSE] /\ SpeakSent
         \/ OutputTells /\ reader' = reader
         \/ ReadEvent
         \/ OpDone /\ synth' = synth /\ reader.at = "act" /\ reader.todo # <<>>
         \/ ActStop \/ ActStopReturns \/ ActBroken
PROOF
<1>1. ASSUME PlaySteps \/ SopSteps PROVE UNCHANGED <<reader, synth>>
  BY <1>1 DEF PlaySteps, PlayWorks, PlayDrops, PlayLooks, PlayAppends, SopSteps, SopWorks,
              SopDrops, SopLooks, SopAppends, outVars, threads
<1>2. ASSUME SpeakerSteps
      PROVE  \/ UNCHANGED <<reader, synth>>
             \/ reader' = [at |-> "read", todo |-> <<>>, last |-> FALSE] /\ SpeakSent
  BY <1>2 DEF SpeakerSteps, SpeakSent, SpeakRefused, TakeEvent, Joined
<1>3. ASSUME ControlSteps
      PROVE  \/ UNCHANGED <<reader, synth>>
             \/ OutputTells /\ reader' = reader
  BY <1>3 DEF ControlSteps, StopReturns, OutputStopFlushes, OutputTells, QuitDone, controlElse
<1>4. ASSUME Requests \/ Quit \/ \E m \in Modules : SpeakBegins(m)
      PROVE  UNCHANGED <<reader, synth>>
  BY <1>4 DEF Requests, OutputStop, OutputStopDirectly, OutputPause, OutputPauseDirectly,
              Quit, SpeakBegins, controlElse
<1>5. ASSUME OutputThread
      PROVE  \/ UNCHANGED <<reader, synth>>
             \/ ReadEvent
             \/ OpDone /\ synth' = synth /\ reader.at = "act" /\ reader.todo # <<>>
             \/ ActStop \/ ActStopReturns \/ ActBroken
  BY <1>5 DEF OutputThread, ActQueue, ActAudio, ActEndQueued, ActPauseAtMark,
              Doing, readerElse, readerOthers
<1>6. CASE UNCHANGED vars
  BY <1>6 DEF vars, outVars, threads
<1> QED BY <1>1, <1>2, <1>3, <1>4, <1>5, <1>6 DEF Next

LEMMA ToDoShape ==
  ASSUME NEW e, e \in ItemTypes \cup LastEvents \cup {"701"}
  PROVE  /\ e = "701" => ToDo(e) = <<"beforePlay">>
         /\ e = "702" => ToDo(e) = IF stopAsked THEN <<"stop">>
                                   ELSE IF ~pauseAsked THEN <<"END", "endQueued">>
                                   ELSE IF pauseQueued THEN <<"END">> ELSE <<"pause", "END">>
         /\ e = "703" => ToDo(e) = IF pauseQueued THEN <<>> ELSE <<"stop">>
         /\ e = "704" => ToDo(e) = IF pauseQueued THEN <<"END">> ELSE <<"pause", "END">>
         /\ e \in ItemTypes => ToDo(e) = IF Discards THEN <<>>
                                         ELSE IF e = "SD_MARK" THEN <<e, "pauseAtMark">>
                                         ELSE <<e>>
         /\ e = "broken" => ToDo(e) = <<"broken">>
PROOF
<1>1. /\ IfNotPaused("stop") = IF pauseQueued THEN <<>> ELSE <<"stop">>
      /\ IfNotPaused("pause") \o <<"END">> = IF pauseQueued THEN <<"END">> ELSE <<"pause", "END">>
  BY SeqShort DEF IfNotPaused
<1>2. e = "701" => ToDo(e) = <<"beforePlay">>
  BY DEF ToDo, ItemTypes
<1>3. e = "702" => ToDo(e) = IF stopAsked THEN <<"stop">>
                             ELSE IF ~pauseAsked THEN <<"END", "endQueued">>
                             ELSE IF pauseQueued THEN <<"END">> ELSE <<"pause", "END">>
  BY <1>1 DEF ToDo, ItemTypes
<1>4. e = "703" => ToDo(e) = IF pauseQueued THEN <<>> ELSE <<"stop">>
  BY <1>1 DEF ToDo, ItemTypes
<1>5. e = "704" => ToDo(e) = IF pauseQueued THEN <<"END">> ELSE <<"pause", "END">>
  BY <1>1 DEF ToDo, ItemTypes
<1>6. e \in ItemTypes => ToDo(e) = IF Discards THEN <<>>
                                   ELSE IF e = "SD_MARK" THEN <<e, "pauseAtMark">>
                                   ELSE <<e>>
  BY DEF ToDo, ItemTypes
<1>7. e = "broken" => ToDo(e) = <<"broken">>
  BY DEF ToDo, ItemTypes
<1> QED BY <1>2, <1>3, <1>4, <1>5, <1>6, <1>7

LEMMA AnswersTyped ==
  ASSUME NEW e, e \in Answers, ReaderTypes
  PROVE  e \in ItemTypes \cup LastEvents \cup {"701"}
PROOF
<1>1. synth.begun /\ synth.sent < Len(Script) => Script[synth.sent + 1] \in ItemTypes
  BY PlaybackAssumption DEF ReaderTypes
<1> QED BY <1>1 DEF Answers, LastEvents

LEMMA OpSeqs ==
  ASSUME NEW a \in Op, NEW b \in Op
  PROVE  <<>> \in Seq(Op) /\ <<a>> \in Seq(Op) /\ <<a, b>> \in Seq(Op)
PROOF
  OBVIOUS

LEMMA ToDoTyped ==
  ASSUME NEW e, e \in Answers, ReaderTypes
  PROVE  ToDo(e) \in Seq(Op)
PROOF
<1>1. e \in ItemTypes \cup LastEvents \cup {"701"}
  BY AnswersTyped
<1>2. /\ e \in ItemTypes => e \in Op
      /\ {"beforePlay", "pauseAtMark", "stop", "pause", "END", "endQueued", "broken"} \subseteq Op
  BY DEF Op, Asks
<1>3. CASE e = "701"
  BY <1>1, <1>2, <1>3, ToDoShape, OpSeqs
<1>4. CASE e = "702"
  BY <1>1, <1>2, <1>4, ToDoShape, OpSeqs
<1>5. CASE e \in {"703", "704", "broken"}
  BY <1>1, <1>2, <1>5, ToDoShape, OpSeqs
<1>6. CASE e \in ItemTypes
  BY <1>1, <1>2, <1>6, ToDoShape, OpSeqs
<1> QED BY <1>1, <1>3, <1>4, <1>5, <1>6 DEF LastEvents

LEMMA ReaderTyped ==
  ASSUME NEW todo \in Seq(Op), NEW last \in BOOLEAN
  PROVE  Reader(todo, last) \in [at : {"read", "act", "stopping", "done"}, todo : List,
                                 last : BOOLEAN]
PROOF
  BY DEF Reader, List

(* What is left of the list when its first operation was done.             *)
LEMMA Rest ==
  ASSUME reader.todo \in List, reader.todo # <<>>
  PROVE  /\ Tail(reader.todo) \in Seq(Op) /\ Head(reader.todo) \in Op \cup {"appendBroken"}
         /\ Head(reader.todo) = "appendBroken" => reader.todo = <<"appendBroken">>
PROOF
<1>1. "appendBroken" \notin Op
  BY DEF Op, ItemTypes, Asks
<1>2. CASE reader.todo \in Seq(Op)
  BY <1>1, <1>2, SeqTail
<1>3. CASE reader.todo = <<"appendBroken">>
  BY <1>3, SeqShort
<1> QED BY <1>2, <1>3 DEF List

LEMMA ReaderTypesKept ==
  ASSUME Typed, [Next]_vars
  PROVE  ReaderTypes'
PROOF
<1>0. /\ reader \in [at : {"read", "act", "stopping", "done"}, todo : List, last : BOOLEAN]
      /\ synth \in [told : SUBSET Asks, begun : BOOLEAN, sent : Nat]
      /\ reader.todo \in List /\ reader.last \in BOOLEAN
  BY DEF Typed, ReaderTypes
<1>1. CASE UNCHANGED <<reader, synth>>
  BY <1>0, <1>1 DEF ReaderTypes
<1>2. CASE reader' = [at |-> "read", todo |-> <<>>, last |-> FALSE] /\ SpeakSent
  BY <1>2 DEF ReaderTypes, List, Silent, SpeakSent
<1>3. CASE OutputTells /\ reader' = reader
  BY <1>0, <1>3 DEF ReaderTypes, OutputTells, Asks
<1>4. CASE ReadEvent
  <2>1. PICK e \in Answers :
          /\ reader' = Reader(ToDo(e), e \in LastEvents)
          /\ synth' = [synth EXCEPT !.begun = @ \/ e = "701",
                                    !.sent = IF e \in ItemTypes THEN @ + 1 ELSE @]
    BY <1>4 DEF ReadEvent
  <2>2. ToDo(e) \in Seq(Op)
    BY ToDoTyped DEF Typed
  <2>3. reader' \in [at : {"read", "act", "stopping", "done"}, todo : List, last : BOOLEAN]
    <3>1. (e \in LastEvents) \in BOOLEAN
      OBVIOUS
    <3> QED BY <2>1, <2>2, <3>1, ReaderTyped
  <2>4. synth' \in [told : SUBSET Asks, begun : BOOLEAN, sent : Nat]
    <3>1. (synth.begun \/ e = "701") \in BOOLEAN /\ synth.sent \in Nat
      BY <1>0
    <3>2. (IF e \in ItemTypes THEN synth.sent + 1 ELSE synth.sent) \in Nat
      BY <3>1
    <3> QED BY <1>0, <2>1, <3>1, <3>2
  <2> QED BY <2>3, <2>4 DEF ReaderTypes
<1>5. CASE OpDone /\ synth' = synth /\ reader.at = "act" /\ reader.todo # <<>>
  BY <1>0, <1>5, Rest, ReaderTyped DEF OpDone, ReaderTypes
<1>6. CASE ActStop
  <2>1. Tail(reader.todo) \in Seq(Op)
    BY <1>0, <1>6, Rest DEF ActStop, Doing
  <2> QED BY <1>0, <1>6, <2>1 DEF ActStop, ReaderTypes, List, readerElse, readerOthers
<1>7. CASE ActStopReturns
  <2>1. reader' \in [at : {"read", "act", "stopping", "done"}, todo : List, last : BOOLEAN]
    BY <1>0, <1>7 DEF ActStopReturns, Reader
  <2> QED BY <1>0, <1>7, <2>1 DEF ActStopReturns, ReaderTypes, readerElse, readerOthers
<1>8. CASE ActBroken
  <2>1. Doing({"broken"}) \/ Doing({"appendBroken"})
    BY <1>8 DEF ActBroken
  <2>2. reader.todo # <<>> /\ synth' = synth
    BY <1>8, <2>1 DEF Doing, ActBroken, readerElse, readerOthers
  <2>3. <<"appendBroken">> \in List
    BY DEF List
  <2>4. OpDone \/ reader' = [reader EXCEPT !.todo = <<"appendBroken">>]
    BY <1>8 DEF ActBroken
  <2>5. reader.at = "act"
    BY <1>8 DEF ActBroken, Doing
  <2> QED BY <1>0, <1>5, <2>2, <2>3, <2>4, <2>5 DEF ReaderTypes
<1> QED BY <1>1, <1>2, <1>3, <1>4, <1>5, <1>6, <1>7, <1>8, ReaderSteps

-----------------------------------------------------------------------------
(* The events, and the bytes that announce them.                           *)

Sends(t, m) ==
  /\ target[t] = m /\ m # NoModule
  /\ bytes' = [bytes EXCEPT ![m] = @ + 1]
  /\ \E type \in EventType, u \in Nat : events' = Append(events, [type |-> type, utt |-> u])

LEMMA EventSteps ==
  ASSUME Typed, [Next]_vars
  PROVE  \/ UNCHANGED <<events, handled, bytes>>
         \/ UNCHANGED <<events, bytes>> /\ handled' = NoEvent
         \/ TakeEvent
         \/ handled' = handled /\ \E t \in Thread : Sends(t, target[t])
PROOF
<1>1. ASSUME PlaySteps
      PROVE  \/ UNCHANGED <<events, handled, bytes>>
             \/ handled' = handled /\ \E t \in Thread : Sends(t, target[t])
  <2>1. CASE PlayAppends
    <3>1. /\ play.at = "append" /\ handled' = handled
          /\ bytes' = [bytes EXCEPT ![target["play"]] = @ + 1]
          /\ events' = Append(events, [type |-> ReportName[play.entry.type], utt |-> play.entry.utt])
      BY <2>1 DEF PlayAppends, Appends, PlayTold, history
    <3>2. play.entry.type \in Reported /\ play.entry.utt \in Nat /\ target["play"] # NoModule
      BY <3>1 DEF Typed, QueueTypes, TargetTypes, Entry
    <3>3. ReportName[play.entry.type] \in EventType
      BY <3>2 DEF ReportName, EventType, Reported
    <3> QED BY <3>1, <3>2, <3>3 DEF Sends, Thread
  <2>2. CASE PlayWorks \/ PlayDrops \/ PlayLooks
    BY <2>2 DEF PlayWorks, PlayDrops, PlayLooks, Looks, outVars, eventQ, history
  <2> QED BY <1>1, <2>1, <2>2 DEF PlaySteps
<1>2. ASSUME SopSteps
      PROVE  \/ UNCHANGED <<events, handled, bytes>>
             \/ handled' = handled /\ \E t \in Thread : Sends(t, target[t])
  <2>1. CASE SopAppends
    <3>1. /\ sop \in {"appendStop", "appendPause"} /\ handled' = handled
          /\ bytes' = [bytes EXCEPT ![target["sop"]] = @ + 1]
          /\ events' = Append(events, [type |-> IF sop = "appendStop" THEN "stop" ELSE "pause",
                                       utt |-> stopFor])
      BY <2>1 DEF SopAppends, Appends, SopTold, history
    <3>2. stopFor \in Nat /\ target["sop"] # NoModule
      BY <3>1 DEF Typed, PlainTypes, TargetTypes
    <3> QED BY <3>1, <3>2 DEF Sends, Thread, EventType
  <2>2. CASE SopWorks \/ SopDrops \/ SopLooks
    BY <2>2 DEF SopWorks, SopDrops, SopLooks, Looks, outVars, eventQ, history
  <2> QED BY <1>2, <2>1, <2>2 DEF SopSteps
<1>3. ASSUME SpeakerSteps
      PROVE  \/ UNCHANGED <<events, handled, bytes>>
             \/ UNCHANGED <<events, bytes>> /\ handled' = NoEvent
             \/ TakeEvent
  BY <1>3 DEF SpeakerSteps, SpeakSent, SpeakRefused, Joined, eventQ, history
<1>4. ASSUME ControlSteps \/ Requests \/ Quit \/ \E m \in Modules : SpeakBegins(m)
      PROVE  UNCHANGED <<events, handled, bytes>>
  BY <1>4 DEF ControlSteps, StopReturns, OutputStopFlushes, OutputTells, QuitDone,
              Requests, OutputStop, OutputStopDirectly, OutputPause, OutputPauseDirectly,
              Quit, SpeakBegins, controlElse, eventQ, history
<1>5. ASSUME OutputThread
      PROVE  \/ UNCHANGED <<events, handled, bytes>>
             \/ handled' = handled /\ \E t \in Thread : Sends(t, target[t])
  <2>1. CASE Doing({"appendBroken"}) /\ Appends("reader", "broken", utt) /\ ActBroken
    <3>1. target["reader"] # NoModule
      BY <2>1, Rest DEF Doing, Typed, ReaderTypes, TargetTypes
    <3>2. handled' = handled /\ utt \in Nat
      BY <2>1 DEF ActBroken, readerElse, readerOthers, Typed, PlainTypes
    <3> QED BY <2>1, <3>1, <3>2 DEF Appends, Sends, Thread, EventType
  <2>2. CASE ActBroken /\ ~(Doing({"appendBroken"}) /\ Appends("reader", "broken", utt))
    BY <2>2 DEF ActBroken, readerElse, readerOthers, Looks, eventQ
  <2>3. CASE ReadEvent \/ ActQueue \/ ActAudio \/ ActStop \/ ActStopReturns
             \/ ActEndQueued \/ ActPauseAtMark
    BY <2>3 DEF ReadEvent, ActQueue, ActAudio, ActStop, ActStopReturns, ActEndQueued,
                ActPauseAtMark, readerElse, readerOthers, eventQ
  <2> QED BY <1>5, <2>1, <2>2, <2>3 DEF OutputThread
<1>6. CASE UNCHANGED vars
  BY <1>6 DEF vars, outVars, eventQ, history
<1> QED BY <1>1, <1>2, <1>3, <1>4, <1>5, <1>6 DEF Next

(* A byte more or less is a token more or less.                            *)
LEMMA TokenAdded ==
  ASSUME NEW m \in Modules, bytes \in [Modules -> Nat], IsFiniteSet(Tokens),
         bytes' = [bytes EXCEPT ![m] = @ + 1]
  PROVE  /\ bytes' \in [Modules -> Nat] /\ IsFiniteSet(Tokens')
         /\ Cardinality(Tokens') = Cardinality(Tokens) + 1
PROOF
<1>1. bytes' \in [Modules -> Nat] /\ bytes'[m] = bytes[m] + 1
      /\ \A n \in Modules : n # m => bytes'[n] = bytes[n]
  OBVIOUS
<1>2. <<m, bytes[m] + 1>> \notin Tokens
  BY DEF Tokens
<1>3. Tokens' = Tokens \cup {<<m, bytes[m] + 1>>}
  <2>1. ASSUME NEW t \in Tokens' PROVE t \in Tokens \cup {<<m, bytes[m] + 1>>}
    BY <1>1, <2>1 DEF Tokens
  <2>2. ASSUME NEW t \in Tokens \cup {<<m, bytes[m] + 1>>} PROVE t \in Tokens'
    BY <1>1, <2>2 DEF Tokens
  <2> QED BY <2>1, <2>2
<1> QED BY <1>1, <1>2, <1>3, FS_AddElement

LEMMA TokenTaken ==
  ASSUME NEW m \in Modules, bytes \in [Modules -> Nat], IsFiniteSet(Tokens), bytes[m] > 0,
         bytes' = [bytes EXCEPT ![m] = @ - 1]
  PROVE  /\ bytes' \in [Modules -> Nat] /\ IsFiniteSet(Tokens')
         /\ Cardinality(Tokens') = Cardinality(Tokens) - 1
         /\ Cardinality(Tokens) \in Nat \ {0}
PROOF
<1>1. bytes' \in [Modules -> Nat] /\ bytes'[m] = bytes[m] - 1
      /\ \A n \in Modules : n # m => bytes'[n] = bytes[n]
  OBVIOUS
<1>2. <<m, bytes[m]>> \in Tokens
  BY DEF Tokens
<1>3. Tokens' = Tokens \ {<<m, bytes[m]>>}
  <2>1. ASSUME NEW t \in Tokens' PROVE t \in Tokens \ {<<m, bytes[m]>>}
    BY <1>1, <2>1 DEF Tokens
  <2>2. ASSUME NEW t \in Tokens \ {<<m, bytes[m]>>} PROVE t \in Tokens'
    BY <1>1, <2>2 DEF Tokens
  <2> QED BY <2>1, <2>2
<1>4. Cardinality(Tokens) \in Nat /\ Cardinality(Tokens) # 0
  BY <1>2, FS_CardinalityType, FS_EmptySet
<1> QED BY <1>1, <1>2, <1>3, <1>4, FS_RemoveElement

(* An event waits whenever a pipe_speak has a byte.                        *)
LEMMA EventWaits ==
  ASSUME Typed, TakeEvent
  PROVE  events # <<>> /\ EventTypes' /\ Head(events) \in Event
PROOF
<1>1. /\ speakingModule \in Modules /\ bytes[speakingModule] > 0
      /\ bytes' = [bytes EXCEPT ![speakingModule] = @ - 1]
      /\ handled' = Head(events) /\ events' = Tail(events)
  BY DEF TakeEvent, Typed, PlainTypes
<1>2. /\ bytes' \in [Modules -> Nat] /\ IsFiniteSet(Tokens')
      /\ Cardinality(Tokens') = Len(events) - 1 /\ Len(events) # 0
  BY <1>1, TokenTaken DEF Typed, EventTypes
<1>3. events \in Seq(Event) /\ events # <<>>
  BY <1>2 DEF Typed, EventTypes
<1>4. Tail(events) \in Seq(Event) /\ Len(Tail(events)) = Len(events) - 1 /\ Head(events) \in Event
  BY <1>3, SeqTail
<1> QED BY <1>1, <1>2, <1>3, <1>4 DEF EventTypes, Event

LEMMA EventTypesKept ==
  ASSUME Typed, [Next]_vars
  PROVE  EventTypes'
PROOF
<1>0. EventTypes
  BY DEF Typed
<1>1. CASE UNCHANGED <<events, handled, bytes>>
  BY <1>0, <1>1 DEF EventTypes, Tokens
<1>2. CASE UNCHANGED <<events, bytes>> /\ handled' = NoEvent
  BY <1>0, <1>2 DEF EventTypes, Tokens, NoEvent
<1>3. CASE TakeEvent
  BY <1>3, EventWaits
<1>4. ASSUME NEW t \in Thread, Sends(t, target[t]), handled' = handled PROVE EventTypes'
  <2>1. PICK type \in EventType, u \in Nat : events' = Append(events, [type |-> type, utt |-> u])
    BY <1>4 DEF Sends
  <2>2. [type |-> type, utt |-> u] \in Event
    BY DEF Event
  <2>3. events' \in Seq(Event) /\ Len(events') = Len(events) + 1
    BY <1>0, <2>1, <2>2, SeqAppend DEF EventTypes
  <2>4. target[t] \in Modules /\ bytes' = [bytes EXCEPT ![target[t]] = @ + 1]
    BY <1>4 DEF Sends, Typed, TargetTypes
  <2>5. /\ bytes' \in [Modules -> Nat] /\ IsFiniteSet(Tokens')
        /\ Cardinality(Tokens') = Cardinality(Tokens) + 1
    BY <1>0, <2>4, TokenAdded DEF EventTypes
  <2> QED BY <1>0, <1>4, <2>3, <2>5 DEF EventTypes
<1> QED BY <1>1, <1>2, <1>3, <1>4, EventSteps

-----------------------------------------------------------------------------
(* The remaining variables.                                                *)

LEMMA TargetTypesKept ==
  ASSUME Typed, [Next]_vars
  PROVE  TargetTypes'
PROOF
<1> USE DEF TargetTypes
<1>0. /\ TargetTypes /\ speakingModule \in Modules \cup {NoModule}
      /\ play \in [at : PlayAt, entry : Entry \cup {NoEntry}]
      /\ reader \in [at : {"read", "act", "stopping", "done"}, todo : List, last : BOOLEAN]
  BY DEF Typed, PlainTypes, QueueTypes, ReaderTypes
<1>1. ASSUME NEW t \in Thread, Looks(t), Listened
      PROVE  /\ target' \in [Thread -> Modules \cup {NoModule}] /\ target'[t] # NoModule
             /\ \A s \in Thread : s # t => target'[s] = target[s]
  BY <1>0, <1>1 DEF Looks, Listened
<1>2. ASSUME NEW t \in Thread, NEW type, NEW u, Appends(t, type, u)
      PROVE  /\ target' \in [Thread -> Modules \cup {NoModule}]
             /\ \A s \in Thread : s # t => target'[s] = target[s]
  BY <1>0, <1>2 DEF Appends
<1>3. \A s \in Seq(Op) : s # <<"appendBroken">>
  <2>1. "appendBroken" \notin Op /\ Head(<<"appendBroken">>) = "appendBroken"
    BY SeqShort DEF Op, ItemTypes, Asks
  <2>2. \A s \in Seq(Op) : s # <<>> => Head(s) \in Op
    BY SeqTail
  <2> QED BY <2>1, <2>2, SeqShort
<1>4. {"play", "sop", "reader"} \subseteq Thread
  BY DEF Thread
<1>5. ASSUME PlaySteps PROVE TargetTypes'
  <2>1. reader' = reader /\ sop' = sop
    BY <1>5 DEF PlaySteps, PlayWorks, PlayThread, PlayTop, PlayWakes, PlayPopStopped,
                PlayPopWaits, PlayPop, PlaySound, PlayBegin, PlayPauses, PlayPassesMark,
                PlayEnd, PlayDrops, PlayLooks, PlayAppends, PlayTold, outVars, threads
  <2>2. CASE PlayWorks
    <3>1. target' = target
      BY <2>2 DEF PlayWorks, eventQ
    <3>2. play'.at = "append" => play' = play
      <4>1. PlayTop => play'.at # "append"
        BY DEF PlayTop
      <4>2. PlayPop => play'.at # "append"
        BY DEF PlayPop
      <4>3. PlayWakes \/ PlayPopWaits => play'.at # "append" \/ play' = play
        BY DEF PlayWakes, PlayPopWaits, PlayGoes
      <4>5. PlayPopStopped \/ PlaySound \/ PlayPauses \/ PlayPassesMark => play'.at # "append"
        <5>1. \A at \in {"top", "pop"} : PlayGoes(at) => play'.at # "append"
          BY DEF PlayGoes
        <5> QED BY <5>1 DEF PlayPopStopped, PlaySound, PlayPauses, PlayPassesMark
      <4>4. PlayBegin \/ PlayEnd => play'.at # "append"
        BY DEF PlayBegin, PlayEnd, PlayGoes
      <4> QED BY <2>2, <4>1, <4>2, <4>3, <4>4, <4>5 DEF PlayWorks, PlayThread
    <3> QED BY <1>0, <2>1, <3>1, <3>2
  <2>3. CASE PlayDrops \/ PlayAppends
    <3>1. play'.at # "append"
      BY <2>3 DEF PlayDrops, PlayAppends, PlayTold, PlayGoes
    <3>2. target' = target \/ \E type, u : Appends("play", type, u)
      BY <2>3 DEF PlayDrops, PlayAppends, outVars, eventQ
    <3> QED BY <1>0, <1>2, <1>4, <2>1, <3>1, <3>2
  <2>4. CASE PlayLooks
    <3>1. Looks("play") /\ Listened
      BY <2>4 DEF PlayLooks
    <3> QED BY <1>0, <1>1, <1>4, <2>1, <3>1
  <2> QED BY <1>5, <2>2, <2>3, <2>4 DEF PlaySteps
<1>6. ASSUME SopSteps PROVE TargetTypes'
  <2>1. reader' = reader /\ play' = play
    BY <1>6 DEF SopSteps, SopWorks, SopThread, SopTop, SopWakes, SopIdles, SopSees, SopClears,
                SopResets, SopDrops, SopLooks, SopAppends, SopTold, outVars, threads
  <2>2. CASE SopWorks
    <3>1. target' = target /\ (sop' \notin {"appendStop", "appendPause"} \/ sop' = sop)
      BY <2>2 DEF SopWorks, SopThread, SopTop, SopWakes, SopIdles, SopSees, SopClears, SopResets,
                  outVars, eventQ
    <3> QED BY <1>0, <2>1, <3>1
  <2>3. CASE SopDrops \/ SopAppends
    <3>1. sop' = "top"
      BY <2>3 DEF SopDrops, SopAppends, SopTold
    <3>2. target' = target \/ \E type, u : Appends("sop", type, u)
      BY <2>3 DEF SopDrops, SopAppends, outVars, eventQ
    <3> QED BY <1>0, <1>2, <1>4, <2>1, <3>1, <3>2
  <2>4. CASE SopLooks
    <3>1. Looks("sop") /\ Listened
      BY <2>4 DEF SopLooks
    <3> QED BY <1>0, <1>1, <1>4, <2>1, <3>1
  <2> QED BY <1>6, <2>2, <2>3, <2>4 DEF SopSteps
<1>7. ASSUME SpeakerSteps \/ ControlSteps \/ Requests \/ Quit \/ \E m \in Modules : SpeakBegins(m)
      PROVE  TargetTypes'
  <2>1. UNCHANGED <<target, play, sop>>
    BY <1>7 DEF SpeakerSteps, SpeakSent, SpeakRefused, TakeEvent, Joined, BeforeSynth,
              ControlSteps, StopReturns, OutputStopFlushes, OutputTells, QuitDone, Flush,
              Requests, OutputStop, OutputStopDirectly, OutputPause, OutputPauseDirectly,
              StopAndWait, Pause, Quit, Terminate, SpeakBegins, queueVars, controlElse, eventQ
  <2>2. reader' = reader \/ reader' = [at |-> "read", todo |-> <<>>, last |-> FALSE]
    BY <1>7 DEF SpeakerSteps, SpeakSent, SpeakRefused, TakeEvent, Joined,
              ControlSteps, StopReturns, OutputStopFlushes, OutputTells, QuitDone,
              Requests, OutputStop, OutputStopDirectly, OutputPause, OutputPauseDirectly,
              Quit, SpeakBegins, controlElse
  <2> QED BY <1>0, <2>1, <2>2
<1>8. ASSUME OutputThread PROVE TargetTypes'
  <2>1. UNCHANGED <<play, sop>>
    BY <1>8 DEF OutputThread, ReadEvent, ActQueue, ActAudio, ActStop, ActStopReturns,
                ActEndQueued, ActPauseAtMark, ActBroken, BeforePlay, Push, Pause, AddAudio,
                WaitForRoom, StopAndWait, queueVars
  <2>2. CASE ReadEvent
    <3>1. PICK e \in Answers : reader' = Reader(ToDo(e), e \in LastEvents)
      BY <2>2 DEF ReadEvent
    <3>2. ToDo(e) \in Seq(Op)
      BY ToDoTyped DEF Typed
    <3>3. reader'.todo # <<"appendBroken">>
      BY <1>3, <3>1, <3>2 DEF Reader
    <3> QED BY <1>0, <2>1, <2>2, <3>3 DEF ReadEvent, eventQ
  <2>3. ASSUME OpDone, reader.todo # <<>> PROVE reader'.todo # <<"appendBroken">>
    <3>1. Tail(reader.todo) \in Seq(Op)
      BY <1>0, <2>3, Rest
    <3> QED BY <1>3, <2>3, <3>1 DEF OpDone, Reader
  <2>4. CASE ActBroken
    <3>1. CASE Doing({"broken"}) /\ Listened /\ Looks("reader")
      BY <1>0, <1>1, <1>4, <2>1, <3>1
    <3>2. CASE OpDone /\ reader.todo # <<>> /\ target' = target
      BY <1>0, <2>1, <2>3, <3>2
    <3>3. CASE OpDone /\ reader.todo # <<>> /\ Appends("reader", "broken", utt)
      BY <1>0, <1>2, <1>4, <2>1, <2>3, <3>3
    <3> QED BY <2>4, <3>1, <3>2, <3>3 DEF ActBroken, Doing, eventQ
  <2>5. CASE ActQueue \/ ActAudio \/ ActEndQueued \/ ActPauseAtMark
    <3>1. target' = target /\ (reader' = reader \/ (OpDone /\ reader.todo # <<>>))
      BY <2>5 DEF ActQueue, ActAudio, ActEndQueued, ActPauseAtMark, Doing, eventQ
    <3> QED BY <1>0, <2>1, <2>3, <3>1
  <2>6. CASE ActStop
    <3>1. Tail(reader.todo) \in Seq(Op)
      BY <1>0, <2>6, Rest DEF ActStop, Doing
    <3>2. reader'.todo = Tail(reader.todo)
      BY <1>0, <2>6 DEF ActStop
    <3> QED BY <1>0, <1>3, <2>1, <2>6, <3>1, <3>2 DEF ActStop, eventQ
  <2>7. CASE ActStopReturns
    BY <1>0, <2>1, <2>7 DEF ActStopReturns, Reader, eventQ
  <2> QED BY <1>8, <2>2, <2>4, <2>5, <2>6, <2>7 DEF OutputThread
<1>9. CASE UNCHANGED vars
  BY <1>0, <1>9 DEF vars, queueVars, outVars, eventQ, threads
<1> QED BY <1>5, <1>6, <1>7, <1>8, <1>9 DEF Next

LEMMA PlainTypesKept ==
  ASSUME Typed, [Next]_vars
  PROVE  PlainTypes'
PROOF
<1> USE DEF PlainTypes
<1>0. PlainTypes
  BY DEF Typed
<1>1. ASSUME PlaySteps PROVE PlainTypes'
  <2>1. CASE PlayWorks
    <3>1. /\ UNCHANGED <<speakingModule, speaker, asked, utt, stopAsked, pauseAsked,
                         pauseQueued, endQueued, heard, spoilt>>
          /\ crossed' \in BOOLEAN
          /\ stopFor' = IF stopRequested' THEN utt ELSE stopFor
      BY <2>1, <1>0 DEF PlayWorks, outFlags, threads
    <3>2. /\ state' \in {state, "SPEAKING", "IDLE"}
          /\ pauseState' \in {pauseState, "OFF", "MARK_REPORTED"}
          /\ stopRequested' \in {stopRequested, TRUE} /\ sop' = sop
      BY <2>1 DEF PlayWorks, PlayThread, PlayTop, PlayWakes, PlayPopStopped,
                PlayPopWaits, PlayPop, PlaySound, PlayBegin, PlayPauses, PlayPassesMark,
                PlayEnd, AfterEnd, flags
    <3> QED BY <1>0, <3>1, <3>2
  <2>2. CASE PlayDrops \/ PlayLooks \/ PlayAppends
    BY <1>0, <2>2 DEF PlayDrops, PlayLooks, PlayAppends, PlayTold, outVars, outFlags, threads,
                      flags, history
  <2> QED BY <1>1, <2>1, <2>2 DEF PlaySteps
<1>2. ASSUME SopSteps PROVE PlainTypes'
  <2>1. UNCHANGED <<speakingModule, speaker, asked, utt, stopAsked, pauseAsked,
                    pauseQueued, endQueued, heard, spoilt, crossed, stopFor>>
    BY <1>2 DEF SopSteps, SopWorks, SopDrops, SopLooks, SopAppends, outVars, outFlags, threads,
                history
  <2>2. /\ state' \in {state, "IDLE"} /\ pauseState' \in {pauseState, "OFF"}
        /\ stopRequested' \in {stopRequested, FALSE} /\ sop' \in SopAt
    BY <1>0, <1>2 DEF SopSteps, SopWorks, SopDrops, SopLooks, SopAppends, SopThread, SopTop,
                 SopWakes, SopIdles, SopSees, SopClears, SopResets, SopTold, SopAt, flags
  <2> QED BY <1>0, <2>1, <2>2
<1>3. ASSUME SpeakerSteps PROVE PlainTypes'
  <2>1. CASE SpeakSent
    <3>1. PICK ok \in BOOLEAN : BeforeSynth(ok)
      BY <2>1 DEF SpeakSent
    <3>2. /\ state' \in {state, "BEFORE_SYNTH"} /\ pauseState' \in {pauseState, "OFF"}
          /\ stopRequested' \in BOOLEAN /\ sop' = sop
      BY <1>0, <3>1 DEF BeforeSynth
    <3>3. /\ utt' = utt + 1 /\ asked' = {} /\ speaker' = "listen" /\ speaker = "sending"
          /\ stopAsked' = FALSE /\ pauseAsked' = FALSE /\ pauseQueued' = FALSE
          /\ endQueued' = FALSE /\ heard' = FALSE
          /\ UNCHANGED <<speakingModule, stopFor, crossed, spoilt>>
      BY <2>1 DEF SpeakSent
    <3>4. /\ state' \in {"IDLE", "BEFORE_SYNTH", "BEFORE_PLAY", "SPEAKING"}
          /\ pauseState' \in {"OFF", "REQUESTED", "MARK_REPORTED"} /\ sop' \in SopAt
      BY <1>0, <3>2
    <3>5. /\ speakingModule' \in Modules \cup {NoModule} /\ speakingModule' # NoModule
          /\ asked' \subseteq Asks /\ utt' \in Nat /\ stopFor' \in Nat
          /\ crossed' \in BOOLEAN /\ spoilt' \in BOOLEAN
      BY <1>0, <3>3
    <3> QED BY <3>2, <3>3, <3>4, <3>5
  <2>2. CASE SpeakRefused
    BY <1>0, <2>2 DEF SpeakRefused, BeforeSynth, outFlags
  <2>3. CASE TakeEvent \/ Joined
    BY <1>0, <2>3 DEF TakeEvent, Joined, queueVars, flags, outFlags, history
  <2> QED BY <1>3, <2>1, <2>2, <2>3 DEF SpeakerSteps
<1>4. ASSUME ControlSteps \/ Requests \/ Quit \/ \E m \in Modules : SpeakBegins(m)
      PROVE  PlainTypes'
  <2>1. CASE ControlSteps
    BY <1>0, <2>1 DEF ControlSteps, StopReturns, OutputStopFlushes, OutputTells, QuitDone, Flush,
              queueVars, flags, outFlags, controlElse, history
  <2>2. CASE Requests
    BY <1>0, <2>2 DEF Requests, OutputStop, OutputStopDirectly, OutputPause, OutputPauseDirectly,
              MayAsk, StopAndWait, Pause, queueVars, flags, outFlags, controlElse, Asks
  <2>3. CASE Quit \/ \E m \in Modules : SpeakBegins(m)
    BY <1>0, <2>3, PlaybackAssumption DEF Quit, Terminate, SpeakBegins, queueVars, flags, outFlags, history
  <2> QED BY <1>4, <2>1, <2>2, <2>3
<1>5. ASSUME OutputThread PROVE PlainTypes'
  <2>1. CASE ReadEvent
    BY <1>0, <2>1 DEF ReadEvent, queueVars, flags, outFlags
  <2>2. CASE ActQueue
    BY <1>0, <2>2 DEF ActQueue, BeforePlay, Push, Pause, queueVars, flags, outFlags, readerOthers
  <2>3. CASE ActAudio \/ ActStop \/ ActStopReturns
    BY <1>0, <2>3 DEF ActAudio, ActStop, ActStopReturns, AddAudio, Push, WaitForRoom, StopAndWait,
                queueVars, flags, outFlags, readerOthers, readerElse
  <2>4. CASE ActEndQueued \/ ActPauseAtMark \/ ActBroken
    BY <1>0, <2>4 DEF ActEndQueued, ActPauseAtMark, ActBroken, Pause,
                queueVars, flags, outFlags, readerOthers, readerElse
  <2> QED BY <1>5, <2>1, <2>2, <2>3, <2>4 DEF OutputThread
<1>6. CASE UNCHANGED vars
  BY <1>0, <1>6 DEF vars, queueVars, flags, outVars, outFlags, threads, history
<1> QED BY <1>1, <1>2, <1>3, <1>4, <1>5, <1>6 DEF Next

LEMMA InitTyped ==
  ASSUME Init PROVE Typed
PROOF
<1> USE DEF Init, QueueInit
<1>1. QueueTypes
  BY DEF QueueTypes, PlayAt, NoEntry
<1>2. ReaderTypes
  BY DEF ReaderTypes, List, Silent
<1>3. EventTypes
  <2>1. Tokens = {}
    BY DEF Tokens
  <2> QED BY <2>1, FS_EmptySet DEF EventTypes, NoEvent
<1>4. TargetTypes
  BY DEF TargetTypes
<1>5. PlainTypes
  BY DEF PlainTypes, SopAt
<1> QED BY <1>1, <1>2, <1>3, <1>4, <1>5 DEF Typed

LEMMA TypedInvariant == Spec => []Typed
PROOF
<1>1. Init => Typed
  BY InitTyped
<1>2. Typed /\ [Next]_vars => Typed'
  BY QueueTypesKept, ReaderTypesKept, EventTypesKept, TargetTypesKept, PlainTypesKept DEF Typed
<1> QED BY <1>1, <1>2, PTL DEF Spec

-----------------------------------------------------------------------------
(* The invariant while nothing was lost or spoilt.                         *)

Clean == ~crossed /\ ~spoilt /\ speaker # "gone"

ItemShapes == {<<"beforePlay">>, <<"SD_MARK", "pauseAtMark">>, <<"pauseAtMark">>,
               <<"AUDIO">>, <<"MARK">>, <<"SOUND_ICON">>}
LastShapes == {<<"stop">>, <<"pause", "END">>, <<"END">>, <<"END", "endQueued">>,
               <<"endQueued">>}

(* What the output thread has to do after an event of the module.          *)
Reading ==
  /\ reader.at = "read" => reader.todo = <<>> /\ ~reader.last
  /\ reader.at = "act" => reader.todo \in (IF reader.last THEN LastShapes ELSE ItemShapes)
  /\ reader.at = "stopping" => reader.todo = <<>> /\ reader.last
  /\ reader.at = "done" => reader.todo = <<>>
  /\ reader.at = "act" /\ reader.todo # <<"stop">> => synth.begun
  /\ endQueued => reader.at = "done" /\ synth.begun

(* A stop or a pause under way was asked for this message.                 *)
Requested ==
  /\ stopAsked => "stop" \in asked
  /\ pauseAsked => "pause" \in asked
  /\ synth.told \subseteq asked
  /\ control \in {"flush", "sendStop"} => "stop" \in asked
  /\ control = "sendPause" => "pause" \in asked
  /\ reader.todo = <<"stop">> => "stop" \in asked
  /\ reader.todo = <<"pause", "END">> => "pause" \in asked
  /\ speaker = "sending" => control = "free"
  /\ pauseState # "OFF" => "pause" \in asked
  /\ sop \in {"tellPause", "appendPause"} => "pause" \in asked
  /\ sop \in {"tellStop", "appendStop"} => "stop" \in asked
  /\ stopRequested /\ pauseState # "MARK_REPORTED" => "stop" \in asked

(* The output thread pushes nothing of the message any more, but its END.  *)
Drained == \/ reader.at = "done" \/ reader.last
           \/ reader.at = "read" /\ Discards /\ synth.begun

TellSop  == {"tellStop", "tellPause", "appendStop", "appendPause"}
Stopping == stopRequested \/ sop \in TellSop

Alive ==
  /\ ~closeRequested /\ play.at # "gone" /\ sop # "gone"
  /\ control \notin {"quitting", "gone"}

Drains == state = "IDLE" \/ stopRequested \/ pauseState # "OFF" => Drained

(* BEGIN is pushed when the module has begun.                              *)
Synthesized ==
  /\ state = "BEFORE_SYNTH" => (synth.begun <=> reader.todo = <<"beforePlay">>)
  /\ reader.todo = <<"beforePlay">> => state = "BEFORE_SYNTH"
  /\ state \in {"BEFORE_PLAY", "SPEAKING"} => synth.begun

(* How far the stop_or_pause thread is.                                    *)
StopStages ==
  /\ stopRequested => sop \in {"sleep", "awake", "poll", "clear", "reset"}
  /\ sop \in {"awake", "poll", "clear", "reset"} => stopRequested
  /\ sop \in {"poll", "clear", "reset"} \cup TellSop => state = "IDLE"
  /\ sop \in {"clear", "reset"} \cup TellSop => play.at = "sleep"
  /\ Stopping => stopFor = utt
  /\ pauseState = "MARK_REPORTED" => stopRequested

Stages == Alive /\ Drains /\ Synthesized /\ StopStages

Ended   == \E i \in DOMAIN events : events[i].type \in Terminal
Over    == speaker # "listen" \/ Ended
Telling == {"tell", "append"}
EndTold == play.at \in Telling /\ play.entry.type = "END"

(* A message ends in one way only.                                         *)
Single ==
  /\ Over => state = "IDLE" /\ play.at \in {"top", "sleep"} /\ ~Stopping
  /\ EndTold => state = "IDLE" /\ ~Stopping
  /\ state = "BEFORE_SYNTH" => play.at \in {"top", "sleep"}

Old(e)    == e.utt < utt /\ e.type = "END"
OwnEnd(e) == e.utt = utt /\ e.type = "END"
OwnPart(e) == e.utt = utt /\ e.type # "BEGIN"

HasEnd == \/ \E i \in DOMAIN queue : OwnEnd(queue[i])
          \/ play.at \in {"got", "tell", "append"} /\ OwnEnd(play.entry)

(* The BEGIN of the message, behind old ENDs and before its parts.         *)
BeginAt(b) ==
  /\ queue[b].type = "BEGIN" /\ queue[b].utt = utt
  /\ \A i \in DOMAIN queue : i < b => Old(queue[i])
  /\ \A i \in DOMAIN queue : i > b => OwnPart(queue[i])
BeginGot   == play.at = "got" /\ play.entry.type = "BEGIN"
BeginWaits == IF BeginGot THEN \A i \in DOMAIN queue : OwnPart(queue[i])
                          ELSE \E b \in DOMAIN queue : BeginAt(b)

(* What the playback queue holds in each state.                            *)
Queued ==
  /\ \A i \in DOMAIN queue : queue[i].utt = utt \/ Old(queue[i])
  /\ \A i \in DOMAIN queue : OwnEnd(queue[i]) => i = Len(queue)
  /\ state = "BEFORE_SYNTH" => \A i \in DOMAIN queue : Old(queue[i])
  /\ state = "IDLE" /\ sop \notin {"poll", "clear"} => \A i \in DOMAIN queue : queue[i].type = "END"
  /\ state = "BEFORE_PLAY" => BeginWaits
  /\ state = "SPEAKING" => \A i \in DOMAIN queue : OwnPart(queue[i])
  /\ HasEnd => reader.at \in {"done", "stopping"} \/ reader.todo = <<"endQueued">>

Begun == heard \/ (events # <<>> /\ events[1].type = "begin")

(* What the play thread holds, and which events it has reported.           *)
Playing ==
  /\ play.at = "got" => play.entry.utt = utt \/ Old(play.entry)
  /\ play.at \in {"tell", "append", "told"} => play.entry.utt = utt
  /\ play.at = "got" /\ state = "SPEAKING" => OwnPart(play.entry)
  /\ play.at \in {"got", "tell", "append"} /\ OwnEnd(play.entry) => queue = <<>>
  /\ play.at \in Telling /\ play.entry.type = "BEGIN" =>
       events = <<>> /\ ~heard /\ state # "BEFORE_PLAY"
  /\ play.at \in Telling /\ play.entry.type # "BEGIN" => Begun
  /\ play.at = "told" => Begun
  /\ state = "SPEAKING" => Begun \/ (play.at \in Telling /\ play.entry.type = "BEGIN")
  /\ state \in {"BEFORE_SYNTH", "BEFORE_PLAY"} => events = <<>> /\ ~heard
  /\ pauseState = "MARK_REPORTED" \/ sop \in {"tellPause", "appendPause"} => Begun

(* The events that wait for the speak() thread.                            *)
Delivered ==
  /\ \A i \in DOMAIN events : events[i].utt = utt
  /\ \A i \in DOMAIN events : events[i].type = "begin" => i = 1 /\ ~heard
  /\ \A i \in DOMAIN events : events[i].type \in {"mark", "end", "pause"} => Begun
  /\ \A i \in DOMAIN events : events[i].type \in Terminal => i = Len(events)
  /\ \A i \in DOMAIN events : events[i].type \in Asks => events[i].type \in asked
  /\ \A i \in DOMAIN events : events[i].type # "broken"
  /\ speaker # "listen" => events = <<>>

CleanInv == Reading /\ Requested /\ Stages /\ Single /\ Queued /\ Playing /\ Delivered

LEMMA StaysSpoilt ==
  ASSUME Typed, [Next]_vars
  PROVE  (crossed => crossed') /\ (spoilt => spoilt')
PROOF
<1>0. {crossed, spoilt} \subseteq BOOLEAN
  BY DEF Typed, PlainTypes
<1>1. CASE PlaySteps \/ SopSteps
  BY <1>0, <1>1 DEF PlaySteps, PlayWorks, PlayDrops, PlayLooks, PlayAppends, SopSteps, SopWorks,
            SopDrops, SopLooks, SopAppends, outVars, history
<1>2. CASE SpeakerSteps \/ ControlSteps \/ Requests \/ Quit \/ \E m \in Modules : SpeakBegins(m)
  BY <1>0, <1>2 DEF SpeakerSteps, SpeakSent, SpeakRefused, TakeEvent, Joined,
            ControlSteps, StopReturns, OutputStopFlushes, OutputTells, QuitDone,
            Requests, OutputStop, OutputStopDirectly, OutputPause, OutputPauseDirectly,
            Quit, SpeakBegins, controlElse, history
<1>3. CASE OutputThread
  <2>1. CASE ReadEvent
    BY <1>0, <2>1 DEF ReadEvent
  <2>2. CASE ActQueue
    BY <1>0, <2>2 DEF ActQueue, readerOthers
  <2>3. CASE ActAudio \/ ActStop \/ ActStopReturns \/ ActEndQueued \/ ActPauseAtMark \/ ActBroken
    <3>1. UNCHANGED readerElse
      BY <2>3 DEF ActAudio, ActStop, ActStopReturns, ActEndQueued, ActPauseAtMark, ActBroken
    <3> QED BY <3>1 DEF readerElse, readerOthers
  <2> QED BY <1>3, <2>1, <2>2, <2>3 DEF OutputThread
<1>4. CASE UNCHANGED vars
  BY <1>4 DEF vars, outVars, history
<1> QED BY <1>1, <1>2, <1>3, <1>4 DEF Next

LEMMA StaysUnclean ==
  ASSUME Typed, [Next]_vars, Clean'
  PROVE  Clean
PROOF
<1>1. (crossed => crossed') /\ (spoilt => spoilt')
  BY StaysSpoilt
<1>2. speaker = "gone" => speaker' = "gone"
  <2>1. CASE PlaySteps \/ SopSteps
    BY <2>1 DEF PlaySteps, PlayWorks, PlayDrops, PlayLooks, PlayAppends, SopSteps, SopWorks,
              SopDrops, SopLooks, SopAppends, outVars, threads
  <2>2. CASE SpeakerSteps \/ ControlSteps \/ Requests \/ Quit \/ \E m \in Modules : SpeakBegins(m)
    BY <2>2 DEF SpeakerSteps, SpeakSent, SpeakRefused, TakeEvent, Joined,
              ControlSteps, StopReturns, OutputStopFlushes, OutputTells, QuitDone,
              Requests, OutputStop, OutputStopDirectly, OutputPause, OutputPauseDirectly,
              Quit, SpeakBegins, controlElse
  <2>3. CASE OutputThread
    BY <2>3 DEF OutputThread, ReadEvent, ActQueue, ActAudio, ActStop, ActStopReturns,
                ActEndQueued, ActPauseAtMark, ActBroken, readerElse, readerOthers
  <2>4. CASE UNCHANGED vars
    BY <2>4 DEF vars, outVars, threads
  <2> QED BY <2>1, <2>2, <2>3, <2>4 DEF Next
<1> QED BY <1>1, <1>2 DEF Clean

-----------------------------------------------------------------------------
(* The output thread in such a behaviour.                                  *)

Becomes(at, todo, last) ==
  reader'.at = at /\ reader'.todo = todo /\ reader'.last = last

LEMMA ReadCases ==
  ASSUME Typed, ReadEvent, ~spoilt'
  PROVE  /\ synth'.told = synth.told /\ reader.at = "read"
         /\ \/ /\ ~synth.begun /\ synth'.begun /\ Becomes("act", <<"beforePlay">>, FALSE)
            \/ /\ synth'.begun = synth.begun
               /\ "stop" \in synth.told \/ (stopAsked /\ synth.begun)
               /\ Becomes("act", <<"stop">>, TRUE)
            \/ synth'.begun = synth.begun /\ Becomes("done", <<>>, TRUE)
            \/ /\ synth.begun /\ synth'.begun
               /\ \/ /\ pauseAsked \/ "pause" \in synth.told
                     /\ Becomes("act", <<"pause", "END">>, TRUE)
                  \/ Becomes("act", <<"END">>, TRUE)
                  \/ Becomes("act", <<"END", "endQueued">>, TRUE)
            \/ /\ synth.begun /\ synth'.begun /\ ~Discards
               /\ \/ \E x \in {"AUDIO", "MARK", "SOUND_ICON"} : Becomes("act", <<x>>, FALSE)
                  \/ Becomes("act", <<"SD_MARK", "pauseAtMark">>, FALSE)
            \/ synth.begun /\ synth'.begun /\ Discards /\ Becomes("read", <<>>, FALSE)
PROOF
<1>1. PICK e \in Answers :
        /\ reader' = Reader(ToDo(e), e \in LastEvents)
        /\ synth' = [synth EXCEPT !.begun = @ \/ e = "701",
                                  !.sent = IF e \in ItemTypes THEN @ + 1 ELSE @]
        /\ spoilt' = (spoilt \/ e = "broken")
  BY DEF ReadEvent
<1>2. e \in ItemTypes \cup LastEvents \cup {"701"} /\ e # "broken"
  BY <1>1, AnswersTyped DEF Typed
<1>3. /\ synth'.told = synth.told
      /\ synth'.begun = (synth.begun \/ e = "701")
      /\ synth.begun \in BOOLEAN
  BY <1>1 DEF Typed, ReaderTypes
<1>4. /\ e = "701" => ~synth.begun
      /\ e = "702" \/ e \in ItemTypes => synth.begun
      /\ e = "703" => "stop" \in synth.told
      /\ e = "704" => synth.begun /\ "pause" \in synth.told
  <2>1. synth.begun /\ synth.sent < Len(Script) => Script[synth.sent + 1] \in ItemTypes
    BY PlaybackAssumption DEF Typed, ReaderTypes
  <2> QED BY <1>1, <2>1 DEF Answers, ItemTypes
<1>5. \A a, b : <<a>> # <<>> /\ <<a, b>> # <<>>
  BY SeqShort
<1>6. CASE e = "701"
  <2>1. (e \in LastEvents) = FALSE /\ ToDo(e) = <<"beforePlay">>
    BY <1>2, <1>6, ToDoShape DEF LastEvents
  <2>2. Becomes("act", <<"beforePlay">>, FALSE)
    BY <1>1, <1>5, <2>1 DEF Reader, Becomes
  <2>3. ~synth.begun /\ synth'.begun
    BY <1>3, <1>4, <1>6
  <2> QED BY <1>3, <2>2, <2>3 DEF ReadEvent
<1>7. CASE e = "702"
  BY <1>1, <1>2, <1>3, <1>4, <1>5, <1>7, ToDoShape DEF Reader, Becomes, LastEvents, ReadEvent
<1>8. CASE e = "703"
  BY <1>1, <1>2, <1>3, <1>4, <1>5, <1>8, ToDoShape DEF Reader, Becomes, LastEvents, ReadEvent
<1>9. CASE e = "704"
  BY <1>1, <1>2, <1>3, <1>4, <1>5, <1>9, ToDoShape DEF Reader, Becomes, LastEvents, ReadEvent
<1>10. CASE e \in ItemTypes
  <2>1. /\ e # "701" /\ (e = "SD_MARK" \/ e \in {"AUDIO", "MARK", "SOUND_ICON"})
        /\ (e \in LastEvents) = FALSE
    BY <1>10 DEF LastEvents, ItemTypes
  <2>2. synth.begun /\ synth'.begun /\ reader.at = "read"
    BY <1>3, <1>4, <1>10 DEF ReadEvent
  <2>3. CASE Discards
    <3>1. ToDo(e) = <<>>
      BY <1>2, <1>10, <2>3, ToDoShape
    <3>2. Becomes("read", <<>>, FALSE)
      BY <1>1, <2>1, <3>1 DEF Reader, Becomes
    <3> QED BY <1>3, <2>2, <2>3, <3>2
  <2>4. CASE ~Discards /\ e = "SD_MARK"
    <3>1. ToDo(e) = <<"SD_MARK", "pauseAtMark">>
      BY <1>2, <1>10, <2>4, ToDoShape
    <3>2. Becomes("act", <<"SD_MARK", "pauseAtMark">>, FALSE)
      BY <1>1, <1>5, <2>1, <3>1 DEF Reader, Becomes
    <3> QED BY <1>3, <2>2, <2>4, <3>2
  <2>5. CASE ~Discards /\ e # "SD_MARK"
    <3>1. ToDo(e) = <<e>>
      BY <1>2, <1>10, <2>5, ToDoShape
    <3>2. Becomes("act", <<e>>, FALSE)
      BY <1>1, <1>5, <2>1, <3>1 DEF Reader, Becomes
    <3> QED BY <1>3, <2>1, <2>2, <2>5, <3>2
  <2> QED BY <2>3, <2>4, <2>5
<1> QED BY <1>2, <1>6, <1>7, <1>8, <1>9, <1>10 DEF LastEvents

LEMMA DoneCases ==
  ASSUME Typed, Reading, reader.at = "act", OpDone
  PROVE  \/ /\ ~reader.last /\ Becomes("read", <<>>, FALSE)
            /\ \E x \in {"beforePlay", "AUDIO", "MARK", "SOUND_ICON", "pauseAtMark"} :
                 reader.todo = <<x>> /\ Head(reader.todo) = x
         \/ /\ ~reader.last /\ Becomes("act", <<"pauseAtMark">>, FALSE)
            /\ reader.todo = <<"SD_MARK", "pauseAtMark">> /\ Head(reader.todo) = "SD_MARK"
         \/ /\ reader.last /\ Becomes("done", <<>>, TRUE)
            /\ \E x \in {"stop", "END", "endQueued"} :
                 reader.todo = <<x>> /\ Head(reader.todo) = x
         \/ /\ reader.last /\ Becomes("act", <<"END">>, TRUE)
            /\ reader.todo = <<"pause", "END">> /\ Head(reader.todo) = "pause"
         \/ /\ reader.last /\ Becomes("act", <<"endQueued">>, TRUE)
            /\ reader.todo = <<"END", "endQueued">> /\ Head(reader.todo) = "END"
PROOF
<1>1. reader.last \in BOOLEAN
  BY DEF Typed, ReaderTypes
<1>2. ASSUME NEW a, reader.todo = <<a>>
      PROVE  Head(reader.todo) = a
             /\ Becomes(IF reader.last THEN "done" ELSE "read", <<>>, reader.last)
  BY <1>2, SeqShort DEF OpDone, Reader, Becomes
<1>3. ASSUME NEW a, NEW b, reader.todo = <<a, b>>
      PROVE  Head(reader.todo) = a /\ Becomes("act", <<b>>, reader.last)
  BY <1>3, SeqShort DEF OpDone, Reader, Becomes
<1>4. CASE reader.last
  <2>1. CASE \E x \in {"stop", "END", "endQueued"} : reader.todo = <<x>>
    BY <1>1, <1>2, <1>4, <2>1
  <2>2. CASE reader.todo = <<"pause", "END">>
    BY <1>1, <1>3, <1>4, <2>2
  <2>3. CASE reader.todo = <<"END", "endQueued">>
    BY <1>1, <1>3, <1>4, <2>3
  <2> QED BY <1>4, <2>1, <2>2, <2>3 DEF Reading, LastShapes
<1>5. CASE ~reader.last
  <2>1. CASE \E x \in {"beforePlay", "AUDIO", "MARK", "SOUND_ICON", "pauseAtMark"} : reader.todo = <<x>>
    BY <1>1, <1>2, <1>5, <2>1
  <2>2. CASE reader.todo = <<"SD_MARK", "pauseAtMark">>
    BY <1>1, <1>3, <1>5, <2>2
  <2> QED BY <1>5, <2>1, <2>2 DEF Reading, ItemShapes
<1> QED BY <1>4, <1>5

(* The lists of the output thread are told apart by their operations.      *)
LEMMA Lists ==
  /\ \A a, b : <<a>> = <<b>> => a = b
  /\ \A a, b, c : <<a, b>> # <<c>>
  /\ \A a, b, c, d : <<a, b>> = <<c, d>> => a = c /\ b = d
  /\ \A a, b : <<a>> # <<>> /\ <<a, b>> # <<>>
PROOF
  OBVIOUS

LEMMA Distinct ==
  LET others == {<<>>, <<"AUDIO">>, <<"MARK">>, <<"SOUND_ICON">>, <<"pauseAtMark">>,
                 <<"SD_MARK", "pauseAtMark">>, <<"END">>, <<"END", "endQueued">>}
  IN  /\ <<"stop">> \notin others \cup {<<"beforePlay">>, <<"pause", "END">>, <<"endQueued">>}
      /\ <<"pause", "END">> \notin others \cup {<<"beforePlay">>, <<"stop">>, <<"endQueued">>}
      /\ <<"beforePlay">> \notin others \cup {<<"stop">>, <<"pause", "END">>, <<"endQueued">>}
      /\ <<"endQueued">> \notin others \cup {<<"beforePlay">>, <<"pause", "END">>, <<"stop">>}
PROOF
  OBVIOUS

LEMMA EndQueuedSteps ==
  ASSUME [Next]_vars
  PROVE  endQueued' = endQueued \/ ~endQueued' \/ ActEndQueued
PROOF
<1>1. CASE PlaySteps \/ SopSteps
  BY <1>1 DEF PlaySteps, PlayWorks, PlayDrops, PlayLooks, PlayAppends, SopSteps, SopWorks,
            SopDrops, SopLooks, SopAppends, outVars, outFlags
<1>2. CASE SpeakerSteps \/ ControlSteps \/ Requests \/ Quit \/ \E m \in Modules : SpeakBegins(m)
  BY <1>2 DEF SpeakerSteps, SpeakSent, SpeakRefused, TakeEvent, Joined,
            ControlSteps, StopReturns, OutputStopFlushes, OutputTells, QuitDone,
            Requests, OutputStop, OutputStopDirectly, OutputPause, OutputPauseDirectly,
            Quit, SpeakBegins, outFlags
<1>3. CASE OutputThread
  BY <1>3 DEF OutputThread, ReadEvent, ActQueue, ActAudio, ActStop, ActStopReturns,
              ActEndQueued, ActPauseAtMark, ActBroken, outFlags
<1>4. CASE UNCHANGED vars
  BY <1>4 DEF vars, outVars, outFlags
<1> QED BY <1>1, <1>2, <1>3, <1>4 DEF Next

(* Nothing breaks and the lists are the known ones, so that a broken pipe  *)
(* is not reported.                                                        *)
LEMMA NotBroken ==
  ASSUME Reading
  PROVE  ~ActBroken
PROOF
<1> SUFFICES ASSUME ActBroken PROVE FALSE
  OBVIOUS
<1>1. reader.at = "act" /\ Head(reader.todo) \in {"broken", "appendBroken"}
  BY DEF ActBroken, Doing
<1>2. reader.todo \in LastShapes \cup ItemShapes
  BY <1>1 DEF Reading
<1> QED BY <1>1, <1>2, SeqShort DEF LastShapes, ItemShapes

LEMMA StopShape ==
  ASSUME Typed, Reading, ActStop
  PROVE  /\ reader.at = "act" /\ reader.last /\ reader.todo = <<"stop">>
         /\ Becomes("stopping", <<>>, TRUE) /\ CanStop
PROOF
<1>1. reader.at = "act" /\ Head(reader.todo) = "stop" /\ reader.todo # <<>> /\ CanStop
  BY DEF ActStop, Doing, StopAndWait
<1>2. reader.todo \in (IF reader.last THEN LastShapes ELSE ItemShapes)
  BY <1>1 DEF Reading
<1>3. reader.last /\ reader.todo = <<"stop">>
  BY <1>1, <1>2, SeqShort DEF LastShapes, ItemShapes
<1>4. Tail(reader.todo) = <<>> /\ reader.last = TRUE
  BY <1>3, SeqShort DEF Typed, ReaderTypes
<1>5. reader' = [reader EXCEPT !.at = "stopping", !.todo = Tail(@)]
  BY DEF ActStop
<1>6. reader' = [at |-> "stopping", todo |-> Tail(reader.todo), last |-> reader.last]
  BY <1>5 DEF Typed, ReaderTypes
<1> QED BY <1>1, <1>3, <1>4, <1>6 DEF Becomes

LEMMA OutputSteps ==
  ASSUME Typed, Reading, OutputThread
  PROVE  \/ ReadEvent
         \/ ActStop
         \/ ActStopReturns /\ Becomes("done", <<>>, TRUE)
         \/ ActAudio /\ WaitForRoom("reader") /\ UNCHANGED <<reader, synth>>
         \/ /\ reader.at = "act" /\ OpDone /\ synth' = synth
            /\ ActQueue \/ (ActAudio /\ AddAudio(utt)) \/ ActEndQueued \/ ActPauseAtMark
PROOF
<1>1. CASE ActStopReturns
  BY <1>1 DEF ActStopReturns, Becomes, Reader, Reading, Typed, ReaderTypes
<1>2. CASE ActAudio
  BY <1>2 DEF ActAudio, Doing, readerElse, readerOthers
<1>3. CASE ActQueue
  BY <1>3 DEF ActQueue, Doing, readerOthers
<1>4. CASE ActEndQueued \/ ActPauseAtMark
  BY <1>4 DEF ActEndQueued, ActPauseAtMark, Doing, readerElse, readerOthers
<1> QED BY <1>1, <1>2, <1>3, <1>4, NotBroken DEF OutputThread

LEMMA ReadingKept ==
  ASSUME Typed, Typed', Reading, Clean', [Next]_vars
  PROVE  Reading'
PROOF
<1>0. endQueued \in BOOLEAN /\ endQueued' \in BOOLEAN /\ synth.begun \in BOOLEAN
  BY DEF Typed, PlainTypes, ReaderTypes
<1>2. reader.at # "done" => ~endQueued
  BY DEF Reading
<1>3. CASE UNCHANGED <<reader, synth>>
  <2>1. endQueued' = endQueued \/ ~endQueued'
    <3>1. CASE ActEndQueued
      BY <1>3, <3>1, DoneCases DEF ActEndQueued, Doing, Becomes
    <3> QED BY <3>1, EndQueuedSteps
  <2> QED BY <1>3, <2>1 DEF Reading
<1>4. CASE reader' = [at |-> "read", todo |-> <<>>, last |-> FALSE] /\ SpeakSent
  <2>1. ~endQueued'
    BY <1>4 DEF SpeakSent
  <2> QED BY <1>4, <2>1 DEF Reading
<1>5. CASE OutputTells /\ reader' = reader
  <2>1. endQueued' = endQueued
    BY <1>5 DEF OutputTells, outFlags
  <2>2. synth'.begun = synth.begun
    BY <1>5 DEF OutputTells, Typed, ReaderTypes
  <2> QED BY <1>5, <2>1, <2>2 DEF Reading
<1>6. CASE ReadEvent
  <2>1. ~endQueued'
    BY <1>2, <1>6 DEF ReadEvent, outFlags
  <2>2. ~spoilt'
    BY DEF Clean
  <2>3. reader'.at = "act" => /\ reader'.todo \in (IF reader'.last THEN LastShapes ELSE ItemShapes)
                              /\ reader'.todo # <<"stop">> => synth'.begun
    BY <1>6, <2>2, ReadCases DEF Becomes, LastShapes, ItemShapes
  <2>4. /\ reader'.at = "read" => reader'.todo = <<>> /\ ~reader'.last
        /\ reader'.at # "stopping" /\ (reader'.at = "done" => reader'.todo = <<>>)
    BY <1>6, <2>2, ReadCases DEF Becomes
  <2> QED BY <2>1, <2>3, <2>4 DEF Reading
<1>7. CASE OpDone /\ synth' = synth /\ reader.at = "act"
  <2>1. ASSUME endQueued' PROVE ActEndQueued
    BY <1>2, <1>7, <2>1, EndQueuedSteps
  <2>2. ActEndQueued => Head(reader.todo) = "endQueued"
    BY DEF ActEndQueued, Doing
  <2>3. reader.todo # <<"stop">> => synth.begun
    BY <1>7 DEF Reading
  <2>4. reader'.at = "act" => /\ reader'.todo \in (IF reader'.last THEN LastShapes ELSE ItemShapes)
                              /\ reader.todo # <<"stop">>
    <3>1. reader'.at = "act" => /\ reader'.todo \in (IF reader'.last THEN LastShapes ELSE ItemShapes)
                                /\ Head(reader.todo) \in {"SD_MARK", "pause", "END"}
                                /\ \E a, b : reader.todo = <<a, b>>
      BY <1>7, DoneCases DEF Becomes, LastShapes, ItemShapes
    <3> QED BY <3>1, Lists
  <2>5. /\ reader'.at = "read" => reader'.todo = <<>> /\ ~reader'.last
        /\ reader'.at # "stopping" /\ (reader'.at = "done" => reader'.todo = <<>>)
    BY <1>7, DoneCases DEF Becomes
  <2>6. Head(reader.todo) = "endQueued" => reader'.at = "done" /\ reader.todo # <<"stop">>
    BY <1>7, DoneCases, Lists DEF Becomes
  <2> QED BY <1>7, <2>1, <2>2, <2>3, <2>4, <2>5, <2>6 DEF Reading
<1>8. CASE ActStop
  <2>1. ~endQueued' /\ synth' = synth
    BY <1>2, <1>8, StopShape DEF ActStop, outFlags, readerElse, readerOthers
  <2> QED BY <1>8, <2>1, StopShape DEF Becomes, Reading
<1>9. CASE ActStopReturns
  <2>1. Becomes("done", <<>>, TRUE) /\ reader.at = "stopping"
    BY <1>9 DEF ActStopReturns, Reading, Reader, Becomes, Typed, ReaderTypes
  <2>2. ~endQueued'
    BY <1>2, <1>9, <2>1 DEF ActStopReturns, outFlags
  <2> QED BY <2>1, <2>2 DEF Becomes, Reading
<1> QED BY <1>3, <1>4, <1>5, <1>6, <1>7, <1>8, <1>9, ReaderSteps, NotBroken

(* A silent speak() thread leaves nothing under way.                       *)
LEMMA SentFresh ==
  ASSUME Single, SpeakSent
  PROVE  /\ state = "IDLE" /\ play.at \in {"top", "sleep"} /\ ~Stopping /\ ~stopRequested'
         /\ state' = "BEFORE_SYNTH" /\ pauseState' = "OFF" /\ ~flushRequested'
         /\ UNCHANGED <<closeRequested, queue, play, sop>>
PROOF
<1>1. state = "IDLE" /\ play.at \in {"top", "sleep"} /\ ~Stopping
  BY DEF SpeakSent, Single, Over
<1>2. PICK ok \in BOOLEAN : BeforeSynth(ok)
  BY DEF SpeakSent
<1> QED BY <1>1, <1>2 DEF BeforeSynth

LEMMA RequestedKept ==
  ASSUME Typed, Typed', CleanInv, Clean', [Next]_vars
  PROVE  Requested'
PROOF
<1>0. Requested /\ Stages /\ Single /\ Reading
  BY DEF CleanInv
<1>1. CASE PlaySteps
  <2>1. /\ UNCHANGED <<stopAsked, pauseAsked, synth, control, asked, reader, speaker, sop>>
        /\ pauseState' \in {pauseState, "OFF"} \/ (pauseState = "REQUESTED" /\ pauseState' = "MARK_REPORTED")
        /\ stopRequested' = stopRequested \/ pauseState' = "MARK_REPORTED"
    BY <1>1 DEF PlaySteps, PlayWorks, PlayThread, PlayTop, PlayWakes, PlayPopStopped,
                PlayPopWaits, PlayPop, PlaySound, PlayBegin, PlayPauses, PlayPassesMark,
                PlayEnd, PausesHere, PlayDrops, PlayLooks, PlayAppends, PlayTold, outVars,
                outFlags, threads, flags, history
  <2>2. pauseState' = "OFF" /\ pauseState # "OFF" => ~stopRequested
    BY <1>1 DEF PlaySteps, PlayWorks, PlayThread, PlayTop, PlayWakes, PlayPopStopped,
                PlayPopWaits, PlayPop, PlaySound, PlayBegin, PlayPauses, PlayPassesMark,
                PlayEnd, PlayDrops, PlayLooks, PlayAppends, PlayTold, outVars, flags
  <2> QED BY <1>0, <2>1, <2>2 DEF Requested
<1>2. CASE SopSteps
  <2>1. UNCHANGED <<stopAsked, pauseAsked, synth, control, asked, reader, speaker>>
    BY <1>2 DEF SopSteps, SopWorks, SopDrops, SopLooks, SopAppends, outVars,
                outFlags, threads, history
  <2>2. CASE SopResets
    BY <1>0, <2>1, <2>2 DEF SopResets, Requested, Stages, StopStages
  <2>3. CASE SopSteps /\ ~SopResets
    <3>1. UNCHANGED <<pauseState, stopRequested>>
      BY <2>3 DEF SopSteps, SopWorks, SopDrops, SopLooks, SopAppends, SopThread, SopTop, SopWakes,
                  SopIdles, SopSees, SopClears, SopTold, flags
    <3>2. /\ sop' \in {"tellPause", "appendPause"} => sop \in {"tellPause", "appendPause"}
          /\ sop' \in {"tellStop", "appendStop"} => sop \in {"tellStop", "appendStop"}
      BY <2>3 DEF SopSteps, SopWorks, SopDrops, SopLooks, SopAppends, SopThread, SopTop, SopWakes,
                  SopIdles, SopSees, SopClears, SopTold
    <3> QED BY <1>0, <2>1, <3>1, <3>2 DEF Requested
  <2> QED BY <1>2, <2>2, <2>3
<1>3. CASE SpeakSent
  <2>1. /\ ~stopAsked' /\ ~pauseAsked' /\ synth'.told = {} /\ control' = control
        /\ speaker' = "listen" /\ reader'.todo = <<>> /\ control = "free"
    BY <1>0, <1>3 DEF SpeakSent, Silent, Requested
  <2>2. ~stopRequested' /\ pauseState' = "OFF" /\ sop' \notin TellSop
    BY <1>0, <1>3, SentFresh DEF Stopping
  <2> QED BY <2>1, <2>2, Lists DEF Requested, TellSop
<1>4. CASE TakeEvent \/ Joined \/ SpeakRefused \/ \E m \in Modules : SpeakBegins(m)
  <2>1. UNCHANGED <<stopAsked, pauseAsked, synth, control, asked, reader, pauseState, sop, stopRequested>>
        \/ spoilt'
    BY <1>4 DEF TakeEvent, Joined, SpeakRefused, SpeakBegins, queueVars, flags, outFlags, history
  <2>2. speaker' = "sending" => control = "free"
    BY <1>0, <1>4 DEF TakeEvent, Joined, SpeakRefused, SpeakBegins, Requested
  <2> QED BY <1>0, <2>1, <2>2 DEF Requested, Clean
<1>5. CASE ControlSteps
  <2>1. CASE StopReturns \/ OutputStopFlushes \/ QuitDone
    BY <1>0, <2>1 DEF StopReturns, OutputStopFlushes, QuitDone, Flush,
                    Requested, queueVars, flags, outFlags, controlElse, history
  <2>2. CASE OutputTells
    <3>1. /\ synth'.told \subseteq asked /\ control' = "free"
          /\ UNCHANGED <<queueVars, outFlags, asked, controlElse>>
      BY <1>0, <2>2 DEF OutputTells, Requested, Typed, ReaderTypes
    <3> QED BY <1>0, <3>1 DEF Requested, queueVars, flags, outFlags, controlElse
  <2> QED BY <1>5, <2>1, <2>2 DEF ControlSteps
<1>6. CASE Requests
  <2>1. speaker' = speaker /\ speaker # "sending" /\ UNCHANGED <<synth, reader, sop>> /\ asked \subseteq asked'
    BY <1>6 DEF Requests, OutputStop, OutputStopDirectly, OutputPause, OutputPauseDirectly,
              MayAsk, StopAndWait, Pause, queueVars, controlElse
  <2>2. CASE OutputStop
    BY <1>0, <2>1, <2>2 DEF OutputStop, MayAsk, Requested, queueVars, flags
  <2>3. CASE OutputStopDirectly
    BY <1>0, <2>1, <2>3 DEF OutputStopDirectly, MayAsk, StopAndWait, Requested, queueVars, flags, outFlags
  <2>4. CASE OutputPause
    BY <1>0, <2>1, <2>4 DEF OutputPause, MayAsk, Requested, queueVars, flags
  <2>5. CASE OutputPauseDirectly
    BY <1>0, <2>1, <2>5 DEF OutputPauseDirectly, MayAsk, Pause, Requested, queueVars, flags, outFlags
  <2> QED BY <1>6, <2>2, <2>3, <2>4, <2>5 DEF Requests
<1>7. CASE Quit
  BY <1>7 DEF Quit, Clean
<1>8. CASE OutputThread
  <2>1. UNCHANGED <<stopAsked, pauseAsked, control, asked, speaker, sop>>
    BY <1>8 DEF OutputThread, ReadEvent, ActQueue, ActAudio, ActStop, ActStopReturns,
                ActEndQueued, ActPauseAtMark, ActBroken, BeforePlay, Push, Pause, AddAudio,
                WaitForRoom, StopAndWait, queueVars, outFlags, readerOthers, readerElse
  <2>2. CASE ReadEvent
    <3>1. UNCHANGED <<pauseState, stopRequested>> /\ ~spoilt'
      BY <2>2 DEF ReadEvent, queueVars, flags, Clean
    <3>2. /\ synth'.told = synth.told
          /\ reader'.todo = <<"stop">> => "stop" \in synth.told \/ stopAsked
          /\ reader'.todo = <<"pause", "END">> => "pause" \in synth.told \/ pauseAsked
      BY <2>2, <3>1, ReadCases, Distinct DEF Becomes
    <3> QED BY <1>0, <2>1, <3>1, <3>2 DEF Requested
  <2>3. CASE /\ reader.at = "act" /\ OpDone /\ synth' = synth
             /\ ActQueue \/ (ActAudio /\ AddAudio(utt)) \/ ActEndQueued \/ ActPauseAtMark
    <3>1. reader'.todo # <<"stop">> /\ reader'.todo # <<"pause", "END">>
      BY <1>0, <2>3, DoneCases, Distinct DEF Becomes
    <3>2. /\ stopRequested' = stopRequested
          /\ pauseState' = pauseState \/ "pause" \in asked
      <4>1. CASE ActQueue
        <5>1. Doing({"pause"}) => reader.todo = <<"pause", "END">>
          BY <1>0, <2>3, DoneCases DEF Doing
        <5> QED BY <1>0, <4>1, <5>1 DEF ActQueue, BeforePlay, Push, Pause, queueVars, flags, Requested
      <4>2. CASE ActPauseAtMark
        BY <1>0, <4>2 DEF ActPauseAtMark, Pause, queueVars, flags, Requested
      <4>3. CASE (ActAudio /\ AddAudio(utt)) \/ ActEndQueued
        BY <4>3 DEF ActEndQueued, AddAudio, Push, queueVars, flags
      <4> QED BY <2>3, <4>1, <4>2, <4>3
    <3>3. pauseState' # "OFF" => "pause" \in asked
      BY <1>0, <3>2 DEF Requested
    <3>4. stopRequested' /\ pauseState' # "MARK_REPORTED" => "stop" \in asked
      <4>1. pauseState = "MARK_REPORTED" => pauseState' = "MARK_REPORTED"
        BY <1>8 DEF OutputThread, ReadEvent, ActQueue, ActAudio, ActStop, ActStopReturns,
                ActEndQueued, ActPauseAtMark, ActBroken, BeforePlay, Push, Pause, AddAudio,
                WaitForRoom, StopAndWait, queueVars, flags
      <4> QED BY <1>0, <3>2, <4>1 DEF Requested
    <3> QED BY <1>0, <2>1, <2>3, <3>1, <3>2, <3>3, <3>4 DEF Requested
  <2>4. CASE ActStop
    <3>1. "stop" \in asked /\ pauseState' = pauseState /\ synth' = synth /\ reader'.todo = <<>>
      BY <1>0, <2>4, StopShape DEF Becomes, Requested, ActStop, StopAndWait, readerElse, readerOthers
    <3> QED BY <1>0, <2>1, <3>1, Lists DEF Requested
  <2>5. CASE ActStopReturns /\ Becomes("done", <<>>, TRUE)
    <3>1. UNCHANGED <<synth, pauseState, stopRequested>> /\ reader'.todo = <<>>
      BY <2>5 DEF ActStopReturns, Becomes, queueVars, flags, readerElse, readerOthers
    <3> QED BY <1>0, <2>1, <3>1, Distinct DEF Requested
  <2>6. CASE ActAudio /\ WaitForRoom("reader") /\ UNCHANGED <<reader, synth>>
    BY <1>0, <2>1, <2>6 DEF WaitForRoom, flags, Requested
  <2> QED BY <1>0, <1>8, <2>2, <2>3, <2>4, <2>5, <2>6, OutputSteps
<1>9. CASE UNCHANGED vars
  BY <1>0, <1>9 DEF vars, queueVars, flags, outVars, outFlags, threads, history, Requested
<1> QED BY <1>1, <1>2, <1>3, <1>4, <1>5, <1>6, <1>7, <1>8, <1>9 DEF Next, SpeakerSteps

-----------------------------------------------------------------------------
(* The stages of a message.                                                *)

LEMMA AliveKept ==
  ASSUME Typed, CleanInv, Clean', [Next]_vars
  PROVE  Alive'
PROOF
<1>0. ~closeRequested /\ play.at # "gone" /\ sop # "gone" /\ control \notin {"quitting", "gone"}
  BY DEF CleanInv, Stages, Alive
<1> USE DEF Alive
<1>1. CASE PlaySteps
  <2>1. UNCHANGED <<closeRequested, sop, control>>
    BY <1>1 DEF PlaySteps, PlayWorks, PlayThread, PlayTop, PlayWakes, PlayPopStopped,
                PlayPopWaits, PlayPop, PlaySound, PlayBegin, PlayPauses, PlayPassesMark,
                PlayEnd, PlayDrops, PlayLooks, PlayAppends, PlayTold, outVars, threads, flags
  <2>2. \A at : at # "gone" /\ PlayGoes(at) => play'.at # "gone"
    BY DEF PlayGoes
  <2>3. CASE PlayTop \/ PlayPop
    BY <1>0, <2>1, <2>3 DEF PlayTop, PlayPop
  <2>4. CASE PlayWakes \/ PlayPopStopped \/ PlayPopWaits \/ PlaySound
    BY <1>0, <2>1, <2>2, <2>4 DEF PlayWakes, PlayPopStopped, PlayPopWaits, PlaySound
  <2>5. CASE PlayBegin \/ PlayEnd \/ PlayPauses \/ PlayPassesMark
    <3>1. PlayGoes("tell") \/ PlayGoes("pop") \/ PlayGoes("top")
      BY <2>5 DEF PlayBegin, PlayEnd, PlayPauses, PlayPassesMark
    <3> QED BY <1>0, <2>1, <2>2, <3>1
  <2>6. CASE PlayDrops \/ PlayLooks \/ PlayAppends
    <3>1. PlayGoes("append") \/ PlayGoes("pop") \/ PlayGoes("top") \/ PlayGoes("told")
      BY <2>6 DEF PlayDrops, PlayLooks, PlayAppends, PlayTold
    <3> QED BY <1>0, <2>1, <2>2, <3>1
  <2> QED BY <1>1, <2>3, <2>4, <2>5, <2>6 DEF PlaySteps, PlayWorks, PlayThread
<1>2. CASE SopSteps
  BY <1>0, <1>2 DEF SopSteps, SopWorks, SopDrops, SopLooks, SopAppends, SopThread, SopTop, SopWakes,
                  SopIdles, SopSees, SopClears, SopResets, SopTold, flags, outVars, threads
<1>3. CASE SpeakerSteps \/ \E m \in Modules : SpeakBegins(m)
  BY <1>0, <1>3 DEF SpeakerSteps, SpeakSent, SpeakRefused, TakeEvent, Joined, SpeakBegins,
                    BeforeSynth, queueVars, flags
<1>4. CASE ControlSteps \/ Requests
  BY <1>0, <1>4 DEF ControlSteps, StopReturns, OutputStopFlushes, OutputTells, QuitDone, Flush,
              Requests, OutputStop, OutputStopDirectly, OutputPause, OutputPauseDirectly,
              StopAndWait, Pause, queueVars, flags
<1>5. CASE Quit
  BY <1>5 DEF Quit, Clean
<1>6. CASE OutputThread
  <2>1. control' = control
    BY <1>6 DEF OutputThread, ReadEvent, ActQueue, ActAudio, ActStop, ActStopReturns,
                ActEndQueued, ActPauseAtMark, ActBroken, readerElse, readerOthers
  <2>2. UNCHANGED <<closeRequested, play, sop>>
    BY <1>6 DEF OutputThread, ReadEvent, ActQueue, ActAudio, ActStop, ActStopReturns,
                ActEndQueued, ActPauseAtMark, ActBroken, BeforePlay, Push, Pause, AddAudio,
                WaitForRoom, StopAndWait, queueVars, flags
  <2> QED BY <1>0, <2>1, <2>2
<1>7. CASE UNCHANGED vars
  BY <1>0, <1>7 DEF vars, queueVars, flags, outVars, threads
<1> QED BY <1>1, <1>2, <1>3, <1>4, <1>5, <1>6, <1>7 DEF Next

(* END of the message is pushed last, so that nothing follows it.          *)
LEMMA EndDrains ==
  ASSUME Typed, CleanInv, HasEnd
  PROVE  Drained
PROOF
<1>1. reader.at \in {"done", "stopping"} \/ reader.todo = <<"endQueued">>
  BY DEF CleanInv, Queued
<1>2. CASE reader.at = "act"
  <2>1. reader.todo = <<"endQueued">>
    BY <1>1, <1>2
  <2>2. <<"endQueued">> \notin ItemShapes
    BY Distinct DEF ItemShapes
  <2> QED BY <1>2, <2>1, <2>2 DEF CleanInv, Reading, Drained
<1>3. CASE reader.at # "act"
  <2>1. reader.at = "read" => reader.todo # <<"endQueued">>
    BY Lists DEF CleanInv, Reading
  <2> QED BY <1>1, <1>3, <2>1 DEF CleanInv, Reading, Drained, Typed, ReaderTypes
<1> QED BY <1>2, <1>3

(* What ends a message by being played is its END.                         *)
LEMMA EndIsOwn ==
  ASSUME CleanInv, PlayEnd, state = "SPEAKING"
  PROVE  HasEnd /\ OwnEnd(play.entry) /\ queue = <<>>
PROOF
  BY DEF CleanInv, Playing, PlayEnd, Got, OwnPart, OwnEnd, HasEnd

LEMMA DrainsKept ==
  ASSUME Typed, Typed', CleanInv, Clean', [Next]_vars
  PROVE  Drains'
PROOF
<1>0. Reading /\ Stages /\ Single /\ Drains
  BY DEF CleanInv, Stages
<1>1. CASE PlaySteps
  <2>1. UNCHANGED <<reader, synth, stopAsked, pauseAsked, pauseQueued>>
    BY <1>1 DEF PlaySteps, PlayWorks, PlayDrops, PlayLooks, PlayAppends, outVars, threads, outFlags
  <2>2. CASE PlayEnd /\ state = "SPEAKING"
    BY <2>1, <2>2, EndIsOwn, EndDrains DEF Drains, Drained, Discards
  <2>3. CASE ~(PlayEnd /\ state = "SPEAKING")
    <3>1. /\ state' = "IDLE" => state = "IDLE"
          /\ pauseState' # "OFF" => pauseState # "OFF"
          /\ stopRequested' => stopRequested \/ pauseState # "OFF"
      <4>1. PlayPauses => /\ state' = state /\ pauseState # "OFF"
        BY DEF PlayPauses, PausesHere
      <4>2. PlayBegin => UNCHANGED <<pauseState, stopRequested>> /\ state' \in {state, "SPEAKING"}
        BY DEF PlayBegin
      <4>3. PlayEnd => UNCHANGED <<state, pauseState, stopRequested>>
        BY <2>3 DEF PlayEnd
      <4>4. PlaySteps /\ ~PlayPauses /\ ~PlayBegin /\ ~PlayEnd => UNCHANGED flags
        BY DEF PlaySteps, PlayWorks, PlayThread, PlayTop, PlayWakes, PlayPopStopped, PlayPopWaits,
               PlayPop, PlaySound, PlayPassesMark, PlayDrops, PlayLooks, PlayAppends, PlayTold
      <4> QED BY <1>1, <4>1, <4>2, <4>3, <4>4 DEF flags
    <3> QED BY <1>0, <2>1, <3>1 DEF Drains, Drained, Discards
  <2> QED BY <2>2, <2>3
<1>2. CASE SopSteps
  <2>1. UNCHANGED <<reader, synth, stopAsked, pauseAsked, pauseQueued>>
    BY <1>2 DEF SopSteps, SopWorks, SopDrops, SopLooks, SopAppends, outVars, threads, outFlags
  <2>2. /\ state' = "IDLE" => state = "IDLE" \/ sop \in {"awake", "reset"}
        /\ pauseState' # "OFF" => pauseState # "OFF"
        /\ stopRequested' => stopRequested
    BY <1>2 DEF SopSteps, SopWorks, SopDrops, SopLooks, SopAppends, SopThread, SopTop, SopWakes,
                  SopIdles, SopSees, SopClears, SopResets, SopTold, flags
  <2> QED BY <1>0, <2>1, <2>2 DEF Drains, Drained, Discards, Stages, StopStages
<1>3. CASE SpeakSent
  BY <1>0, <1>3, SentFresh DEF Drains
<1>4. CASE TakeEvent \/ Joined \/ SpeakRefused \/ \E m \in Modules : SpeakBegins(m)
  <2>1. UNCHANGED <<reader, synth, outFlags, flags>> \/ spoilt'
    BY <1>4 DEF TakeEvent, Joined, SpeakRefused, SpeakBegins, queueVars
  <2> QED BY <1>0, <2>1 DEF Drains, Drained, Discards, flags, outFlags, Clean
<1>5. CASE ControlSteps
  <2>1. UNCHANGED <<reader, outFlags, state, pauseState, stopRequested>> /\ synth'.begun = synth.begun
    BY <1>5 DEF ControlSteps, StopReturns, OutputStopFlushes, OutputTells, QuitDone, Flush,
                queueVars, flags, controlElse, Typed, ReaderTypes
  <2> QED BY <1>0, <2>1 DEF Drains, Drained, Discards, outFlags
<1>6. CASE Requests
  <2>1. /\ UNCHANGED <<reader, synth, state, pauseQueued>>
        /\ (stopAsked => stopAsked') /\ (pauseAsked => pauseAsked')
    BY <1>6 DEF Requests, OutputStop, OutputStopDirectly, OutputPause, OutputPauseDirectly,
                StopAndWait, Pause, queueVars, flags, controlElse, outFlags
  <2>2. endQueued => Drained
    BY <1>0 DEF Reading, Drained
  <2>3. endQueued \/ UNCHANGED <<pauseState, stopRequested>>
    BY <1>6 DEF Requests, OutputStop, OutputStopDirectly, OutputPause, OutputPauseDirectly,
                StopsDirectly, queueVars, flags
  <2>4. Drained => Drained'
    BY <2>1 DEF Drained, Discards
  <2> QED BY <1>0, <2>1, <2>2, <2>3, <2>4 DEF Drains
<1>7. CASE Quit
  BY <1>7 DEF Quit, Clean
<1>8. CASE OutputThread
  <2>1. CASE ReadEvent
    <3>1. UNCHANGED <<flags, outFlags>> /\ ~spoilt'
      BY <2>1 DEF ReadEvent, queueVars, Clean
    <3>2. reader.at = "read" /\ ~reader.last
      BY <1>0, <2>1 DEF ReadEvent, Reading
    <3>3. Drained => Drained'
      BY <2>1, <3>1, <3>2, ReadCases DEF Drained, Discards, Becomes, outFlags
    <3> QED BY <1>0, <3>1, <3>3 DEF Drains, flags
  <2>2. CASE ActStop
    BY <1>0, <2>2, StopShape DEF Drains, Drained, Becomes
  <2>3. CASE ActStopReturns /\ Becomes("done", <<>>, TRUE)
    BY <2>3 DEF Drains, Drained, Becomes
  <2>4. CASE ActAudio /\ WaitForRoom("reader") /\ UNCHANGED <<reader, synth>>
    BY <1>0, <2>4 DEF Drains, Drained, Discards, WaitForRoom, flags, ActAudio, outFlags
  <2>5. CASE /\ reader.at = "act" /\ OpDone /\ synth' = synth
             /\ ActQueue \/ (ActAudio /\ AddAudio(utt)) \/ ActEndQueued \/ ActPauseAtMark
    <3>1. Drained <=> reader.last
      BY <2>5 DEF Drained
    <3>2. CASE reader.last
      <4>1. reader'.last
        BY <1>0, <2>5, <3>2, DoneCases DEF Becomes
      <4> QED BY <4>1 DEF Drains, Drained
    <3>3. CASE ~reader.last
      <4>1. state # "IDLE" /\ ~stopRequested /\ pauseState = "OFF"
        BY <1>0, <3>1, <3>3 DEF Drains
      <4>2. Head(reader.todo) \notin {"pause", "stop", "endQueued"}
        BY <1>0, <2>5, <3>3, DoneCases
      <4>3. CASE ActPauseAtMark
        <5>1. Head(reader.todo) = "pauseAtMark"
          BY <4>3 DEF ActPauseAtMark, Doing
        <5>2. reader'.at = "read" /\ synth.begun
          BY <1>0, <2>5, <3>3, <5>1, DoneCases, Distinct DEF Becomes, Reading
        <5>3. CASE pauseAsked
          BY <2>5, <4>3, <5>2, <5>3 DEF ActPauseAtMark, Drains, Drained, Discards
        <5>4. CASE ~pauseAsked
          BY <4>1, <4>3, <5>4 DEF ActPauseAtMark, queueVars, flags, Drains
        <5> QED BY <5>3, <5>4
      <4>4. CASE ActQueue \/ (ActAudio /\ AddAudio(utt)) \/ ActEndQueued
        <5>1. state' # "IDLE" /\ ~stopRequested' /\ pauseState' = "OFF"
          BY <4>1, <4>2, <4>4 DEF ActQueue, AddAudio, ActEndQueued, BeforePlay, Push, Pause,
               Doing, queueVars, flags
        <5> QED BY <5>1 DEF Drains
      <4> QED BY <2>5, <4>3, <4>4
    <3> QED BY <3>2, <3>3
  <2> QED BY <1>0, <1>8, <2>1, <2>2, <2>3, <2>4, <2>5, OutputSteps
<1>9. CASE UNCHANGED vars
  BY <1>0, <1>9 DEF vars, queueVars, flags, outVars, outFlags, threads, Drains, Drained, Discards
<1> QED BY <1>1, <1>2, <1>3, <1>4, <1>5, <1>6, <1>7, <1>8, <1>9 DEF Next, SpeakerSteps

LEMMA SynthesizedKept ==
  ASSUME Typed, Typed', CleanInv, Clean', [Next]_vars
  PROVE  Synthesized'
PROOF
<1>0. Reading /\ Synthesized /\ Drains
  BY DEF CleanInv, Stages
<1>1. CASE PlaySteps
  <2>1. UNCHANGED <<reader, synth>>
    BY <1>1 DEF PlaySteps, PlayWorks, PlayDrops, PlayLooks, PlayAppends, outVars, threads
  <2>2. \/ state' = state
        \/ state' = "SPEAKING" /\ state = "BEFORE_PLAY"
        \/ state' = "IDLE" /\ state = "SPEAKING"
    BY <1>1 DEF PlaySteps, PlayWorks, PlayThread, PlayTop, PlayWakes, PlayPopStopped, PlayPopWaits,
            PlayPop, PlaySound, PlayPassesMark, PlayPauses, PlayBegin, PlayEnd, AfterEnd, PlayDrops,
            PlayLooks, PlayAppends, PlayTold, flags
  <2> QED BY <1>0, <2>1, <2>2 DEF Synthesized
<1>2. CASE SopSteps
  <2>1. UNCHANGED <<reader, synth>>
    BY <1>2 DEF SopSteps, SopWorks, SopDrops, SopLooks, SopAppends, outVars, threads
  <2>2. \/ state' = state
        \/ state' = "IDLE" /\ stopRequested
    BY <1>2 DEF SopSteps, SopWorks, SopDrops, SopLooks, SopAppends, SopThread, SopTop, SopWakes,
                  SopIdles, SopSees, SopClears, SopResets, SopTold, flags, CleanInv, Stages, StopStages
  <2>3. stopRequested => reader.todo # <<"beforePlay">>
    BY <1>0, Distinct DEF Drains, Drained, Reading, LastShapes, Typed, ReaderTypes
  <2> QED BY <1>0, <2>1, <2>2, <2>3 DEF Synthesized
<1>3. CASE SpeakSent
  <2>1. state' = "BEFORE_SYNTH" /\ ~synth'.begun /\ reader'.todo = <<>>
    BY <1>3, SentFresh DEF CleanInv, SpeakSent, Silent
  <2> QED BY <2>1, Distinct DEF Synthesized
<1>4. CASE TakeEvent \/ Joined \/ SpeakRefused \/ \E m \in Modules : SpeakBegins(m)
  <2>1. UNCHANGED <<reader, synth, state>> \/ spoilt'
    BY <1>4 DEF TakeEvent, Joined, SpeakRefused, SpeakBegins, queueVars, flags
  <2> QED BY <1>0, <2>1 DEF Synthesized, Clean
<1>5. CASE ControlSteps
  <2>1. UNCHANGED <<reader, state>> /\ synth'.begun = synth.begun
    BY <1>5 DEF ControlSteps, StopReturns, OutputStopFlushes, OutputTells, QuitDone, Flush,
                queueVars, flags, controlElse, Typed, ReaderTypes
  <2> QED BY <1>0, <2>1 DEF Synthesized
<1>6. CASE Requests
  <2>1. UNCHANGED <<reader, synth, state>>
    BY <1>6 DEF Requests, OutputStop, OutputStopDirectly, OutputPause, OutputPauseDirectly,
                StopAndWait, Pause, queueVars, flags, controlElse
  <2> QED BY <1>0, <2>1 DEF Synthesized
<1>7. CASE Quit
  BY <1>7 DEF Quit, Clean
<1>8. CASE OutputThread
  <2>1. CASE ReadEvent
    <3>1. state' = state /\ ~spoilt' /\ reader.at = "read"
      BY <2>1 DEF ReadEvent, queueVars, flags, Clean
    <3>2. state = "IDLE" => synth.begun
      BY <1>0, <3>1 DEF Drains, Drained, Reading
    <3>3. state = "BEFORE_SYNTH" => ~synth.begun
      BY <1>0, <3>1, Distinct DEF Synthesized, Reading
    <3>4. reader'.todo = <<"beforePlay">> => ~synth.begun /\ synth'.begun
      BY <2>1, <3>1, ReadCases, Distinct DEF Becomes
    <3>5. /\ synth.begun => synth'.begun
          /\ synth'.begun /\ ~synth.begun => reader'.todo = <<"beforePlay">>
      BY <2>1, <3>1, ReadCases DEF Becomes
    <3>6. state \in {"IDLE", "BEFORE_SYNTH", "BEFORE_PLAY", "SPEAKING"}
      BY DEF Typed, PlainTypes
    <3> QED BY <1>0, <3>1, <3>2, <3>3, <3>4, <3>5, <3>6 DEF Synthesized
  <2>2. CASE ActStop
    <3>1. synth' = synth /\ state' = state /\ reader.todo = <<"stop">> /\ reader'.todo = <<>>
      BY <1>0, <2>2, StopShape DEF Becomes, ActStop, StopAndWait, readerElse, readerOthers
    <3> QED BY <1>0, <3>1, Distinct DEF Synthesized
  <2>3. CASE ActStopReturns /\ Becomes("done", <<>>, TRUE)
    <3>1. synth' = synth /\ state' = state /\ reader.todo = <<>> /\ reader'.todo = <<>>
      BY <1>0, <2>3 DEF Becomes, ActStopReturns, Reading, readerElse, readerOthers, queueVars, flags
    <3> QED BY <1>0, <3>1, Distinct DEF Synthesized
  <2>4. CASE ActAudio /\ WaitForRoom("reader") /\ UNCHANGED <<reader, synth>>
    BY <1>0, <2>4 DEF WaitForRoom, flags, Synthesized
  <2>5. CASE /\ reader.at = "act" /\ OpDone /\ synth' = synth
             /\ ActQueue \/ (ActAudio /\ AddAudio(utt)) \/ ActEndQueued \/ ActPauseAtMark
    <3>1. reader'.todo # <<"beforePlay">>
      BY <1>0, <2>5, DoneCases, Distinct DEF Becomes
    <3>2. reader.todo = <<"beforePlay">> <=> Head(reader.todo) = "beforePlay"
      BY <1>0, <2>5, DoneCases, Distinct
    <3>3. CASE Head(reader.todo) = "beforePlay"
      <4>1. state = "BEFORE_SYNTH" /\ synth.begun
        BY <1>0, <3>2, <3>3 DEF Synthesized
      <4>2. state' = "BEFORE_PLAY"
        BY <2>5, <3>3, <4>1 DEF ActQueue, ActAudio, ActEndQueued, ActPauseAtMark, Doing, BeforePlay
      <4> QED BY <2>5, <3>1, <4>1, <4>2 DEF Synthesized
    <3>4. CASE Head(reader.todo) # "beforePlay"
      <4>1. state' = state
        BY <2>5, <3>4 DEF ActQueue, AddAudio, ActEndQueued, ActPauseAtMark, Push, Pause, Doing,
             queueVars, flags
      <4> QED BY <1>0, <2>5, <3>1, <3>2, <3>4, <4>1 DEF Synthesized
    <3> QED BY <3>3, <3>4
  <2> QED BY <1>0, <1>8, <2>1, <2>2, <2>3, <2>4, <2>5, OutputSteps
<1>9. CASE UNCHANGED vars
  BY <1>0, <1>9 DEF vars, queueVars, flags, outVars, threads, Synthesized
<1> QED BY <1>1, <1>2, <1>3, <1>4, <1>5, <1>6, <1>7, <1>8, <1>9 DEF Next, SpeakerSteps

LEMMA StopStagesKept ==
  ASSUME Typed, Typed', CleanInv, Clean', [Next]_vars
  PROVE  StopStages'
PROOF
<1>0. Reading /\ StopStages /\ Drains /\ Alive /\ Single
  BY DEF CleanInv, Stages
<1>1. CASE PlaySteps
  <2>1. sop' = sop /\ utt' = utt
    BY <1>1 DEF PlaySteps, PlayWorks, PlayThread, PlayTop, PlayWakes, PlayPopStopped,
                PlayPopWaits, PlayPop, PlaySound, PlayBegin, PlayPauses, PlayPassesMark,
                PlayEnd, PlayDrops, PlayLooks, PlayAppends, PlayTold, outVars
  <2>2. CASE PlayPauses /\ PlayWorks
    <3>1. /\ stopRequested' /\ sop = "sleep" /\ state' = state /\ stopFor' = utt
      BY <2>2 DEF PlayPauses, PausesHere, PlayWorks
    <3> QED BY <2>1, <3>1 DEF StopStages, Stopping, TellSop
  <2>3. CASE PlaySteps /\ ~PlayPauses
    <3>0. stopRequested' = stopRequested
      BY <2>3 DEF PlaySteps, PlayWorks, PlayThread, PlayTop, PlayWakes, PlayPopStopped,
                PlayPopWaits, PlayPop, PlaySound, PlayBegin, PlayPassesMark,
                PlayEnd, PlayDrops, PlayLooks, PlayAppends, PlayTold, flags
    <3>1. stopFor' = stopFor \/ (stopRequested /\ stopFor' = utt)
      BY <2>3, <3>0 DEF PlaySteps, PlayWorks, PlayDrops, PlayLooks, PlayAppends, outVars, history
    <3>2. /\ state = "IDLE" => state' = "IDLE"
          /\ pauseState' = "MARK_REPORTED" => pauseState = "MARK_REPORTED"
      BY <2>3 DEF PlaySteps, PlayWorks, PlayThread, PlayTop, PlayWakes, PlayPopStopped,
                PlayPopWaits, PlayPop, PlaySound, PlayBegin, PlayPassesMark,
                PlayEnd, AfterEnd, PlayDrops, PlayLooks, PlayAppends, PlayTold, flags
    <3>3. state = "IDLE" /\ play.at = "sleep" => play' = play
      BY <1>0, <2>3 DEF Alive, PlaySteps, PlayWorks, PlayThread, PlayTop, PlayWakes, PlayPopStopped,
                PlayPopWaits, PlayPop, PlaySound, PlayBegin, PlayPassesMark, Playable, Got,
                PlayEnd, PlayDrops, PlayLooks, PlayAppends, PlayTold
    <3> QED BY <1>0, <2>1, <3>0, <3>1, <3>2, <3>3 DEF StopStages, Stopping
  <2> QED BY <1>1, <2>2, <2>3 DEF PlaySteps, PlayDrops, PlayLooks, PlayAppends, PlayTold, PlayPauses
<1>2. CASE SopSteps
  <2>1. UNCHANGED <<play, utt, stopFor>>
    BY <1>2 DEF SopSteps, SopWorks, SopDrops, SopLooks, SopAppends, SopThread, SopTop, SopWakes,
                  SopIdles, SopSees, SopClears, SopResets, SopTold, outVars, history
  <2>2. CASE SopTop \/ SopWakes \/ SopIdles
    BY <1>0, <2>1, <2>2 DEF SopTop, SopWakes, SopIdles, flags, Alive, StopStages, Stopping, TellSop
  <2>3. CASE SopSees \/ SopClears \/ SopResets
    BY <1>0, <2>1, <2>3 DEF SopSees, SopClears, SopMayClear, PlaySleeping, SopResets, flags, Alive, StopStages,
                            Stopping, TellSop
  <2>4. CASE SopDrops \/ SopLooks \/ SopAppends
    BY <1>0, <2>1, <2>4 DEF SopDrops, SopLooks, SopAppends, SopTold, flags, StopStages, Stopping, TellSop
  <2> QED BY <1>2, <2>2, <2>3, <2>4 DEF SopSteps, SopWorks, SopThread
<1>3. CASE SpeakSent
  <2>1. /\ state' = "BEFORE_SYNTH" /\ pauseState' = "OFF" /\ ~stopRequested' /\ sop' = sop
        /\ ~Stopping
    BY <1>0, <1>3, SentFresh
  <2> QED BY <1>0, <2>1 DEF StopStages, Stopping, TellSop
<1>4. CASE TakeEvent \/ Joined \/ SpeakRefused \/ \E m \in Modules : SpeakBegins(m)
  <2>1. UNCHANGED <<queueVars, stopFor, utt>> \/ spoilt'
    BY <1>4 DEF TakeEvent, Joined, SpeakRefused, SpeakBegins, history
  <2> QED BY <1>0, <2>1 DEF StopStages, Stopping, queueVars, flags, Clean
<1>5. CASE ControlSteps
  <2>1. UNCHANGED <<state, sop, play, stopRequested, pauseState, stopFor, utt>>
    BY <1>5 DEF ControlSteps, StopReturns, OutputStopFlushes, OutputTells, QuitDone, Flush,
                queueVars, flags, controlElse, history
  <2> QED BY <1>0, <2>1 DEF StopStages, Stopping
<1>6. CASE Requests
  <2>1. /\ UNCHANGED <<state, sop, play, utt>>
        /\ \/ UNCHANGED <<stopRequested, stopFor>>
           \/ stopRequested' /\ sop = "sleep" /\ stopFor' = utt
        /\ pauseState' = "MARK_REPORTED" => pauseState = "MARK_REPORTED"
    BY <1>6 DEF Requests, OutputStop, OutputStopDirectly, OutputPause, OutputPauseDirectly,
                StopAndWait, CanStop, Pause, queueVars, flags, controlElse
  <2> QED BY <1>0, <2>1 DEF StopStages, Stopping, TellSop
<1>7. CASE Quit
  BY <1>7 DEF Quit, Clean
<1>8. CASE OutputThread
  <2>1. UNCHANGED <<sop, play, utt>>
    BY <1>8 DEF OutputThread, ReadEvent, ActQueue, ActAudio, ActStop, ActStopReturns,
                ActEndQueued, ActPauseAtMark, ActBroken, BeforePlay, Push, Pause, AddAudio,
                WaitForRoom, StopAndWait, queueVars, flags, readerElse, readerOthers
  <2>2. /\ \/ UNCHANGED <<stopRequested, stopFor>>
           \/ stopRequested' /\ sop = "sleep" /\ stopFor' = utt
        /\ pauseState' = "MARK_REPORTED" => pauseState = "MARK_REPORTED"
        /\ state = "IDLE" => state' = "IDLE"
    BY <1>8 DEF OutputThread, ReadEvent, ActQueue, ActAudio, ActStop, ActStopReturns,
                ActEndQueued, ActPauseAtMark, ActBroken, BeforePlay, Push, Pause, AddAudio,
                WaitForRoom, StopAndWait, CanStop, queueVars, flags
  <2> QED BY <1>0, <2>1, <2>2 DEF StopStages, Stopping, TellSop
<1>9. CASE UNCHANGED vars
  BY <1>0, <1>9 DEF vars, queueVars, flags, outVars, history, StopStages, Stopping
<1> QED BY <1>1, <1>2, <1>3, <1>4, <1>5, <1>6, <1>7, <1>8, <1>9 DEF Next, SpeakerSteps

-----------------------------------------------------------------------------
(* The reports.                                                            *)

Report(type, u) == events' = Append(events, [type |-> type, utt |-> u])

LEMMA Reports ==
  ASSUME Typed, NEW type \in EventType, NEW u \in Nat, Report(type, u)
  PROVE  /\ Len(events') = Len(events) + 1 /\ events' # <<>>
         /\ DOMAIN events' = DOMAIN events \cup {Len(events) + 1}
         /\ DOMAIN events = 1 .. Len(events) /\ Len(events) \in Nat
         /\ \A i \in DOMAIN events : events'[i] = events[i]
         /\ events'[Len(events) + 1] = [type |-> type, utt |-> u]
         /\ Ended' => Ended \/ type \in Terminal
PROOF
<1>1. [type |-> type, utt |-> u] \in Event /\ events \in Seq(Event)
  BY DEF Event, Typed, EventTypes
<1>2. /\ Len(events') = Len(events) + 1 /\ events' # <<>>
      /\ DOMAIN events' = DOMAIN events \cup {Len(events) + 1}
      /\ \A i \in DOMAIN events : events'[i] = events[i]
      /\ events'[Len(events) + 1] = [type |-> type, utt |-> u]
  BY <1>1, SeqAppend DEF Report
<1>3. DOMAIN events = 1 .. Len(events) /\ Len(events) \in Nat
  BY <1>1
<1>4. Ended' => Ended \/ type \in Terminal
  BY <1>2 DEF Ended
<1> QED BY <1>2, <1>3, <1>4

LEMMA PlayReports ==
  ASSUME Typed, PlayAppends
  PROVE  /\ play.at = "append" /\ play.entry.utt \in Nat
         /\ \/ play.entry.type = "BEGIN" /\ play'.at = "pop" /\ Report("begin", play.entry.utt)
            \/ /\ play.entry.type \in {"MARK", "SD_MARK"} /\ play'.at = "told"
               /\ play'.entry = play.entry /\ Report("mark", play.entry.utt)
            \/ play.entry.type = "END" /\ play'.at = "top" /\ Report("end", play.entry.utt)
         /\ UNCHANGED <<flags, queue, sop>>
PROOF
<1>1. /\ play.at = "append" /\ play.entry \in Entry /\ play.entry.type \in Reported
      /\ play.entry.utt \in Nat
  BY DEF PlayAppends, Typed, QueueTypes, Entry
<1>2. Report(ReportName[play.entry.type], play.entry.utt) /\ UNCHANGED <<flags, queue, sop>>
  BY DEF PlayAppends, Appends, Report, PlayTold
<1>3. /\ play.entry.type = "BEGIN" => PlayGoes("pop")
      /\ play.entry.type = "END" => PlayGoes("top")
      /\ play.entry.type \in {"MARK", "SD_MARK"} => PlayGoes("told")
  BY DEF PlayAppends, PlayTold
<1>4. /\ ReportName["BEGIN"] = "begin" /\ ReportName["END"] = "end"
      /\ ReportName["MARK"] = "mark" /\ ReportName["SD_MARK"] = "mark"
  BY DEF ReportName
<1> QED BY <1>1, <1>2, <1>3, <1>4 DEF PlayGoes, Reported

LEMMA SopReports ==
  ASSUME Typed, CleanInv, SopAppends
  PROVE  /\ sop \in TellSop /\ sop' = "top" /\ state = "IDLE" /\ play.at = "sleep"
         /\ ~stopRequested /\ stopFor = utt
         /\ \/ sop = "appendStop" /\ Report("stop", utt)
            \/ sop = "appendPause" /\ Report("pause", utt)
         /\ UNCHANGED <<flags, queue, play>>
PROOF
  BY DEF SopAppends, Appends, SopTold, Report, CleanInv, Stages, StopStages, Stopping, TellSop

LEMMA TakeCases ==
  ASSUME Typed, TakeEvent
  PROVE  /\ events # <<>> /\ events' = Tail(events) /\ handled' = events[1]
         /\ Len(events') = Len(events) - 1 /\ Len(events) \in Nat \ {0}
         /\ DOMAIN events = 1 .. Len(events) /\ DOMAIN events' = 1 .. Len(events) - 1
         /\ \A i \in DOMAIN events' : events'[i] = events[i + 1] /\ i + 1 \in DOMAIN events
         /\ 1 \in DOMAIN events /\ events[1] \in Event
         /\ heard' = (heard \/ events[1].type = "begin")
         /\ speaker' = IF events[1].type \in Terminal THEN "join" ELSE "listen"
         /\ speaker = "listen"
PROOF
<1>1. events # <<>> /\ events \in Seq(Event)
  BY EventWaits DEF Typed, EventTypes
<1> QED BY <1>1, SeqTail DEF TakeEvent

LEMMA EventsSame ==
  ASSUME [Next]_vars
  PROVE  UNCHANGED <<events, heard>> \/ TakeEvent \/ PlayAppends \/ SopAppends \/ ActBroken \/ SpeakSent
PROOF
<1>1. CASE PlaySteps
  BY <1>1 DEF PlaySteps, PlayWorks, PlayDrops, PlayLooks, Looks, outVars, eventQ, history
<1>2. CASE SopSteps
  BY <1>2 DEF SopSteps, SopWorks, SopDrops, SopLooks, Looks, outVars, eventQ, history
<1>3. CASE SpeakerSteps
  BY <1>3 DEF SpeakerSteps, SpeakRefused, Joined, eventQ, history
<1>4. CASE ControlSteps \/ Requests \/ Quit \/ \E m \in Modules : SpeakBegins(m)
  BY <1>4 DEF ControlSteps, StopReturns, OutputStopFlushes, OutputTells, QuitDone,
              Requests, OutputStop, OutputStopDirectly, OutputPause, OutputPauseDirectly,
              Quit, SpeakBegins, controlElse, eventQ, history
<1>5. CASE OutputThread
  BY <1>5 DEF OutputThread, ReadEvent, ActQueue, ActAudio, ActStop, ActStopReturns,
              ActEndQueued, ActPauseAtMark, readerElse, readerOthers, eventQ
<1>6. CASE UNCHANGED vars
  BY <1>6 DEF vars, outVars, eventQ, history
<1> QED BY <1>1, <1>2, <1>3, <1>4, <1>5, <1>6 DEF Next

-----------------------------------------------------------------------------
(* One end of a message.                                                   *)

LEMMA SingleKept ==
  ASSUME Typed, Typed', CleanInv, Clean', [Next]_vars
  PROVE  Single'
PROOF
<1>0. Reading /\ Single /\ Alive /\ StopStages /\ ~closeRequested
  BY DEF CleanInv, Stages, Alive
<1>1. CASE PlayAppends
  <2>1. /\ play.at = "append" /\ state' = state /\ Stopping' = Stopping
        /\ play'.at \notin Telling
    BY <1>1, PlayReports DEF flags, Stopping, Telling
  <2>2. speaker' = speaker /\ ~Over /\ state # "BEFORE_SYNTH"
    BY <1>0, <1>1, <2>1 DEF PlayAppends, threads, Single
  <2>3. Over' => play.entry.type = "END" /\ play'.at = "top"
    BY <1>1, <2>2, PlayReports, Reports DEF Over, Terminal, EventType
  <2> QED BY <1>0, <2>1, <2>2, <2>3 DEF Single, EndTold, Telling
<1>2. CASE PlaySteps /\ ~PlayAppends
  <2>1. UNCHANGED <<speaker, events, sop>>
    BY <1>2 DEF PlaySteps, PlayWorks, PlayThread, PlayTop, PlayWakes, PlayPopStopped,
                PlayPopWaits, PlayPop, PlaySound, PlayBegin, PlayPauses, PlayPassesMark,
                PlayEnd, PlayDrops, PlayLooks, PlayTold, Looks, outVars, threads, eventQ
  <2>2. CASE PlayTop \/ PlayWakes
    <3>1. UNCHANGED flags
      BY <2>2 DEF PlayTop, PlayWakes
    <3>2. ~Playable => play'.at \in {"top", "sleep"}
      BY <1>0, <2>2 DEF PlayTop, PlayWakes, PlayGoes
    <3>3. play'.at \notin Telling
      BY <1>0, <2>2 DEF PlayTop, PlayWakes, PlayGoes, Telling
    <3> QED BY <1>0, <2>1, <3>1, <3>2, <3>3 DEF Single, Over, Ended, EndTold, Stopping, Playable, flags
  <2>3. CASE PlayEnd
    <3>1. play.at = "got"
      BY <2>3 DEF PlayEnd, Got
    <3>2. CASE state = "SPEAKING"
      <4>1. ~stopRequested
        BY <1>2, <2>3, <3>2, <3>1 DEF PlaySteps, PlayWorks, PlayEnd, Clean, PlayDrops, PlayTold, PlayLooks, Got
      <4>2. state' = "IDLE" /\ stopRequested' = stopRequested
        BY <2>3, <3>2, <4>1 DEF PlayEnd, AfterEnd
      <4>3. ~Over /\ ~Stopping
        BY <1>0, <3>1, <3>2, <4>1 DEF Single, StopStages, Stopping
      <4> QED BY <2>1, <4>1, <4>2, <4>3 DEF Single, Over, Ended, EndTold, Stopping
    <3>3. CASE state # "SPEAKING"
      <4>1. UNCHANGED flags /\ play'.at = "pop"
        BY <2>3, <3>3 DEF PlayEnd, PlayGoes, flags
      <4> QED BY <1>0, <2>1, <3>1, <4>1 DEF Single, Over, Ended, EndTold, Stopping, Telling, flags
    <3> QED BY <3>2, <3>3
  <2>4. CASE PlayWorks /\ ~PlayTop /\ ~PlayWakes /\ ~PlayEnd
    <3>1. play.at \in {"pop", "got", "told"} /\ state' \in {state, "SPEAKING"}
      BY <2>4 DEF PlayWorks, PlayThread, PlayPopStopped,
                PlayPopWaits, PlayPop, PlaySound, PlayBegin, PlayPauses, PlayPassesMark, Got, flags
    <3>2. ~EndTold'
      <4>1. CASE PlayPopStopped \/ PlaySound \/ PlayPauses \/ PlayPassesMark
        <5>1. PlayGoes("pop") \/ PlayGoes("top")
          BY <4>1 DEF PlayPopStopped, PlaySound, PlayPauses, PlayPassesMark
        <5> QED BY <5>1 DEF PlayGoes, EndTold, Telling
      <4>2. CASE PlayPopWaits
        BY <4>2 DEF PlayPopWaits, EndTold, Telling
      <4>3. CASE PlayPop
        BY <4>3 DEF PlayPop, EndTold, Telling
      <4>4. CASE PlayBegin
        BY <4>4 DEF PlayBegin, PlayGoes, Got, EndTold, Telling
      <4> QED BY <2>4, <4>1, <4>2, <4>3, <4>4 DEF PlayWorks, PlayThread
    <3>3. ~Over /\ state # "BEFORE_SYNTH"
      BY <1>0, <3>1 DEF Single
    <3> QED BY <2>1, <3>1, <3>2, <3>3 DEF Single, Over, Ended
  <2>5. CASE PlayDrops \/ PlayLooks
    <3>1. play.at = "tell" /\ UNCHANGED flags /\ (EndTold' => EndTold)
      BY <2>5 DEF PlayDrops, PlayLooks, PlayTold, PlayGoes, EndTold, Telling
    <3> QED BY <1>0, <2>1, <3>1 DEF Single, Over, Ended, Stopping, flags
  <2> QED BY <1>2, <2>2, <2>3, <2>4, <2>5 DEF PlaySteps
<1>3. CASE SopAppends
  <2>1. ~Stopping' /\ state' = "IDLE" /\ play' = play /\ play.at = "sleep"
    BY <1>3, SopReports DEF flags, Stopping, TellSop
  <2> QED BY <2>1 DEF Single
<1>4. CASE SopSteps /\ ~SopAppends
  <2>1. /\ UNCHANGED <<speaker, events, play>>
        /\ state' \in {state, "IDLE"} /\ (Stopping' => Stopping)
    BY <1>0, <1>4 DEF SopSteps, SopWorks, SopDrops, SopLooks, SopThread, SopTop, SopWakes,
                  SopIdles, SopSees, SopClears, SopResets, SopTold, Looks, outVars, threads, eventQ, flags,
                  Stopping, TellSop, StopStages
  <2> QED BY <1>0, <2>1 DEF Single, Over, Ended, EndTold
<1>5. CASE SpeakSent
  <2>1. events' = <<>> /\ speaker' = "listen"
    BY <1>5 DEF SpeakSent, CleanInv, Delivered, eventQ
  <2>2. play'.at \in {"top", "sleep"}
    BY <1>0, <1>5, SentFresh
  <2>3. ~Over' /\ ~EndTold'
    BY <2>1, <2>2 DEF Over, Ended, EndTold, Telling
  <2> QED BY <2>2, <2>3 DEF Single
<1>6. CASE TakeEvent
  <2>1. Over' => Over
    BY <1>6, TakeCases DEF Over, Ended
  <2> QED BY <1>0, <1>6, <2>1 DEF TakeEvent, Single, EndTold, Stopping, queueVars, flags
<1>7. CASE Joined \/ SpeakRefused \/ \E m \in Modules : SpeakBegins(m)
  <2>1. (UNCHANGED <<queueVars, events>> /\ speaker # "listen") \/ spoilt'
    BY <1>7 DEF Joined, SpeakRefused, SpeakBegins, eventQ
  <2> QED BY <1>0, <2>1 DEF Single, Over, Ended, EndTold, Stopping, queueVars, flags, Clean
<1>8. CASE ControlSteps \/ Requests
  <2>1. /\ UNCHANGED <<state, sop, play, events, speaker>>
        /\ stopRequested' = stopRequested \/ state # "IDLE"
    BY <1>8 DEF ControlSteps, StopReturns, OutputStopFlushes, OutputTells, QuitDone, Flush,
                Requests, OutputStop, OutputStopDirectly, OutputPause, OutputPauseDirectly,
                StopAndWait, CanStop, Pause, queueVars, flags, controlElse, eventQ
  <2> QED BY <1>0, <2>1 DEF Single, Over, Ended, EndTold, Stopping
<1>9. CASE Quit
  BY <1>9 DEF Quit, Clean
<1>10. CASE OutputThread
  <2>1. ~ActBroken
    BY <1>0, NotBroken
  <2>2. UNCHANGED <<sop, play, events, speaker>>
    BY <1>10, <2>1 DEF OutputThread, ReadEvent, ActQueue, ActAudio, ActStop, ActStopReturns,
                ActEndQueued, ActPauseAtMark, BeforePlay, Push, Pause, AddAudio, eventQ,
                WaitForRoom, StopAndWait, queueVars, flags, readerElse, readerOthers
  <2>3. /\ stopRequested' = stopRequested \/ (state # "IDLE" /\ state' = state)
        /\ \/ state' = state
           \/ state = "BEFORE_SYNTH" /\ state' = "BEFORE_PLAY"
    BY <1>10, <2>1 DEF OutputThread, ReadEvent, ActQueue, ActAudio, ActStop, ActStopReturns,
                ActEndQueued, ActPauseAtMark, BeforePlay, Push, Pause, AddAudio,
                WaitForRoom, StopAndWait, CanStop, queueVars, flags
  <2> QED BY <1>0, <2>2, <2>3 DEF Single, Over, Ended, EndTold, Stopping
<1>11. CASE UNCHANGED vars
  BY <1>0, <1>11 DEF vars, queueVars, flags, outVars, eventQ, threads, Single, Over, Ended, EndTold,
                     Stopping
<1> QED BY <1>1, <1>2, <1>3, <1>4, <1>5, <1>6, <1>7, <1>8, <1>9, <1>10, <1>11 DEF Next, SpeakerSteps,
           PlaySteps, SopSteps

-----------------------------------------------------------------------------
(* What waits for the speak() thread.                                      *)

LEMMA BegunStays ==
  ASSUME Typed, [Next]_vars, Begun, ~SpeakSent, ~ActBroken
  PROVE  Begun'
PROOF
<1>1. CASE UNCHANGED <<events, heard>>
  BY <1>1 DEF Begun
<1>2. CASE TakeEvent
  BY <1>2, TakeCases DEF Begun
<1>3. ASSUME NEW type \in EventType, NEW u \in Nat, Report(type, u), heard' = heard
      PROVE  Begun'
  <2>1. events # <<>> => events'[1] = events[1]
    <3>1. events \in Seq(Event)
      BY DEF Typed, EventTypes
    <3>2. events # <<>> => 1 \in DOMAIN events
      BY <3>1
    <3> QED BY <1>3, <3>2, Reports
  <2> QED BY <1>3, <2>1, Reports DEF Begun
<1>4. CASE PlayAppends
  <2>1. \E type \in EventType, u \in Nat : Report(type, u)
    BY <1>4, PlayReports DEF EventType
  <2> QED BY <1>3, <1>4, <2>1 DEF PlayAppends, history
<1>5. CASE SopAppends
  <2>1. \E type \in EventType, u \in Nat : Report(type, u)
    BY <1>5 DEF SopAppends, Appends, Report, EventType, Typed, PlainTypes
  <2> QED BY <1>3, <1>5, <2>1 DEF SopAppends, history
<1> QED BY <1>1, <1>2, <1>4, <1>5, EventsSame

LEMMA DeliveredKept ==
  ASSUME Typed, Typed', CleanInv, Clean', [Next]_vars
  PROVE  Delivered'
PROOF
<1>0. Delivered /\ Single /\ Playing /\ Requested /\ ~ActBroken
  BY NotBroken DEF CleanInv
<1>1. ASSUME NEW type \in EventType, Report(type, utt), ~Over,
             UNCHANGED <<speaker, utt, asked, heard>>,
             type = "begin" => events = <<>> /\ ~heard,
             type \in {"mark", "end", "pause"} => Begun,
             type \in Asks => type \in asked, type # "broken", Begun => Begun'
      PROVE  Delivered'
  <2>1. /\ DOMAIN events' = DOMAIN events \cup {Len(events) + 1}
        /\ Len(events') = Len(events) + 1
        /\ DOMAIN events = 1 .. Len(events) /\ Len(events) \in Nat
        /\ \A i \in DOMAIN events : events'[i] = events[i]
        /\ events'[Len(events) + 1].type = type /\ events'[Len(events) + 1].utt = utt
    <3>1. utt \in Nat
      BY DEF Typed, PlainTypes
    <3>2. /\ DOMAIN events' = DOMAIN events \cup {Len(events) + 1}
          /\ Len(events') = Len(events) + 1
          /\ DOMAIN events = 1 .. Len(events) /\ Len(events) \in Nat
          /\ \A i \in DOMAIN events : events'[i] = events[i]
          /\ events'[Len(events) + 1] = [type |-> type, utt |-> utt]
      BY <1>1, <3>1, Reports
    <3>3. [type |-> type, utt |-> utt].type = type /\ [type |-> type, utt |-> utt].utt = utt
      OBVIOUS
    <3> HIDE <1>1
    <3> QED BY <3>2, <3>3
  <2>2. speaker = "listen" /\ \A i \in DOMAIN events : events[i].type \notin Terminal
    BY <1>1 DEF Over, Ended
  <2>3. type = "begin" => Len(events) = 0
    BY <1>1
  <2>4. \A i \in DOMAIN events' : events'[i].utt = utt'
    BY <1>0, <1>1, <2>1 DEF Delivered
  <2>5. \A i \in DOMAIN events' : events'[i].type = "begin" => i = 1 /\ ~heard'
    BY <1>0, <1>1, <2>1, <2>3 DEF Delivered
  <2>6. \A i \in DOMAIN events' : events'[i].type \in {"mark", "end", "pause"} => Begun'
    BY <1>0, <1>1, <2>1 DEF Delivered
  <2>7. \A i \in DOMAIN events' : events'[i].type \in Terminal => i = Len(events')
    BY <2>1, <2>2
  <2>8. \A i \in DOMAIN events' : /\ events'[i].type \in Asks => events'[i].type \in asked'
                                 /\ events'[i].type # "broken"
    BY <1>0, <1>1, <2>1 DEF Delivered
  <2> QED BY <1>1, <2>2, <2>4, <2>5, <2>6, <2>7, <2>8 DEF Delivered
<1>2. CASE PlayAppends
  <2>1. UNCHANGED <<speaker, utt, asked, heard>> /\ ~Over /\ ~SpeakSent
    BY <1>0, <1>2, PlayReports DEF PlayAppends, Single, threads, history, SpeakSent, Over
  <2>2. play.entry.utt = utt
    BY <1>0, <1>2, PlayReports DEF Playing
  <2>3. PICK type \in {"begin", "mark", "end"} :
          /\ Report(type, utt)
          /\ type = "begin" => play.entry.type = "BEGIN"
          /\ type # "begin" => play.entry.type # "BEGIN"
    BY <1>2, <2>2, PlayReports
  <2>4. /\ type = "begin" => events = <<>> /\ ~heard
        /\ type # "begin" => Begun
    BY <1>0, <1>2, <2>3, PlayReports DEF Playing, Telling
  <2>5. Begun => Begun'
    BY <1>0, <2>1, BegunStays
  <2> QED BY <1>1, <2>1, <2>3, <2>4, <2>5 DEF EventType, Asks
<1>3. CASE SopAppends
  <2>1. UNCHANGED <<speaker, utt, asked, heard>> /\ ~Over /\ ~SpeakSent
    BY <1>0, <1>3, SopReports DEF SopAppends, Single, threads, history, Over, Stopping, SpeakSent
  <2>2. PICK type \in Asks : /\ Report(type, utt) /\ type \in asked
                             /\ type = "pause" => Begun
    BY <1>0, <1>3, SopReports DEF Asks, Requested, Playing
  <2>3. Begun => Begun'
    BY <1>0, <2>1, BegunStays
  <2> QED BY <1>1, <2>1, <2>2, <2>3 DEF EventType, Asks
<1>4. CASE TakeEvent
  <2>1. Begun => Begun'
    BY <1>0, <1>4, BegunStays DEF TakeEvent, SpeakSent
  <2>2. /\ DOMAIN events' = 1 .. Len(events) - 1 /\ DOMAIN events = 1 .. Len(events)
        /\ Len(events) \in Nat \ {0} /\ Len(events') = Len(events) - 1
        /\ \A i \in DOMAIN events' : events'[i] = events[i + 1] /\ i + 1 \in DOMAIN events
        /\ speaker' # "listen" => events[1].type \in Terminal
        /\ 1 \in DOMAIN events
    BY <1>4, TakeCases
  <2>3. UNCHANGED <<utt, asked>>
    BY <1>4 DEF TakeEvent
  <2>4. \A i \in DOMAIN events' : events'[i].utt = utt'
    BY <1>0, <2>2, <2>3 DEF Delivered
  <2>5. \A i \in DOMAIN events' : events'[i].type # "begin"
    BY <1>0, <2>2 DEF Delivered
  <2>6. \A i \in DOMAIN events' : events'[i].type \in {"mark", "end", "pause"} => Begun'
    BY <1>0, <2>1, <2>2 DEF Delivered
  <2>7. \A i \in DOMAIN events' : events'[i].type \in Terminal => i = Len(events')
    BY <1>0, <2>2 DEF Delivered
  <2>8. \A i \in DOMAIN events' : /\ events'[i].type \in Asks => events'[i].type \in asked'
                                 /\ events'[i].type # "broken"
    BY <1>0, <2>2, <2>3 DEF Delivered
  <2>9. speaker' # "listen" => events' = <<>>
    <3>1. speaker' # "listen" => Len(events') = 0
      BY <1>0, <2>2 DEF Delivered
    <3>2. events' \in Seq(Event)
      BY DEF Typed, EventTypes
    <3> QED BY <3>1, <3>2
  <2> QED BY <2>4, <2>5, <2>6, <2>7, <2>8, <2>9 DEF Delivered
<1>5. CASE SpeakSent
  <2>1. events' = <<>>
    BY <1>0, <1>5 DEF SpeakSent, Delivered, eventQ
  <2> QED BY <2>1 DEF Delivered
<1>6. CASE UNCHANGED <<events, heard>> /\ ~SpeakSent /\ ~TakeEvent
  <2>1. /\ UNCHANGED utt /\ asked \subseteq asked'
        /\ speaker' # "listen" => speaker # "listen"
    <3>1. CASE PlaySteps \/ SopSteps
      BY <3>1 DEF PlaySteps, PlayWorks, PlayDrops, PlayLooks, PlayAppends, SopSteps, SopWorks,
                SopDrops, SopLooks, SopAppends, outVars, threads, history
    <3>2. CASE SpeakerSteps \/ \E m \in Modules : SpeakBegins(m)
      BY <1>6, <3>2 DEF SpeakerSteps, SpeakRefused, Joined, SpeakBegins, history, Clean
    <3>3. CASE ControlSteps \/ Requests
      BY <3>3 DEF ControlSteps, StopReturns, OutputStopFlushes, OutputTells, QuitDone,
                Requests, OutputStop, OutputStopDirectly, OutputPause, OutputPauseDirectly,
                MayAsk, controlElse, history
    <3>4. CASE Quit
      BY <3>4 DEF Quit, Clean
    <3>5. CASE OutputThread
      BY <3>5 DEF OutputThread, ReadEvent, ActQueue, ActAudio, ActStop, ActStopReturns,
                ActEndQueued, ActPauseAtMark, ActBroken, readerElse, readerOthers
    <3>6. CASE UNCHANGED vars
      BY <3>6 DEF vars, outVars, threads, history
    <3> QED BY <3>1, <3>2, <3>3, <3>4, <3>5, <3>6 DEF Next
  <2> QED BY <1>0, <1>6, <2>1 DEF Delivered, Begun
<1> QED BY <1>0, <1>2, <1>3, <1>4, <1>5, <1>6, EventsSame
-----------------------------------------------------------------------------
(* The playback queue.                                                     *)

EndSeen == reader.at \in {"done", "stopping"} \/ reader.todo = <<"endQueued">>

LEMMA EndStays ==
  ASSUME Typed, Reading, Clean', [Next]_vars, ~SpeakSent, EndSeen
  PROVE  EndSeen'
PROOF
<1>1. reader.at # "read"
  BY Lists DEF Reading, EndSeen
<1>2. CASE reader.at = "act" /\ OpDone
  <2>1. reader.todo = <<"endQueued">>
    BY <1>2 DEF EndSeen
  <2>2. Becomes("done", <<>>, TRUE)
    BY <1>2, <2>1, DoneCases, Distinct, Lists
  <2> QED BY <2>2 DEF Becomes, EndSeen
<1>3. CASE ActStop
  BY <1>3, StopShape DEF Becomes, EndSeen
<1>4. CASE ActStopReturns
  BY <1>4, OutputSteps DEF ActStopReturns, Becomes, EndSeen, OutputThread, Reader, Reading,
                           Typed, ReaderTypes
<1>5. CASE reader' = reader
  BY <1>5 DEF EndSeen
<1> QED BY <1>1, <1>2, <1>3, <1>4, <1>5, ReaderSteps, NotBroken DEF ReadEvent

(* A part of the message, or its END, is appended.                         *)
LEMMA PartQueued ==
  ASSUME Typed, CleanInv, NEW type \in EntryType \ {"BEGIN"},
         queue' = Append(queue, [type |-> type, utt |-> utt]),
         UNCHANGED <<state, sop, play, utt>>, ~HasEnd, state # "BEFORE_SYNTH",
         state = "IDLE" => type = "END", type = "END" => EndSeen'
  PROVE  Queued'
PROOF
<1> DEFINE new == [type |-> type, utt |-> utt]
<1>1. utt \in Nat /\ queue \in Seq(Entry) /\ new \in Entry
  BY DEF Typed, PlainTypes, QueueTypes, Entry
<1>2. new.type = type /\ new.utt = utt
  OBVIOUS
<1>3. queue' = Append(queue, new)
  OBVIOUS
<1> HIDE DEF new
<1>4. /\ Len(queue') = Len(queue) + 1 /\ DOMAIN queue' = DOMAIN queue \cup {Len(queue) + 1}
      /\ \A i \in DOMAIN queue : queue'[i] = queue[i]
      /\ queue'[Len(queue) + 1] = new
  BY <1>1, <1>3, SeqAppend
<1>5. /\ \A i \in DOMAIN queue : queue[i].utt = utt \/ Old(queue[i])
      /\ state = "IDLE" /\ sop \notin {"poll", "clear"} => \A i \in DOMAIN queue : queue[i].type = "END"
      /\ state = "BEFORE_PLAY" => BeginWaits
      /\ state = "SPEAKING" => \A i \in DOMAIN queue : OwnPart(queue[i])
  BY DEF CleanInv, Queued
<1>6. \A i \in DOMAIN queue : ~OwnEnd(queue[i])
  BY DEF HasEnd
<1>7. \A i \in DOMAIN queue' : queue'[i].utt = utt' \/ Old(queue[i])'
  BY <1>2, <1>4, <1>5 DEF Old
<1>8. \A i \in DOMAIN queue' : OwnEnd(queue[i])' => i = Len(queue')
  BY <1>4, <1>6 DEF OwnEnd
<1>9. state' = "IDLE" /\ sop' \notin {"poll", "clear"} => \A i \in DOMAIN queue' : queue'[i].type = "END"
  BY <1>2, <1>4, <1>5
<1>10. state' = "SPEAKING" => \A i \in DOMAIN queue' : OwnPart(queue[i])'
  BY <1>2, <1>4, <1>5 DEF OwnPart
<1>11. state' = "BEFORE_PLAY" => BeginWaits'
  <2>1. BeginGot' = BeginGot
    BY DEF BeginGot
  <2>2. CASE BeginGot /\ state = "BEFORE_PLAY"
    <3>1. \A i \in DOMAIN queue : OwnPart(queue[i])
      BY <1>5, <2>2 DEF BeginWaits
    <3>2. \A i \in DOMAIN queue' : OwnPart(queue[i])'
      BY <1>2, <1>4, <3>1 DEF OwnPart
    <3> QED BY <2>1, <2>2, <3>2 DEF BeginWaits
  <2>3. CASE ~BeginGot /\ state = "BEFORE_PLAY"
    <3>1. PICK b \in DOMAIN queue : BeginAt(b)
      BY <1>5, <2>3 DEF BeginWaits
    <3>2. b \in DOMAIN queue' /\ queue'[b] = queue[b] /\ b \in 1 .. Len(queue)
      BY <1>1, <1>4, <3>1
    <3>3. \A i \in DOMAIN queue' : i < b => Old(queue[i])'
      <4>1. \A i \in DOMAIN queue' : i < b => i \in DOMAIN queue
        BY <1>1, <1>4, <3>2
      <4> QED BY <1>4, <3>1, <4>1 DEF BeginAt, Old
    <3>4. \A i \in DOMAIN queue' : i > b => OwnPart(queue[i])'
      BY <1>2, <1>4, <3>1 DEF BeginAt, OwnPart
    <3>5. BeginAt(b)'
      BY <3>1, <3>2, <3>3, <3>4 DEF BeginAt
    <3> QED BY <2>1, <2>3, <3>2, <3>5 DEF BeginWaits
  <2> QED BY <2>2, <2>3
<1>12. HasEnd' => EndSeen'
  BY <1>2, <1>4, <1>6 DEF HasEnd, OwnEnd
<1> QED BY <1>7, <1>8, <1>9, <1>10, <1>11, <1>12 DEF Queued, EndSeen

(* BEGIN is appended behind what is left of the messages before.           *)
LEMMA BeginQueued ==
  ASSUME Typed, CleanInv, state = "BEFORE_SYNTH", state' = "BEFORE_PLAY",
         queue' = Append(queue, [type |-> "BEGIN", utt |-> utt]),
         UNCHANGED <<play, utt>>
  PROVE  Queued'
PROOF
<1> DEFINE new == [type |-> "BEGIN", utt |-> utt]
<1>1. utt \in Nat /\ queue \in Seq(Entry) /\ new \in Entry
  BY DEF Typed, PlainTypes, QueueTypes, Entry, EntryType
<1>2. new.type = "BEGIN" /\ new.utt = utt
  OBVIOUS
<1>3. queue' = Append(queue, new)
  OBVIOUS
<1> HIDE DEF new
<1>4. /\ Len(queue') = Len(queue) + 1 /\ DOMAIN queue' = DOMAIN queue \cup {Len(queue) + 1}
      /\ \A i \in DOMAIN queue : queue'[i] = queue[i]
      /\ queue'[Len(queue) + 1] = new
      /\ DOMAIN queue = 1 .. Len(queue) /\ Len(queue) \in Nat
  BY <1>1, <1>3, SeqAppend
<1>5. \A i \in DOMAIN queue : Old(queue[i])
  BY DEF CleanInv, Queued
<1>6. play.at \in {"top", "sleep"}
  BY DEF CleanInv, Single
<1>7. \A i \in DOMAIN queue' : /\ queue'[i].utt = utt' \/ Old(queue[i])'
                              /\ ~OwnEnd(queue[i])'
  <2>1. \A i \in DOMAIN queue : queue[i].utt # utt
    BY <1>1, <1>5 DEF Old, Entry
  <2> QED BY <1>2, <1>4, <1>5, <2>1 DEF Old, OwnEnd
<1>8. PICK b \in DOMAIN queue' : b = Len(queue) + 1
  BY <1>4
<1>9. BeginAt(b)'
  <2>1. \A i \in DOMAIN queue' : i < b => Old(queue[i])'
    <3>1. \A i \in DOMAIN queue' : i < b => i \in DOMAIN queue
      BY <1>4, <1>8
    <3> QED BY <1>4, <1>5, <3>1 DEF Old
  <2>2. \A i \in DOMAIN queue' : ~(i > b)
    BY <1>4, <1>8
  <2>3. queue'[b].type = "BEGIN" /\ queue'[b].utt = utt'
    BY <1>2, <1>4, <1>8
  <2> QED BY <2>1, <2>2, <2>3 DEF BeginAt
<1>10. BeginWaits' /\ ~HasEnd'
  BY <1>6, <1>7, <1>9 DEF BeginWaits, BeginGot, HasEnd
<1> QED BY <1>7, <1>10 DEF Queued

(* The queue stays, and the play thread comes by no END.                   *)
LEMMA QueueStays ==
  ASSUME CleanInv, UNCHANGED <<queue, utt>>, HasEnd' => HasEnd, EndSeen => EndSeen',
         \/ state' = state /\ (state = "IDLE" /\ sop' \notin {"poll", "clear"} => sop \notin {"poll", "clear"})
         \/ state' = "IDLE" /\ sop' \in {"poll", "clear"},
         state' = "BEFORE_PLAY" => ~BeginGot /\ ~BeginGot'
  PROVE  Queued'
PROOF
<1>0. Queued
  BY DEF CleanInv
<1>1. HasEnd' => EndSeen'
  BY <1>0 DEF Queued, EndSeen
<1>2. \A i \in DOMAIN queue : /\ Old(queue[i])' = Old(queue[i])
                             /\ OwnEnd(queue[i])' = OwnEnd(queue[i])
                             /\ OwnPart(queue[i])' = OwnPart(queue[i])
  BY DEF Old, OwnEnd, OwnPart
<1>3. state' = "BEFORE_PLAY" => BeginWaits'
  <2>1. ASSUME state' = "BEFORE_PLAY" PROVE \E b \in DOMAIN queue' : BeginAt(b)'
    <3>1. state = "BEFORE_PLAY"
      BY <2>1
    <3>2. PICK b \in DOMAIN queue : BeginAt(b)
      BY <1>0, <2>1, <3>1 DEF Queued, BeginWaits
    <3>3. BeginAt(b)'
      BY <1>2, <3>2 DEF BeginAt
    <3> QED BY <3>3
  <2> QED BY <2>1 DEF BeginWaits
<1> QED BY <1>0, <1>1, <1>2, <1>3 DEF Queued, EndSeen

LEMMA PopQueued ==
  ASSUME Typed, CleanInv, PlayPop, UNCHANGED utt, EndSeen => EndSeen'
  PROVE  Queued'
PROOF
<1>0. Queued
  BY DEF CleanInv
<1>1. /\ queue' = Tail(queue) /\ Len(queue') = Len(queue) - 1 /\ Len(queue) \in Nat \ {0}
      /\ DOMAIN queue' = 1 .. Len(queue) - 1 /\ DOMAIN queue = 1 .. Len(queue)
      /\ \A i \in DOMAIN queue' : queue'[i] = queue[i + 1] /\ i + 1 \in DOMAIN queue
      /\ Head(queue) = queue[1] /\ 1 \in DOMAIN queue
  BY SeqTail DEF PlayPop, Typed, QueueTypes
<1>2. /\ play'.entry = queue[1] /\ play.at = "pop" /\ UNCHANGED <<state, sop>>
      /\ play'.at = IF queue[1].type \in {"MARK", "SD_MARK"} THEN "tell" ELSE "got"
  BY <1>1 DEF PlayPop, flags
<1>3. \A i \in DOMAIN queue' : queue'[i].utt = utt' \/ Old(queue[i])'
  BY <1>0, <1>1 DEF Queued, Old
<1>4. \A i \in DOMAIN queue' : OwnEnd(queue[i])' => i = Len(queue')
  BY <1>0, <1>1 DEF Queued, OwnEnd
<1>5. state' = "BEFORE_SYNTH" => \A i \in DOMAIN queue' : Old(queue[i])'
  BY <1>0, <1>1, <1>2 DEF Queued, Old
<1>6. state' = "IDLE" /\ sop' \notin {"poll", "clear"} => \A i \in DOMAIN queue' : queue'[i].type = "END"
  BY <1>0, <1>1, <1>2 DEF Queued
<1>7. state' = "SPEAKING" => \A i \in DOMAIN queue' : OwnPart(queue[i])'
  BY <1>0, <1>1, <1>2 DEF Queued, OwnPart
<1>8. HasEnd' => EndSeen'
  BY <1>0, <1>1, <1>2 DEF Queued, HasEnd, OwnEnd, EndSeen
<1>9. ASSUME state' = "BEFORE_PLAY" PROVE BeginWaits'
  <2>1. PICK b \in DOMAIN queue : BeginAt(b)
    BY <1>0, <1>2, <1>9 DEF Queued, BeginWaits, BeginGot
  <2>2. CASE b = 1
    <3>1. BeginGot'
      BY <1>2, <2>1, <2>2 DEF BeginGot, BeginAt
    <3>2. \A i \in DOMAIN queue' : i + 1 > b
      BY <1>1, <2>2
    <3>3. \A i \in DOMAIN queue' : OwnPart(queue[i])'
      BY <1>1, <2>1, <3>2 DEF BeginAt, OwnPart
    <3> QED BY <3>1, <3>3 DEF BeginWaits
  <2>3. CASE b # 1
    <3>0. b \in 1 .. Len(queue) /\ b - 1 \in 1 .. Len(queue) - 1 /\ b = (b - 1) + 1
      BY <1>1, <2>1, <2>3
    <3>1. PICK c \in DOMAIN queue' : b = c + 1
      BY <1>1, <3>0
    <3>2. queue[1].type = "END"
      BY <1>1, <2>1, <2>3 DEF BeginAt, Old
    <3>3. ~BeginGot'
      BY <1>2, <3>2 DEF BeginGot
    <3>4. /\ \A i \in DOMAIN queue' : i < c => i + 1 < b
          /\ \A i \in DOMAIN queue' : i > c => i + 1 > b
      BY <1>1, <3>1
    <3>5. BeginAt(c)'
      BY <1>1, <2>1, <3>1, <3>4 DEF BeginAt, Old, OwnPart
    <3> QED BY <3>3, <3>5 DEF BeginWaits
  <2> QED BY <2>2, <2>3
<1> QED BY <1>3, <1>4, <1>5, <1>6, <1>7, <1>8, <1>9 DEF Queued, EndSeen

LEMMA SentQueued ==
  ASSUME Typed, CleanInv, SpeakSent
  PROVE  Queued'
PROOF
<1>1. /\ state = "IDLE" /\ sop \notin {"poll", "clear"} /\ play.at \in {"top", "sleep"}
      /\ state' = "BEFORE_SYNTH" /\ UNCHANGED <<queue, play>>
  BY SentFresh DEF CleanInv, Stages, StopStages, Stopping
<1>2. utt \in Nat /\ utt' = utt + 1 /\ \A i \in DOMAIN queue : queue[i].utt \in Nat
  <2>1. utt \in Nat /\ utt' = utt + 1 /\ queue \in Seq(Entry)
    BY DEF SpeakSent, Typed, PlainTypes, QueueTypes
  <2>2. \A i \in DOMAIN queue : queue[i] \in Entry
    BY <2>1
  <2> QED BY <2>1, <2>2 DEF Entry
<1>3. \A i \in DOMAIN queue : queue[i].type = "END" /\ queue[i].utt <= utt
  BY <1>1, <1>2 DEF CleanInv, Queued, Old
<1>4. \A i \in DOMAIN queue : Old(queue[i])' /\ ~OwnEnd(queue[i])'
  BY <1>1, <1>2, <1>3 DEF Old, OwnEnd
<1>5. ~HasEnd'
  BY <1>1, <1>4 DEF HasEnd
<1> QED BY <1>1, <1>4, <1>5 DEF Queued

(* Steps of the play thread other than taking an entry.                    *)
LEMMA PlayedQueued ==
  ASSUME Typed, CleanInv, PlaySteps, ~PlayPop, UNCHANGED utt, EndSeen => EndSeen'
  PROVE  Queued'
PROOF
<1>1. UNCHANGED <<queue, sop>>
  BY DEF PlaySteps, PlayWorks, PlayThread, PlayTop, PlayWakes, PlayPopStopped,
         PlayPopWaits, PlaySound, PlayBegin, PlayPauses, PlayPassesMark,
         PlayEnd, PlayDrops, PlayLooks, PlayAppends, PlayTold
<1>2. /\ play'.at \in {"got", "tell", "append"} =>
           play.at \in {"got", "tell", "append"} /\ play'.entry = play.entry
      /\ play'.at = "got" => FALSE
  <2>1. CASE PlayTop \/ PlayWakes \/ PlayPopStopped \/ PlayPopWaits \/ PlaySound \/ PlayPauses
              \/ PlayPassesMark
    <3>1. PlayTop \/ PlayPopWaits \/ PlayGoes("pop") \/ PlayGoes("gone") \/ PlayGoes("top")
            \/ (PlayWakes /\ play' = play)
      BY <2>1 DEF PlayTop, PlayWakes, PlayPopStopped, PlayPopWaits, PlaySound, PlayPauses, PlayPassesMark
    <3> QED BY <3>1 DEF PlayTop, PlayPopWaits, PlayGoes, PlayWakes
  <2>2. CASE PlayBegin \/ PlayEnd
    <3>1. play.at = "got" /\ (PlayGoes("tell") \/ PlayGoes("pop"))
      BY <2>2 DEF PlayBegin, PlayEnd, Got
    <3> QED BY <3>1 DEF PlayGoes
  <2>3. CASE PlayLooks
    BY <2>3 DEF PlayLooks, PlayGoes
  <2>4. CASE PlayDrops \/ PlayAppends
    <3>1. PlayGoes("pop") \/ PlayGoes("top") \/ PlayGoes("told")
      BY <2>4 DEF PlayDrops, PlayAppends, PlayTold
    <3> QED BY <3>1 DEF PlayGoes
  <2> QED BY <2>1, <2>2, <2>3, <2>4 DEF PlaySteps, PlayWorks, PlayThread
<1>3. HasEnd' => HasEnd
  BY <1>1, <1>2 DEF HasEnd, OwnEnd
<1>4. ~BeginGot'
  BY <1>2 DEF BeginGot
<1>5. CASE PlayBegin /\ state = "BEFORE_PLAY"
  <2>1. state' = "SPEAKING" /\ BeginGot
    BY <1>5 DEF PlayBegin, Got, BeginGot
  <2>2. \A i \in DOMAIN queue : OwnPart(queue[i])
    BY <1>5, <2>1 DEF CleanInv, Queued, BeginWaits
  <2> QED BY <1>1, <1>3, <2>1, <2>2 DEF CleanInv, Queued, EndSeen, OwnPart, Old, OwnEnd
<1>6. CASE PlayEnd /\ state = "SPEAKING"
  <2>1. queue = <<>> /\ state' \in {"SPEAKING", "IDLE"}
    BY <1>6, EndIsOwn DEF PlayEnd, AfterEnd
  <2> QED BY <1>1, <1>3, <2>1 DEF CleanInv, Queued, EndSeen
<1>7. CASE ~(PlayBegin /\ state = "BEFORE_PLAY") /\ ~(PlayEnd /\ state = "SPEAKING")
  <2>1. state' = state
    BY <1>7 DEF PlaySteps, PlayWorks, PlayThread, PlayTop, PlayWakes, PlayPopStopped,
           PlayPopWaits, PlaySound, PlayBegin, PlayPauses, PlayPassesMark,
           PlayEnd, PlayDrops, PlayLooks, PlayAppends, PlayTold, flags
  <2>2. BeginGot => PlayBegin
    BY DEF BeginGot, PlaySteps, PlayWorks, PlayThread, PlayTop, PlayWakes, PlayPopStopped,
           PlayPopWaits, PlaySound, PlayPauses, PlayPassesMark,
           PlayEnd, PlayDrops, PlayLooks, PlayAppends, PlayTold, Got
  <2> QED BY <1>1, <1>3, <1>4, <1>7, <2>1, <2>2, QueueStays
<1> QED BY <1>5, <1>6, <1>7

LEMMA NoEndYet ==
  ASSUME Typed, CleanInv, reader.at = "act", OpDone, Head(reader.todo) # "endQueued"
  PROVE  ~HasEnd
PROOF
<1>1. Reading /\ Queued
  BY DEF CleanInv
<1>2. reader.todo # <<"endQueued">>
  BY SeqShort
<1> QED BY <1>1, <1>2 DEF Queued

LEMMA QueuedKept ==
  ASSUME Typed, Typed', CleanInv, Clean', [Next]_vars
  PROVE  Queued'
PROOF
<1>0. Reading /\ Queued /\ Drains /\ Synthesized /\ Single /\ StopStages
  BY DEF CleanInv, Stages
<1>1. CASE SpeakSent
  BY <1>1, SentQueued
<1>2. ~SpeakSent => (EndSeen => EndSeen')
  BY <1>0, EndStays
<1>3. CASE PlaySteps
  <2>1. utt' = utt /\ ~SpeakSent
    BY <1>3 DEF PlaySteps, PlayWorks, PlayDrops, PlayLooks, PlayAppends, outVars, threads, SpeakSent,
                Typed, PlainTypes
  <2> QED BY <1>2, <1>3, <2>1, PopQueued, PlayedQueued
<1>4. CASE SopSteps
  <2>1. UNCHANGED <<utt, reader, play>>
    BY <1>4 DEF SopSteps, SopWorks, SopDrops, SopLooks, SopAppends, SopThread, SopTop, SopWakes,
                SopIdles, SopSees, SopClears, SopResets, SopTold, outVars, threads
  <2>2. CASE SopClears
    <3>1. state = "IDLE" /\ state' = state /\ queue' = <<>>
      BY <1>0, <2>2 DEF StopStages, SopClears, flags
    <3> QED BY <1>0, <2>1, <3>1 DEF Queued, HasEnd, OwnEnd
  <2>3. CASE ~SopClears
    <3>1. UNCHANGED queue /\ (sop' \in {"poll", "clear"} <=> sop \in {"poll", "clear"} \/ SopIdles)
      BY <1>4, <2>3 DEF SopSteps, SopWorks, SopDrops, SopLooks, SopAppends, SopThread, SopTop, SopWakes,
                SopIdles, SopSees, SopResets, SopTold
    <3>2. state' = state \/ (state' = "IDLE" /\ sop' \in {"poll", "clear"})
      <4>1. SopResets => state = "IDLE" /\ state' = "IDLE"
        BY <1>0 DEF SopResets, StopStages
      <4> QED BY <1>4, <2>3, <4>1 DEF SopSteps, SopWorks, SopDrops, SopLooks, SopAppends, SopThread,
                SopTop, SopWakes, SopIdles, SopSees, SopTold, flags
    <3>3. HasEnd' => HasEnd
      BY <2>1, <3>1 DEF HasEnd, OwnEnd
    <3>4. EndSeen => EndSeen'
      BY <2>1 DEF EndSeen
    <3> QED BY <1>0, <2>1, <3>1, <3>2, <3>3, <3>4 DEF Queued, EndSeen, BeginWaits, BeginAt, BeginGot,
               Old, OwnEnd, OwnPart
  <2> QED BY <2>2, <2>3
<1>5. CASE ActBegins /\ ActQueue
  <2>1. state = "BEFORE_SYNTH"
    <3>1. reader.at = "act" /\ Head(reader.todo) = "beforePlay" /\ OpDone
      BY <1>5 DEF ActBegins, Doing
    <3>2. reader.todo = <<"beforePlay">>
      BY <1>0, <3>1, DoneCases
    <3> QED BY <1>0, <3>2 DEF Synthesized
  <2>2. /\ state' = "BEFORE_PLAY" /\ queue' = Append(queue, [type |-> "BEGIN", utt |-> utt])
        /\ UNCHANGED <<play, utt>>
    BY <1>5, <2>1 DEF ActBegins, BeforePlay, ActQueue, readerOthers
  <2> QED BY <2>1, <2>2, BeginQueued
<1>6. ASSUME NEW type \in EntryType \ {"BEGIN"}, Push(type, utt), utt' = utt, OpDone,
             reader.at = "act", Head(reader.todo) = type,
             type # "END" => state # "IDLE"
      PROVE  Queued'
  <2>1. ~HasEnd
    BY <1>6, NoEndYet DEF EntryType
  <2>2. state # "BEFORE_SYNTH"
    <3>1. reader.todo # <<"stop">> /\ reader.todo # <<"beforePlay">>
      BY <1>0, <1>6, DoneCases, Lists, SeqShort DEF EntryType
    <3> QED BY <1>0, <1>6, <3>1 DEF Synthesized, Reading
  <2>3. type = "END" => EndSeen'
    BY <1>0, <1>6, DoneCases DEF EndSeen, Becomes
  <2>4. /\ queue' = Append(queue, [type |-> type, utt |-> utt])
        /\ UNCHANGED <<state, sop, play>>
    BY <1>6 DEF Push, flags
  <2> QED BY <1>6, <2>1, <2>2, <2>3, <2>4, PartQueued
<1>7. CASE ActPushes /\ ActQueue
  <2>1. /\ Head(reader.todo) \in {"MARK", "SD_MARK", "SOUND_ICON", "END"} /\ reader.at = "act"
        /\ Push(Head(reader.todo), utt) /\ OpDone /\ utt' = utt
    BY <1>7 DEF ActPushes, ActQueue, readerOthers, Doing
  <2>2. Head(reader.todo) # "END" => state # "IDLE"
    BY <1>0, <2>1, DoneCases DEF Drains, Drained
  <2> QED BY <1>6, <2>1, <2>2 DEF EntryType
<1>8. CASE ActAdds /\ ActAudio /\ ~AudioRefused
  <2>1. Head(reader.todo) = "AUDIO" /\ reader.at = "act" /\ Push("AUDIO", utt) /\ OpDone /\ utt' = utt
    BY <1>8 DEF ActAdds, AddAudio, ActAudio, readerElse, readerOthers, Doing
  <2> QED BY <1>6, <1>8, <2>1 DEF EntryType, AudioRefused
<1>9. CASE /\ ~SpeakSent /\ ~PlaySteps /\ ~SopSteps /\ ~(ActBegins /\ ActQueue)
           /\ ~(ActPushes /\ ActQueue) /\ ~(ActAdds /\ ActAudio /\ ~AudioRefused)
  <2>1. UNCHANGED <<queue, play, state, sop, utt>>
    <3>1. CASE SpeakerSteps \/ \E m \in Modules : SpeakBegins(m)
      BY <1>9, <3>1 DEF SpeakerSteps, SpeakRefused, TakeEvent, Joined, SpeakBegins, queueVars,
                        flags, Clean
    <3>2. CASE ControlSteps \/ Requests \/ Quit
      BY <3>2 DEF ControlSteps, StopReturns, OutputStopFlushes, OutputTells, QuitDone, Flush,
              Requests, OutputStop, OutputStopDirectly, OutputPause, OutputPauseDirectly,
              StopAndWait, Pause, Quit, Terminate, queueVars, flags, controlElse
    <3>3. CASE ActQueue
      BY <1>9, <3>3 DEF ActQueue, ActBegins, ActPushes, Pause, queueVars, flags, readerOthers
    <3>4. CASE ActAudio
      BY <1>9, <3>4 DEF ActAudio, ActAdds, AddAudio, WaitForRoom, queueVars, flags, readerElse,
                        readerOthers
    <3>5. CASE ReadEvent \/ ActStop \/ ActStopReturns \/ ActEndQueued \/ ActPauseAtMark \/ ActBroken
      BY <3>5 DEF ReadEvent, ActStop, ActStopReturns, ActEndQueued, ActPauseAtMark, ActBroken,
                  StopAndWait, Pause, queueVars, flags, readerElse, readerOthers
    <3>6. CASE UNCHANGED vars
      BY <3>6 DEF vars, queueVars, flags, outVars
    <3> QED BY <1>9, <3>1, <3>2, <3>3, <3>4, <3>5, <3>6 DEF Next, OutputThread
  <2>2. EndSeen => EndSeen'
    BY <1>2, <1>9
  <2> QED BY <1>0, <2>1, <2>2 DEF Queued, EndSeen, BeginWaits, BeginAt, BeginGot, HasEnd,
             Old, OwnEnd, OwnPart
<1> QED BY <1>1, <1>3, <1>4, <1>5, <1>7, <1>8, <1>9

-----------------------------------------------------------------------------
(* What the play thread holds.                                             *)

BegunPause == pauseState = "MARK_REPORTED" \/ sop \in {"tellPause", "appendPause"}

LEMMA PlayingStays ==
  ASSUME CleanInv, UNCHANGED <<play, utt, events, heard>>,
         queue' \in {queue, <<>>} \/ ~HasEnd,
         state' \in {state, "IDLE"}, BegunPause' => BegunPause
  PROVE  Playing'
PROOF
<1>1. play.at \in {"got", "tell", "append"} /\ OwnEnd(play.entry) => queue' = <<>>
  BY DEF CleanInv, Playing, HasEnd
<1> QED BY <1>1 DEF CleanInv, Playing, OwnEnd, Old, OwnPart, Begun, BegunPause, Telling

(* The play thread comes by nothing that is reported.                      *)
LEMMA PlayingIdle ==
  ASSUME CleanInv, UNCHANGED <<events, heard>>, play'.at \in {"top", "sleep", "pop"},
         play.at \notin Telling, state' = state,
         \/ ~BegunPause' \/ BegunPause \/ Begun
  PROVE  Playing'
PROOF
  BY DEF CleanInv, Playing, Begun, BegunPause, Telling

LEMMA PopPlaying ==
  ASSUME Typed, CleanInv, PlayPop, UNCHANGED <<utt, events, heard>>
  PROVE  Playing'
PROOF
<1>0. Queued /\ Playing /\ StopStages
  BY DEF CleanInv, Stages
<1>1. /\ queue' = Tail(queue) /\ Len(queue) \in Nat \ {0} /\ Len(queue') = Len(queue) - 1
      /\ DOMAIN queue = 1 .. Len(queue) /\ Head(queue) = queue[1] /\ 1 \in DOMAIN queue
      /\ queue' \in Seq(Entry)
  BY SeqTail DEF PlayPop, Typed, QueueTypes
<1>2. /\ play'.entry = queue[1] /\ play.at = "pop" /\ UNCHANGED <<state, sop, pauseState>>
      /\ play'.at = IF queue[1].type \in {"MARK", "SD_MARK"} THEN "tell" ELSE "got"
      /\ ~stopRequested
  BY <1>1 DEF PlayPop, flags
<1>3. queue[1].utt = utt \/ Old(queue[1])
  BY <1>0, <1>1 DEF Queued
<1>4. OwnEnd(queue[1]) => queue' = <<>>
  <2>1. OwnEnd(queue[1]) => Len(queue') = 0
    BY <1>0, <1>1 DEF Queued
  <2> QED BY <1>1, <2>1
<1>5. state = "SPEAKING" => OwnPart(queue[1]) /\ Begun
  BY <1>0, <1>1, <1>2 DEF Queued, Playing, Telling
<1>6. queue[1].type \in {"MARK", "SD_MARK"} => state = "SPEAKING"
  <2>1. state = "IDLE" => queue[1].type = "END"
    BY <1>0, <1>1, <1>2 DEF Queued, StopStages
  <2>2. state = "BEFORE_SYNTH" => queue[1].type = "END"
    BY <1>0, <1>1 DEF Queued, Old
  <2>3. ASSUME state = "BEFORE_PLAY" PROVE queue[1].type \in {"BEGIN", "END"}
    <3>1. PICK b \in DOMAIN queue : BeginAt(b)
      BY <1>0, <1>2, <2>3 DEF Queued, BeginWaits, BeginGot
    <3>2. b = 1 \/ 1 < b
      BY <1>1, <3>1
    <3> QED BY <1>1, <3>1, <3>2 DEF BeginAt, Old
  <2> QED BY <2>1, <2>2, <2>3 DEF Typed, PlainTypes
<1>7. Begun' = Begun
  BY DEF Begun
<1> QED BY <1>0, <1>2, <1>3, <1>4, <1>5, <1>6, <1>7 DEF Playing, Telling, OwnEnd, Old, OwnPart

LEMMA AppendPlaying ==
  ASSUME Typed, CleanInv, Clean', [Next]_vars, PlayAppends
  PROVE  Playing'
PROOF
<1>0. Playing /\ Single
  BY DEF CleanInv
<1>1. UNCHANGED <<utt, heard, sop, state, pauseState, queue>> /\ ~SpeakSent /\ ~ActBroken
  BY <1>0, PlayReports, NotBroken DEF PlayAppends, history, SpeakSent, PlayTold, flags, threads,
           CleanInv, Single, Over
<1>2. /\ play.at = "append" /\ play.entry.utt = utt
      /\ \/ play.entry.type = "BEGIN" /\ play'.at = "pop" /\ Report("begin", utt)
         \/ /\ play.entry.type # "BEGIN" /\ play'.at \in {"told", "top"}
            /\ play'.at = "told" => play'.entry = play.entry
  BY <1>0, PlayReports DEF Playing
<1>3. Begun'
  <2>1. CASE play.entry.type = "BEGIN"
    <3>1. Report("begin", utt) /\ events = <<>> /\ utt \in Nat
      BY <1>0, <1>2, <2>1 DEF Playing, Telling, Typed, PlainTypes
    <3>2. events' # <<>> /\ events'[1] = [type |-> "begin", utt |-> utt]
      BY <3>1, Reports DEF EventType
    <3> QED BY <3>2 DEF Begun
  <2>2. CASE play.entry.type # "BEGIN"
    BY <1>0, <1>1, <1>2, <2>2, BegunStays DEF Playing, Telling
  <2> QED BY <2>1, <2>2
<1>4. state \notin {"BEFORE_SYNTH", "BEFORE_PLAY"}
  BY <1>0, <1>2 DEF Playing, Single, Telling, Begun
<1> QED BY <1>1, <1>2, <1>3, <1>4 DEF Playing, Telling

LEMMA PlayingKept ==
  ASSUME Typed, Typed', CleanInv, Clean', [Next]_vars
  PROVE  Playing'
PROOF
<1>0. Reading /\ Playing /\ Queued /\ Single /\ StopStages /\ ~ActBroken
  BY NotBroken DEF CleanInv, Stages
<1>1. ~Over => Listened
  BY DEF Over, Typed, PlainTypes, Listened
<1>2. CASE PlayAppends
  BY <1>2, AppendPlaying
<1>3. CASE PlaySteps /\ ~PlayAppends
  <2>1. UNCHANGED <<utt, events, heard>>
    BY <1>3 DEF PlaySteps, PlayWorks, PlayDrops, PlayLooks, Looks, outVars, eventQ, history
  <2>2. CASE PlayPop
    BY <2>1, <2>2, PopPlaying
  <2>3. CASE PlayBegin
    <3>1. play.at = "got" /\ play.entry.type = "BEGIN" /\ play.entry.utt = utt
      BY <1>0, <2>3 DEF PlayBegin, Got, Playing, Old
    <3>2. CASE state = "BEFORE_PLAY"
      <4>1. PlayGoes("tell") /\ state' = "SPEAKING" /\ UNCHANGED <<pauseState, sop>>
        BY <2>3, <3>2 DEF PlayBegin
      <4>2. play'.at = "tell" /\ play'.entry = play.entry
        BY <4>1 DEF PlayGoes
      <4>3. events' = <<>> /\ ~heard'
        BY <1>0, <2>1, <3>2 DEF Playing
      <4> QED BY <1>0, <2>1, <3>1, <3>2, <4>1, <4>2, <4>3 DEF Playing, Telling, OwnEnd, Begun
    <3>3. CASE state # "BEFORE_PLAY"
      <4>1. PlayGoes("pop") /\ state' = state /\ UNCHANGED <<pauseState, sop>>
        BY <2>3, <3>3 DEF PlayBegin
      <4>2. play'.at = "pop"
        BY <4>1 DEF PlayGoes
      <4> QED BY <2>1, <3>1, <4>1, <4>2, PlayingIdle DEF Telling, BegunPause
    <3> QED BY <3>2, <3>3
  <2>4. CASE PlayEnd
    <3>1. play.at = "got" /\ UNCHANGED <<queue, sop>>
      BY <2>4 DEF PlayEnd, Got
    <3>2. CASE state = "SPEAKING"
      <4>1. PlayGoes("tell") /\ state' \in {"SPEAKING", "IDLE"} /\ pauseState' \in {pauseState, "OFF"}
        BY <2>4, <3>2 DEF PlayEnd, AfterEnd
      <4>2. play'.at = "tell" /\ play'.entry = play.entry
        BY <4>1 DEF PlayGoes
      <4>3. OwnEnd(play.entry) /\ queue = <<>> /\ Begun
        BY <1>0, <2>4, <3>1, <3>2, EndIsOwn DEF Playing, Telling
      <4>4. Begun'
        BY <2>1, <4>3 DEF Begun
      <4> QED BY <1>0, <2>1, <3>1, <4>1, <4>2, <4>3, <4>4 DEF Playing, Telling, OwnEnd
    <3>3. CASE state # "SPEAKING"
      <4>1. PlayGoes("pop") /\ UNCHANGED <<state, pauseState>>
        BY <2>4, <3>3 DEF PlayEnd
      <4>2. play'.at = "pop"
        BY <4>1 DEF PlayGoes
      <4> QED BY <2>1, <3>1, <4>1, <4>2, PlayingIdle DEF Telling, BegunPause
    <3> QED BY <3>2, <3>3
  <2>5. CASE PlayLooks
    <3>1. play.at = "tell" /\ PlayGoes("append") /\ UNCHANGED <<flags, queue, sop>>
      BY <2>5 DEF PlayLooks
    <3>2. play'.at = "append" /\ play'.entry = play.entry
      BY <3>1 DEF PlayGoes
    <3> QED BY <1>0, <2>1, <3>1, <3>2 DEF Playing, Telling, OwnEnd, Begun, flags
  <2>6. CASE PlayDrops
    BY <1>0, <1>1, <2>6 DEF PlayDrops, PlayTold, Single
  <2>7. CASE PlayTop \/ PlayWakes \/ PlayPopStopped \/ PlayPopWaits \/ PlaySound \/ PlayPassesMark
              \/ PlayPauses
    <3>1. /\ play'.at \in {"top", "sleep", "pop"} /\ play.at \notin Telling
          /\ state' = state /\ sop' = sop
          /\ pauseState' = pauseState \/ play.at = "told"
      <4>1. ~closeRequested
        BY DEF CleanInv, Stages, Alive
      <4>2. CASE PlayTop \/ PlayPopWaits
        BY <2>7, <4>1, <4>2 DEF PlayTop, PlayPopWaits, flags, Telling
      <4>3. CASE PlayWakes \/ PlayPopStopped \/ PlaySound \/ PlayPassesMark \/ PlayPauses
        <5>1. (play' = play /\ play.at = "sleep") \/ PlayGoes("pop") \/ PlayGoes("top")
          BY <4>1, <4>3 DEF PlayWakes, PlayPopStopped, PlaySound, PlayPassesMark, PlayPauses
        <5>2. play'.at \in {"top", "sleep", "pop"}
          BY <5>1 DEF PlayGoes
        <5> QED BY <4>3, <5>2 DEF PlayWakes, PlayPopStopped, PlaySound, PlayPassesMark, PlayPauses,
                                  Got, flags, Telling
      <4> QED BY <2>7, <4>2, <4>3
    <3>2. play.at = "told" => Begun
      BY <1>0 DEF Playing
    <3> QED BY <2>1, <3>1, <3>2, PlayingIdle DEF BegunPause
  <2> QED BY <1>3, <2>2, <2>3, <2>4, <2>5, <2>6, <2>7 DEF PlaySteps, PlayWorks, PlayThread
<1>4. CASE SopAppends
  <2>1. /\ play.at = "sleep" /\ state = "IDLE" /\ sop' = "top" /\ UNCHANGED <<flags, queue, play>>
        /\ ~stopRequested
    BY <1>4, SopReports DEF CleanInv
  <2>2. pauseState' # "MARK_REPORTED"
    BY <1>0, <2>1 DEF StopStages, flags
  <2> QED BY <2>1, <2>2 DEF Playing, Telling, flags
<1>5. CASE SopSteps /\ ~SopAppends
  <2>1. UNCHANGED <<utt, events, heard, play>>
    BY <1>5 DEF SopSteps, SopWorks, SopDrops, SopLooks, Looks, SopThread, SopTop, SopWakes,
                SopIdles, SopSees, SopClears, SopResets, SopTold, outVars, eventQ, history
  <2>2. /\ queue' \in {queue, <<>>} /\ state' \in {state, "IDLE"}
        /\ BegunPause' => BegunPause
    BY <1>5 DEF SopSteps, SopWorks, SopDrops, SopLooks, SopThread, SopTop, SopWakes,
                SopIdles, SopSees, SopClears, SopResets, SopTold, flags, BegunPause
  <2> QED BY <2>1, <2>2, PlayingStays
<1>6. CASE SpeakSent
  <2>1. /\ state' = "BEFORE_SYNTH" /\ play' = play /\ play.at \in {"top", "sleep"} /\ sop' = sop
        /\ sop \notin TellSop /\ pauseState' = "OFF"
    BY <1>0, <1>6, SentFresh DEF Stopping
  <2>2. events' = <<>> /\ ~heard'
    BY <1>6 DEF SpeakSent, eventQ, CleanInv, Delivered
  <2> QED BY <2>1, <2>2 DEF Playing, Telling, TellSop
<1>7. CASE TakeEvent
  <2>1. events # <<>> /\ UNCHANGED <<queue, play, state, pauseState, sop, utt>>
    BY <1>7, TakeCases DEF TakeEvent, queueVars, flags
  <2>2. Begun => Begun'
    BY <1>0, <1>7, BegunStays DEF TakeEvent, SpeakSent
  <2> QED BY <1>0, <2>1, <2>2 DEF Playing, OwnEnd, Old, OwnPart, Telling
<1>8. CASE OutputThread
  <2>1. UNCHANGED <<utt, events, heard, play, sop>>
    BY <1>0, <1>8 DEF OutputThread, ReadEvent, ActQueue, ActAudio, ActStop, ActStopReturns,
                ActEndQueued, ActPauseAtMark, BeforePlay, Push, Pause, AddAudio,
                WaitForRoom, StopAndWait, queueVars, flags, readerElse, readerOthers, eventQ
  <2>2. BegunPause' => BegunPause
    BY <1>8, <2>1 DEF OutputThread, ReadEvent, ActQueue, ActAudio, ActStop, ActStopReturns,
                ActEndQueued, ActPauseAtMark, ActBroken, BeforePlay, Push, Pause, AddAudio,
                WaitForRoom, StopAndWait, queueVars, flags, BegunPause
  <2>3. CASE state' # state
    <3>1. state = "BEFORE_SYNTH" /\ state' = "BEFORE_PLAY"
      BY <1>0, <1>8, <2>3 DEF OutputThread, ReadEvent, ActQueue, ActAudio, ActStop, ActStopReturns,
                ActEndQueued, ActPauseAtMark, BeforePlay, Push, Pause, AddAudio,
                WaitForRoom, StopAndWait, queueVars, flags
    <3>2. play.at \in {"top", "sleep"} /\ events = <<>> /\ ~heard
      BY <1>0, <3>1 DEF Single, Playing
    <3> QED BY <1>0, <2>1, <2>2, <3>1, <3>2 DEF Playing, Telling, BegunPause, Begun
  <2>4. CASE state' = state /\ queue' # queue
    <3>1. /\ reader.at = "act" /\ OpDone
          /\ Head(reader.todo) \in {"AUDIO", "MARK", "SD_MARK", "SOUND_ICON", "END"}
      BY <1>0, <1>8, <2>4 DEF OutputThread, ReadEvent, ActQueue, ActAudio, ActStop, ActStopReturns,
                ActEndQueued, ActPauseAtMark, BeforePlay, Push, Pause, AddAudio, Doing,
                WaitForRoom, StopAndWait, queueVars, flags
    <3>2. ~HasEnd
      BY <3>1, NoEndYet
    <3> QED BY <2>1, <2>2, <2>4, <3>2, PlayingStays
  <2>5. CASE state' = state /\ queue' = queue
    BY <2>1, <2>2, <2>5, PlayingStays
  <2> QED BY <2>3, <2>4, <2>5
<1>9. CASE SpeakRefused \/ Joined \/ ControlSteps \/ Requests \/ Quit \/ UNCHANGED vars
             \/ \E m \in Modules : SpeakBegins(m)
  <2>1. UNCHANGED <<utt, events, heard, play, sop, queue, state>>
    BY <1>9 DEF SpeakRefused, Joined, SpeakBegins, Clean,
              ControlSteps, StopReturns, OutputStopFlushes, OutputTells, QuitDone, Flush,
              Requests, OutputStop, OutputStopDirectly, OutputPause, OutputPauseDirectly,
              StopAndWait, Pause, Quit, Terminate, queueVars, flags, controlElse, eventQ, history,
              vars, outVars
  <2>2. pauseState' = "MARK_REPORTED" => pauseState = "MARK_REPORTED"
    BY <1>9 DEF SpeakRefused, Joined, SpeakBegins, Clean,
              ControlSteps, StopReturns, OutputStopFlushes, OutputTells, QuitDone, Flush,
              Requests, OutputStop, OutputStopDirectly, OutputPause, OutputPauseDirectly,
              StopAndWait, Pause, Quit, Terminate, queueVars, flags, vars
  <2> QED BY <2>1, <2>2, PlayingStays DEF BegunPause
<1> QED BY <1>2, <1>3, <1>4, <1>5, <1>6, <1>7, <1>8, <1>9 DEF Next, SpeakerSteps

-----------------------------------------------------------------------------
(* What the speak() thread is told.                                        *)

LEMMA SessionSteps ==
  ASSUME Typed, [Next]_vars, ~crossed', ~spoilt'
  PROVE  \/ UNCHANGED <<speaker, heard, asked, handled, utt>>
         \/ SpeakSent \/ TakeEvent
         \/ /\ UNCHANGED <<heard, asked, handled, utt>>
            /\ speaker' # "listen" /\ (speaker # "listen" \/ Quit)
         \/ Requests /\ UNCHANGED <<speaker, heard, handled, utt>>
PROOF
<1>1. CASE PlaySteps \/ SopSteps
  BY <1>1 DEF PlaySteps, PlayWorks, PlayDrops, PlayLooks, PlayAppends, SopSteps, SopWorks,
            SopDrops, SopLooks, SopAppends, outVars, threads, history
<1>2. CASE SpeakRefused \/ Joined \/ \E m \in Modules : SpeakBegins(m)
  BY <1>2 DEF SpeakRefused, Joined, SpeakBegins, history
<1>3. CASE ControlSteps \/ Quit
  BY <1>3 DEF ControlSteps, StopReturns, OutputStopFlushes, OutputTells, QuitDone, Quit,
              controlElse, history
<1>4. CASE Requests
  BY <1>4 DEF Requests, OutputStop, OutputStopDirectly, OutputPause, OutputPauseDirectly, controlElse
<1>5. CASE OutputThread
  BY <1>5 DEF OutputThread, ReadEvent, ActQueue, ActAudio, ActStop, ActStopReturns,
              ActEndQueued, ActPauseAtMark, ActBroken, readerElse, readerOthers
<1>6. CASE UNCHANGED vars
  BY <1>6 DEF vars, outVars, threads, history
<1> QED BY <1>1, <1>2, <1>3, <1>4, <1>5, <1>6 DEF Next, SpeakerSteps

Inv == Typed /\ (Clean => CleanInv) /\ OwnEvents

LEMMA CleanInvKept ==
  ASSUME Typed, Typed', CleanInv, Clean', [Next]_vars
  PROVE  CleanInv'
PROOF
<1>1. Stages'
  BY AliveKept, DrainsKept, SynthesizedKept, StopStagesKept DEF Stages
<1>2. Reading'
  BY ReadingKept DEF CleanInv
<1> QED BY <1>1, <1>2, RequestedKept, SingleKept, QueuedKept, PlayingKept, DeliveredKept DEF CleanInv

LEMMA OwnEventsKept ==
  ASSUME Typed, Clean => CleanInv, OwnEvents, [Next]_vars
  PROVE  OwnEvents'
PROOF
<1> SUFFICES ASSUME ~crossed', ~spoilt', handled' # NoEvent
             PROVE  handled'.utt = utt'
  BY DEF OwnEvents, NoEvent
<1>1. ~crossed /\ ~spoilt
  BY StaysSpoilt
<1>2. CASE TakeEvent
  <2>1. Clean /\ 1 \in DOMAIN events /\ handled' = events[1] /\ utt' = utt
    BY <1>1, <1>2, TakeCases DEF Clean, TakeEvent
  <2> QED BY <2>1 DEF CleanInv, Delivered
<1>3. CASE SpeakSent
  BY <1>3 DEF SpeakSent
<1>4. CASE UNCHANGED <<handled, utt>>
  BY <1>1, <1>4 DEF OwnEvents, NoEvent
<1> QED BY <1>2, <1>3, <1>4, SessionSteps

LEMMA Initially == Init => Typed /\ CleanInv /\ OwnEvents
PROOF
<1> SUFFICES ASSUME Init PROVE Typed /\ CleanInv /\ OwnEvents
  OBVIOUS
<1> USE DEF Init, QueueInit
<1>1. Typed
  BY InitTyped
<1>2. Reading
  BY DEF Reading
<1>3. Requested
  BY DEF Requested, Silent
<1>4. Stages
  BY DEF Stages, Alive, Drains, Drained, Synthesized, StopStages, Stopping, TellSop, Silent
<1>5. Single
  BY DEF Single, EndTold, Stopping, Telling, TellSop, Over
<1>6. Queued
  BY DEF Queued, HasEnd
<1>7. Playing
  BY DEF Playing, Telling
<1>8. Delivered
  BY DEF Delivered
<1> QED BY <1>1, <1>2, <1>3, <1>4, <1>5, <1>6, <1>7, <1>8 DEF CleanInv, OwnEvents

LEMMA PlaybackInvariant == Spec => []Inv
PROOF
<1>1. Init => Inv
  BY Initially DEF Inv
<1>2. Inv /\ Typed' /\ [Next]_vars => Inv'
  <2> SUFFICES ASSUME Inv, Typed', [Next]_vars PROVE Inv'
    OBVIOUS
  <2>1. Clean' => CleanInv'
    BY StaysUnclean, CleanInvKept DEF Inv
  <2> QED BY <2>1, OwnEventsKept DEF Inv
<1> QED BY <1>1, <1>2, TypedInvariant, PTL DEF Spec

(* Every event that the speak() thread takes is about the message it has   *)
(* sent last, for any number of messages, requests and modules, as long as *)
(* no stop met the END of a message and no message was refused or broken:  *)
(* three threads append to playback_events, and two outlive the message    *)
(* (output_queue_event, output_is_speaking).                               *)
THEOREM OwnEventsCorrect == Spec => []OwnEvents
PROOF
  BY PlaybackInvariant, PTL DEF Inv

(* When the speak() thread knows that a message is over, the play thread   *)
(* holds no sound and none waits in the queue, for any size of the queue:  *)
(* it is cleared before STOPPED and PAUSED are reported, and END is the    *)
(* last entry of its message (speak_queue_stop_or_pause, speak_queue_play). *)
THEOREM SilenceCorrect == Spec => []Silence
PROOF
<1>1. Inv => Silence
  <2> SUFFICES ASSUME Inv, ~crossed, ~spoilt, speaker = "idle"
               PROVE  /\ ~Got({"AUDIO", "SOUND_ICON"})
                      /\ \A i \in DOMAIN queue : queue[i].type = "END"
    BY DEF Silence
  <2>1. CleanInv
    BY DEF Inv, Clean
  <2>2. state = "IDLE" /\ play.at \in {"top", "sleep"} /\ sop \notin {"poll", "clear"}
    BY <2>1 DEF CleanInv, Single, Over, Stages, StopStages, Stopping
  <2> QED BY <2>1, <2>2 DEF CleanInv, Queued, Got
<1> QED BY <1>1, PlaybackInvariant, PTL

(* A step of the output layer is one of the promised ones, or a stutter.   *)
LEMMA SessionStep ==
  ASSUME Inv, Typed', [Next]_vars
  PROVE  [Session!Next]_(Session!vars)
PROOF
<1> DEFINE phase == IF speaker # "listen" THEN "silent" ELSE IF heard THEN "begun" ELSE "open"
           mixed == crossed \/ spoilt
<1>0. /\ Typed /\ {crossed, spoilt, heard} \subseteq BOOLEAN
      /\ {crossed', spoilt', heard'} \subseteq BOOLEAN
  BY DEF Inv, Typed, PlainTypes
<1>1. CASE mixed'
  <2>1. mixed' = TRUE /\ phase' \in Session!Phases
    BY <1>1 DEF Session!Phases
  <2>2. asked' \in SUBSET Session!Asks
    BY DEF Typed, PlainTypes, Asks, Session!Asks
  <2>3. handled'.type \in Session!Events
    BY DEF Typed, EventTypes, EventType, Session!Events
  <2>4. Session!Mix
    BY <2>1, <2>2, <2>3 DEF Session!Mix
  <2> QED BY <2>4 DEF Session!Next
<1>2. CASE ~mixed'
  <2>1. ~crossed /\ ~spoilt /\ ~crossed' /\ ~spoilt' /\ mixed' = mixed
    BY <1>0, <1>2, StaysSpoilt
  <2>2. CASE SpeakSent
    <3>1. /\ speaker = "sending" /\ speaker' = "listen" /\ ~heard' /\ asked' = {}
          /\ handled'.type = "none"
      BY <2>2 DEF SpeakSent, NoEvent
    <3>2. Session!Open
      BY <2>1, <3>1 DEF Session!Open
    <3> QED BY <3>2 DEF Session!Next
  <2>3. CASE TakeEvent
    <3>1. CleanInv
      BY <2>1, <2>3 DEF TakeEvent, Clean, Inv
    <3>2. /\ handled' = events[1] /\ 1 \in DOMAIN events /\ events[1] \in Event
          /\ heard' = (heard \/ events[1].type = "begin") /\ speaker = "listen"
          /\ speaker' = IF events[1].type \in Terminal THEN "join" ELSE "listen"
          /\ asked' = asked
      BY <1>0, <2>3, TakeCases DEF TakeEvent
    <3>3. /\ events[1].type = "begin" => ~heard
          /\ events[1].type \in {"mark", "end", "pause"} => heard
          /\ events[1].type \in {"stop", "pause"} => events[1].type \in asked
          /\ events[1].type # "broken"
      BY <3>1, <3>2 DEF CleanInv, Delivered, Begun, Asks
    <3>4. CASE events[1].type = "begin"
      <4>1. Session!Begin
        BY <1>0, <2>1, <3>2, <3>3, <3>4 DEF Session!Begin, Terminal
      <4> QED BY <4>1 DEF Session!Next
    <3>5. CASE events[1].type = "mark"
      <4>1. Session!Mark
        BY <1>0, <2>1, <3>2, <3>3, <3>5 DEF Session!Mark, Terminal
      <4> QED BY <4>1 DEF Session!Next
    <3>6. CASE events[1].type \in {"end", "stop", "pause"}
      <4>1. Session!Finish
        BY <1>0, <2>1, <3>2, <3>3, <3>6 DEF Session!Finish, Terminal
      <4> QED BY <4>1 DEF Session!Next
    <3> QED BY <3>2, <3>3, <3>4, <3>5, <3>6 DEF Event, EventType
  <2>4. CASE Quit
    <3>1. speaker' = "gone" /\ asked' = asked /\ handled' = handled
      BY <2>4 DEF Quit, history
    <3>2. Session!Abandon
      BY <2>1, <3>1 DEF Session!Abandon
    <3> QED BY <3>2 DEF Session!Next
  <2>5. CASE Requests /\ UNCHANGED <<speaker, heard, handled>>
    <3>1. \E a \in Session!Asks : asked' = asked \cup {a}
      BY <2>5 DEF Requests, OutputStop, OutputStopDirectly, OutputPause, OutputPauseDirectly, MayAsk,
                  Session!Asks
    <3>2. Session!Ask
      BY <2>1, <2>5, <3>1 DEF Session!Ask
    <3> QED BY <3>2 DEF Session!Next
  <2>6. CASE UNCHANGED <<heard, asked, handled>>
             /\ (speaker' = speaker \/ (speaker' # "listen" /\ speaker # "listen"))
    BY <2>1, <2>6 DEF Session!vars
  <2> QED BY <1>0, <2>1, <2>2, <2>3, <2>4, <2>5, <2>6, SessionSteps
<1> QED BY <1>1, <1>2

(* The output layer keeps the promise of PlaybackSession to the speak()    *)
(* thread, for any number of messages and requests: BEGIN at most once and *)
(* first, marks after it, one last event, and STOPPED or PAUSED only when  *)
(* somebody asked (output_queue_event, output_is_speaking).                *)
THEOREM SessionCorrect == Spec => SessionKept
PROOF
<1>1. Init => Session!Init
  BY DEF Init, NoEvent, Session!Init
<1>2. Inv /\ Inv' /\ [Next]_vars => [Session!Next]_(Session!vars)
  BY SessionStep DEF Inv
<1> QED BY <1>1, <1>2, PlaybackInvariant, PTL DEF Spec, SessionKept, Session!Spec
=============================================================================
