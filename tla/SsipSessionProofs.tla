-------------------------- MODULE SsipSessionProofs --------------------------
(***************************************************************************)
(* Proofs about SsipSession, for any set of descriptors, languages and     *)
(* modules, and any number of lines and messages.                          *)
(***************************************************************************)
EXTENDS SsipSession, TLAPS

Texts   == Seq({"text", "invalid"})
Session == [open : BOOLEAN, inData : BOOLEAN, buf : Texts, len : Nat, bytes : Nat, block : Nat,
            sent : Texts, spoilt : BOOLEAN]

(* In data mode o_buf is what the client sent; o_bytes is its length, and  *)
(* 0 outside of data mode, unless a text of the connection was refused.    *)
(* A closed descriptor has nothing left of its connection.                 *)
BufferOwn(s) ==
  /\ s.inData => s.buf = s.sent /\ s.len >= Len(s.sent)
  /\ ~s.spoilt => s.bytes = IF s.inData THEN s.len ELSE 0
  /\ ~s.open => s = Closed

SessionInv ==
  /\ socket \in [Descriptors -> Session]
  /\ maxGid \in Nat
  /\ \A fd \in Descriptors : BufferOwn(socket[fd])

(* No client has sent anything. *)
LEMMA SessionInit == Init => SessionInv
<1> SUFFICES ASSUME Init PROVE SessionInv
  OBVIOUS
<1>1. Closed \in Session
  BY DEF Closed, Session, Texts
<1>2. BufferOwn(Closed)
  BY DEF BufferOwn, Closed
<1> QED BY <1>1, <1>2 DEF Init, SessionInv

(* The empty text is a text.                                               *)
LEMMA NoText == <<>> \in Texts /\ Len(<<>>) = 0
BY DEF Texts

(* A step that gives one descriptor another session keeps the invariant if *)
(* the new session does.                                                   *)
LEMMA OneSession ==
  ASSUME SessionInv, NEW fd \in Descriptors, NEW s \in Session, BufferOwn(s),
         socket' = [socket EXCEPT ![fd] = s], maxGid' \in Nat
  PROVE  SessionInv'
BY DEF SessionInv

(* Another block changes nothing else in an open session. *)
LEMMA OtherBlock ==
  ASSUME NEW s \in Session, BufferOwn(s), s.open, NEW g \in Nat
  PROVE  [s EXCEPT !.block = g] \in Session /\ BufferOwn([s EXCEPT !.block = g])
<1> DEFINE t == [s EXCEPT !.block = g]
<1>1. t \in Session
  BY DEF Session
<1>2. /\ t.open = s.open /\ t.inData = s.inData /\ t.spoilt = s.spoilt
      /\ t.bytes = s.bytes /\ t.len = s.len /\ t.buf = s.buf /\ t.sent = s.sent
  BY DEF Session
<1> HIDE DEF t
<1>3. BufferOwn(t)
  BY <1>2 DEF BufferOwn
<1> QED BY <1>1, <1>3 DEF t

(* A SET command leaves the sessions alone. *)
LEMMA SetStep ==
  ASSUME NEW fd, NEW param, NEW value, NEW to,
         SetAll(fd, param, value) \/ SetOne(fd, to, param, value)
  PROVE  UNCHANGED <<socket, maxGid, queued>>
BY DEF SetAll, SetOne

(* Every line, and every end of a connection, keeps the invariant: one     *)
(* case per action.                                                        *)
LEMMA SessionStep ==
  ASSUME SessionInv, [Next]_vars
  PROVE  SessionInv'
<1> USE DEF SessionInv
<1>1. CASE UNCHANGED <<socket, maxGid>>
  BY <1>1
<1> SUFFICES ASSUME NEW fd \in Descriptors, Connect(fd) \/ Disconnect(fd) \/ Line(fd)
             PROVE  SessionInv'
  BY <1>1 DEF Next, vars
<1> DEFINE s == socket[fd]
<1>2. s \in Session /\ BufferOwn(s)
  OBVIOUS
<1>3. CASE Connect(fd)
  <2> DEFINE t == [s EXCEPT !.open = TRUE, !.sent = <<>>, !.spoilt = FALSE]
  <2>1. s = Closed
    BY <1>2, <1>3 DEF Connect, Open, BufferOwn
  <2>2. t \in Session
    BY <1>2, NoText DEF Session
  <2>3. t.open /\ ~t.inData /\ ~t.spoilt /\ t.bytes = 0
    BY <2>1 DEF Closed
  <2>4. BufferOwn(t)
    BY <2>3 DEF BufferOwn
  <2>5. socket' = [socket EXCEPT ![fd] = t] /\ maxGid' \in Nat
    BY <1>3 DEF Connect
  <2> QED BY <2>2, <2>4, <2>5, OneSession
<1>4. CASE Disconnect(fd)
  <2>1. Closed \in Session /\ BufferOwn(Closed)
    BY DEF Closed, Session, Texts, BufferOwn
  <2>2. socket' = [socket EXCEPT ![fd] = Closed] /\ maxGid' \in Nat
    BY <1>4 DEF Disconnect, Unregistered
  <2> QED BY <2>1, <2>2, OneSession
<1>5. CASE Speak(fd)
  <2> DEFINE t == DataOn(s)
  <2>1. t \in Session /\ t.open = s.open /\ t.spoilt = s.spoilt /\ t.inData
        /\ t.bytes = s.bytes /\ t.buf = <<>> /\ t.len = 0 /\ t.sent = <<>>
    BY <1>2, NoText DEF DataOn, Session
  <2>2. BufferOwn(t)
    BY <1>2, <1>5, <2>1, NoText DEF Speak, Commands, Open, BufferOwn
  <2>3. socket' = [socket EXCEPT ![fd] = t] /\ maxGid' \in Nat
    BY <1>5 DEF Speak
  <2> QED BY <2>1, <2>2, <2>3, OneSession
<1>6. ASSUME NEW valid \in BOOLEAN, NEW n \in LineBytes, DataLine(fd, valid, n)
      PROVE  SessionInv'
  <2> DEFINE line == IF valid THEN "text" ELSE "invalid"
             t == [s EXCEPT !.buf = Append(@, line), !.sent = Append(@, line),
                            !.len = @ + n, !.bytes = @ + n]
  <2>1. \A x \in Texts : Append(x, line) \in Texts /\ Len(Append(x, line)) = Len(x) + 1
    BY DEF Texts
  <2>2. n \in Nat /\ n > 1
    BY SsipAssumption
  <2>3. t \in Session
    <3>1. \A k \in Nat : k + n \in Nat
      BY <2>2
    <3> HIDE DEF line
    <3> QED BY <1>2, <2>1, <3>1 DEF Session
  <2>4. /\ t.open = s.open /\ t.inData = s.inData /\ t.spoilt = s.spoilt
        /\ t.bytes = s.bytes + n /\ t.len = s.len + n
        /\ t.buf = Append(s.buf, line) /\ t.sent = Append(s.sent, line)
    BY <1>2 DEF Session
  <2>5. s.inData /\ s.open
    BY <1>6 DEF DataLine, Open
  <2>6. s.len \in Nat /\ s.bytes \in Nat /\ s.buf \in Texts /\ s.sent \in Texts
        /\ Len(s.sent) \in Nat
    BY <1>2 DEF Session, Texts
  <2> HIDE DEF t, line
  <2>7. BufferOwn(t)
    <3>1. s.buf = s.sent /\ s.len >= Len(s.sent) /\ (~s.spoilt => s.bytes = s.len)
      BY <1>2, <2>5 DEF BufferOwn
    <3>2. t.buf = t.sent /\ t.len >= Len(t.sent) /\ (~t.spoilt => t.bytes = t.len)
      BY <2>1, <2>2, <2>4, <2>6, <3>1
    <3> QED BY <2>4, <2>5, <3>2 DEF BufferOwn
  <2>8. socket' = [socket EXCEPT ![fd] = t] /\ maxGid' \in Nat
    BY <1>6 DEF DataLine, t, line
  <2> QED BY <2>3, <2>7, <2>8, OneSession
<1>7. CASE EndCancelled(fd)
  <2> DEFINE t == [s EXCEPT !.inData = FALSE]
  <2>1. t \in Session /\ BufferOwn(t)
    BY <1>2, <1>7 DEF EndCancelled, Open, Session, BufferOwn
  <2>2. socket' = [socket EXCEPT ![fd] = t] /\ maxGid' \in Nat
    BY <1>7 DEF EndCancelled
  <2> QED BY <2>1, <2>2, OneSession
<1>8. CASE EndRefused(fd)
  <2> DEFINE t == [s EXCEPT !.inData = FALSE, !.bytes = Stripped(@), !.spoilt = TRUE]
  <2>1. Stripped(s.bytes) \in Nat
    BY <1>2 DEF Session, Stripped
  <2>2. t \in Session /\ BufferOwn(t)
    BY <1>2, <1>8, <2>1 DEF EndRefused, Open, Session, BufferOwn
  <2>3. socket' = [socket EXCEPT ![fd] = t] /\ maxGid' \in Nat
    BY <1>8 DEF EndRefused
  <2> QED BY <2>2, <2>3, OneSession
<1>9. CASE EndQueued(fd)
  <2> DEFINE t == DataOff(s)
  <2>1. t \in Session /\ t.open = s.open /\ ~t.inData /\ t.bytes = 0
    BY <1>2, NoText DEF DataOff, Session
  <2>2. BufferOwn(t)
    BY <1>9, <2>1 DEF EndQueued, Open, BufferOwn
  <2>3. socket' = [socket EXCEPT ![fd] = t] /\ maxGid' \in Nat
    BY <1>9 DEF EndQueued
  <2> QED BY <2>1, <2>2, <2>3, OneSession
<1>10. CASE BlockBegin(fd)
  <2> DEFINE t == [s EXCEPT !.block = maxGid + 1]
  <2>1. t \in Session /\ BufferOwn(t)
    <3>1. s.open /\ maxGid + 1 \in Nat
      BY <1>10 DEF BlockBegin, Commands, Open
    <3> QED BY <1>2, <3>1, OtherBlock
  <2>2. socket' = [socket EXCEPT ![fd] = t] /\ maxGid' \in Nat
    BY <1>10 DEF BlockBegin
  <2> QED BY <2>1, <2>2, OneSession
<1>11. CASE BlockEnd(fd)
  <2> DEFINE t == [s EXCEPT !.block = 0]
  <2>1. t \in Session /\ BufferOwn(t)
    <3>1. s.open /\ 0 \in Nat
      BY <1>11 DEF BlockEnd, Commands, Open
    <3> QED BY <1>2, <3>1, OtherBlock
  <2>2. socket' = [socket EXCEPT ![fd] = t] /\ maxGid' \in Nat
    BY <1>11 DEF BlockEnd
  <2> QED BY <2>1, <2>2, OneSession
<1>12. CASE Event(fd) \/ SetClientName(fd) \/ \E priority \in {1, 3} : SetPriority(fd, priority)
  BY <1>1, <1>12 DEF Event, SetClientName, SetPriority
<1>13. ASSUME NEW on \in BOOLEAN, SetNotification(fd, {"end"}, on) \/ SetDebug(fd, on)
       PROVE  SessionInv'
  BY <1>1, <1>13 DEF SetNotification, SetDebug
<1>14. ASSUME NEW param \in Params, NEW value \in Values(param),
              SetAll(fd, param, value) \/ \E to \in Descriptors : SetOne(fd, to, param, value)
       PROVE  SessionInv'
  BY <1>1, <1>14, SetStep
<1> QED BY <1>3, <1>4, <1>5, <1>6, <1>7, <1>8, <1>9, <1>10, <1>11, <1>12, <1>13, <1>14 DEF Line

(* The buffers of all connections hold what SessionInv says. *)
THEOREM SessionInvariant == Spec => []SessionInv
BY SessionInit, SessionStep, PTL DEF Spec

-----------------------------------------------------------------------------
(* The settings of the clients.                                            *)

LanguageNames == {<<"en">>} \cup Languages \cup {AfterUse(l) : l \in Languages}
ModuleNames   == {CHOOSE m \in Modules : TRUE} \cup Modules
                   \cup {DefaultModule[l] : l \in DOMAIN DefaultModule}

ClientSettings ==
  [priority : {1, 3}, language : LanguageNames, module : ModuleNames,
   voiceType : {Unset, "male1", "female1", SectionVoice}, voiceName : {Unset, "alice"},
   notification : SUBSET {"end"}, sectioned : BOOLEAN]

Unmixed(s) == Unset \in {s.voiceType, s.voiceName} \/ s.sectioned

VoiceInv ==
  /\ settings \in [Descriptors -> ClientSettings]
  /\ VoiceUnmixed

(* A new client's settings. *)
LEMMA DefaultOK == Default \in ClientSettings /\ Unmixed(Default)
BY DEF Default, ClientSettings, LanguageNames, ModuleNames, Unmixed, Unset

(* set_voice_uid(), set_synthesis_voice_uid() and set_output_module_uid(). *)
LEMMA VoiceSetters ==
  ASSUME NEW s \in ClientSettings, NEW m \in ModuleNames
  PROVE  /\ SetVoiceType(s, "female1") \in ClientSettings
         /\ Unmixed(SetVoiceType(s, "female1"))
         /\ SetSynthesisVoice(s, "alice") \in ClientSettings
         /\ Unmixed(SetSynthesisVoice(s, "alice"))
         /\ SetModule(s, m) \in ClientSettings
         /\ Unmixed(SetModule(s, m))
BY DEF SetVoiceType, SetSynthesisVoice, SetModule, ClientSettings, Unmixed

(* set_language_uid() with what a client asks for or what is left of it.   *)
LEMMA LanguageSetter ==
  ASSUME NEW s \in ClientSettings, Unmixed(s), NEW l \in LanguageNames
  PROVE  SetLanguage(s, l) \in ClientSettings /\ Unmixed(SetLanguage(s, l))
<1> DEFINE t == [s EXCEPT !.language = l]
<1>1. t \in ClientSettings /\ Unmixed(t)
  BY DEF ClientSettings, Unmixed
<1>2. ModuleFor(l) \subseteq ModuleNames
  BY DEF ModuleFor, ModuleNames, HasDefault
<1>3. ModuleFor(l) # {} => (CHOOSE m \in ModuleFor(l) : TRUE) \in ModuleNames
  BY <1>2
<1> QED BY <1>1, <1>3, VoiceSetters DEF SetLanguage

(* What SET makes of the settings of a client. *)
LEMMA AppliedOK ==
  ASSUME VoiceInv, NEW fd \in Descriptors, NEW param \in Params, NEW value,
         value \in Values(param) \/ (param = "language" /\ value \in LanguageNames)
  PROVE  Applied(fd, param, value) \in ClientSettings /\ Unmixed(Applied(fd, param, value))
<1>1. settings[fd] \in ClientSettings /\ Unmixed(settings[fd])
  BY DEF VoiceInv, VoiceUnmixed, Unmixed
<1>2. CASE param = "voiceType"
  <2>1. value = "female1" /\ Applied(fd, param, value) = SetVoiceType(settings[fd], value)
    BY <1>2 DEF Applied, Values
  <2> QED BY <1>1, <2>1, VoiceSetters DEF ModuleNames
<1>3. CASE param = "voiceName"
  <2>1. value = "alice" /\ Applied(fd, param, value) = SetSynthesisVoice(settings[fd], value)
    BY <1>3 DEF Applied, Values
  <2> QED BY <1>1, <2>1, VoiceSetters DEF ModuleNames
<1>4. CASE param = "module"
  BY <1>1, <1>4, VoiceSetters DEF Applied, Values, ModuleNames
<1>5. CASE param = "language"
  BY <1>1, <1>5, LanguageSetter DEF Applied, Values, LanguageNames
<1> QED BY <1>2, <1>3, <1>4, <1>5 DEF Params

(* One client's settings change, to settings that are not mixed.           *)
LEMMA OneClient ==
  ASSUME VoiceInv, NEW fd \in Descriptors, NEW s \in ClientSettings, Unmixed(s),
         settings' = [settings EXCEPT ![fd] = s]
  PROVE  VoiceInv'
BY DEF VoiceInv, VoiceUnmixed, Unmixed

(* Every step keeps the voices of the sessions unmixed.                    *)
LEMMA VoiceStep ==
  ASSUME VoiceInv, [Next]_vars
  PROVE  VoiceInv'
<1>1. CASE UNCHANGED settings
  BY <1>1 DEF VoiceInv, VoiceUnmixed
<1> SUFFICES ASSUME NEW fd \in Descriptors, Connect(fd) \/ Disconnect(fd) \/ Line(fd)
             PROVE  VoiceInv'
  BY <1>1 DEF Next, vars
<1> DEFINE s == settings[fd]
<1>2. s \in ClientSettings /\ Unmixed(s)
  BY DEF VoiceInv, VoiceUnmixed, Unmixed
<1>3. CASE Connect(fd)
  BY <1>3, DefaultOK, OneClient DEF Connect
<1>4. CASE \/ Disconnect(fd) \/ Speak(fd) \/ EndCancelled(fd) \/ EndRefused(fd)
           \/ EndQueued(fd) \/ Event(fd) \/ BlockBegin(fd) \/ BlockEnd(fd)
  BY <1>1, <1>4 DEF Disconnect, Speak, EndCancelled, EndRefused, EndQueued, Event,
                    BlockBegin, BlockEnd
<1>5. ASSUME NEW valid \in BOOLEAN, NEW n \in LineBytes, DataLine(fd, valid, n) PROVE VoiceInv'
  BY <1>1, <1>5 DEF DataLine
<1>6. ASSUME NEW priority \in {1, 3}, SetPriority(fd, priority) PROVE VoiceInv'
  <2> DEFINE t == [s EXCEPT !.priority = priority]
  <2>1. t \in ClientSettings /\ Unmixed(t)
    BY <1>2 DEF ClientSettings, Unmixed
  <2>2. settings' = [settings EXCEPT ![fd] = t]
    BY <1>6 DEF SetPriority
  <2> QED BY <2>1, <2>2, OneClient
<1>7. CASE SetClientName(fd)
  <2> DEFINE t == [s EXCEPT !.voiceType = SectionVoice, !.sectioned = TRUE]
  <2>1. t \in ClientSettings /\ Unmixed(t)
    BY <1>2 DEF ClientSettings, Unmixed
  <2>2. settings' = [settings EXCEPT ![fd] = t]
    BY <1>7 DEF SetClientName
  <2> QED BY <2>1, <2>2, OneClient
<1>8. ASSUME NEW on \in BOOLEAN, SetNotification(fd, {"end"}, on) PROVE VoiceInv'
  <2> DEFINE t == [s EXCEPT !.notification = IF on THEN @ \union {"end"} ELSE @ \ {"end"}]
  <2>1. t \in ClientSettings /\ Unmixed(t)
    BY <1>2 DEF ClientSettings, Unmixed
  <2>2. settings' = [settings EXCEPT ![fd] = t]
    BY <1>8 DEF SetNotification
  <2> QED BY <2>1, <2>2, OneClient
<1>9. ASSUME NEW on \in BOOLEAN, SetDebug(fd, on) PROVE VoiceInv'
  BY <1>1, <1>9 DEF SetDebug
<1>10. ASSUME NEW param \in Params, NEW value \in Values(param), NEW to \in Descriptors,
              SetOne(fd, to, param, value)
       PROVE  VoiceInv'
  BY <1>10, AppliedOK, OneClient DEF SetOne
<1>11. ASSUME NEW param \in Params, NEW value \in Values(param), SetAll(fd, param, value)
       PROVE  VoiceInv'
  <2> DEFINE given(to) == IF param = "language" /\ to # First(Reached)
                          THEN AfterUse(value) ELSE value
             new(to)   == IF to \notin Reached THEN settings[to]
                          ELSE Applied(to, param, given(to))
  <2>1. ASSUME NEW to \in Descriptors
        PROVE  new(to) \in ClientSettings /\ Unmixed(new(to))
    <3>1. given(to) \in Values(param) \/ (param = "language" /\ given(to) \in LanguageNames)
      BY DEF Values, LanguageNames
    <3>2. Applied(to, param, given(to)) \in ClientSettings
          /\ Unmixed(Applied(to, param, given(to)))
      BY <3>1, AppliedOK
    <3>3. settings[to] \in ClientSettings /\ Unmixed(settings[to])
      BY DEF VoiceInv, VoiceUnmixed, Unmixed
    <3> QED BY <3>2, <3>3
  <2>2. settings' = [to \in Descriptors |-> new(to)]
    BY <1>11 DEF SetAll
  <2> QED BY <2>1, <2>2 DEF VoiceInv, VoiceUnmixed, Unmixed
<1> QED BY <1>3, <1>4, <1>5, <1>6, <1>7, <1>8, <1>9, <1>10, <1>11 DEF Line

(* A voice type and a synthesis voice are never both set, unless a client  *)
(* specific section of the configuration came after the voice.             *)
THEOREM VoiceCorrect == Spec => []VoiceUnmixed
<1>1. Init => VoiceInv
  BY DefaultOK DEF Init, VoiceInv, VoiceUnmixed, Unmixed
<1>2. VoiceInv => VoiceUnmixed
  BY DEF VoiceInv
<1> QED BY <1>1, <1>2, VoiceStep, PTL DEF Spec

-----------------------------------------------------------------------------
(* What is queued.                                                         *)

QueuedMessage ==
  [fd : Descriptors, block : Nat, priority : {1, 3}, text : Texts, sent : Texts, stray : Int,
   spoilt : BOOLEAN]

(* queue_message() appends one message with the text it was given.         *)
LEMMA QueueStep ==
  ASSUME SessionInv, VoiceInv, queued \in Seq(QueuedMessage), TextOwn,
         NEW fd \in Descriptors, NEW text \in Texts, NEW stray \in Int,
         stray = 0 \/ socket[fd].spoilt, Queue(fd, text, text, stray)
  PROVE  queued' \in Seq(QueuedMessage) /\ TextOwn' /\ queued' # queued
<1> DEFINE m == [fd |-> fd, block |-> socket[fd].block,
                 priority |-> settings[fd].priority, text |-> text, sent |-> text,
                 stray |-> stray, spoilt |-> socket[fd].spoilt]
<1>1. m \in QueuedMessage
  BY DEF SessionInv, VoiceInv, Session, ClientSettings, QueuedMessage
<1>2. m.text = m.sent /\ (m.stray = 0 \/ m.spoilt)
  OBVIOUS
<1>3. queued' = Append(queued, m)
  BY DEF Queue
<1> HIDE DEF m
<1>4. /\ queued' \in Seq(QueuedMessage) /\ Len(queued') = Len(queued) + 1
      /\ DOMAIN queued' = 1 .. Len(queued) + 1 /\ queued'[Len(queued) + 1] = m
      /\ \A i \in DOMAIN queued : queued'[i] = queued[i]
  BY <1>1, <1>3
<1> QED BY <1>2, <1>4 DEF TextOwn

(* Only the dot of a valid text, and CHAR, KEY and SOUND_ICON, queue.      *)
LEMMA WhatIsQueued ==
  ASSUME [Next]_vars
  PROVE  \/ queued' = queued
         \/ \E fd \in Descriptors : EndQueued(fd) \/ Event(fd)
<1> SUFFICES ASSUME NEW fd \in Descriptors, Connect(fd) \/ Disconnect(fd) \/ Line(fd)
             PROVE  queued' = queued \/ EndQueued(fd) \/ Event(fd)
  BY DEF Next, vars
<1>1. CASE Connect(fd) \/ Disconnect(fd)
  BY <1>1 DEF Connect, Disconnect
<1>2. ASSUME NEW valid \in BOOLEAN, NEW n \in LineBytes, DataLine(fd, valid, n)
      PROVE  queued' = queued
  BY <1>2 DEF DataLine
<1>3. CASE Line(fd)
  BY <1>2, <1>3, SetStep
     DEF Line, Speak, EndCancelled, EndRefused, BlockBegin, BlockEnd, SetPriority,
         SetClientName, SetNotification, SetDebug
<1> QED BY <1>1, <1>3

TextInv == queued \in Seq(QueuedMessage) /\ TextOwn

(* In data mode nothing strays, unless a text was refused. *)
LEMMA StrayBytes ==
  ASSUME SessionInv, NEW fd \in Descriptors, EndQueued(fd)
  PROVE  LET stray == Stripped(socket[fd].bytes) - Stripped(socket[fd].len)
         IN  stray \in Int /\ (stray = 0 \/ socket[fd].spoilt)
<1> DEFINE s == socket[fd]
<1>1. s.bytes \in Nat /\ s.len \in Nat /\ s.spoilt \in BOOLEAN /\ (~s.spoilt => s.bytes = s.len)
  BY DEF SessionInv, Session, BufferOwn, EndQueued
<1>2. \A n \in Nat : Stripped(n) \in Nat
  BY DEF Stripped
<1>3. s.spoilt => s.spoilt = TRUE
  OBVIOUS
<1> QED BY <1>1, <1>2, <1>3

(* Every step keeps a queued text the one its client sent.                 *)
LEMMA TextStep ==
  ASSUME SessionInv, VoiceInv, TextInv, [Next]_vars
  PROVE  TextInv'
<1>1. CASE queued' = queued
  BY <1>1 DEF TextInv, TextOwn
<1>2. ASSUME NEW fd \in Descriptors, EndQueued(fd) PROVE TextInv'
  <2> DEFINE s == socket[fd]
             stray == Stripped(s.bytes) - Stripped(s.len)
  <2>1. s.buf = s.sent /\ s.buf \in Texts
    BY <1>2 DEF EndQueued, SessionInv, Session, BufferOwn
  <2>2. stray \in Int /\ (stray = 0 \/ s.spoilt)
    BY <1>2, StrayBytes
  <2>3. Queue(fd, s.buf, s.buf, stray)
    BY <1>2, <2>1 DEF EndQueued
  <2> HIDE DEF stray
  <2> QED BY <2>1, <2>2, <2>3, QueueStep DEF TextInv
<1>3. ASSUME NEW fd \in Descriptors, Event(fd) PROVE TextInv'
  BY <1>3, NoText, QueueStep DEF Event, TextInv
<1> QED BY <1>1, <1>2, <1>3, WhatIsQueued

(* The invariants hold together.                                           *)
LEMMA AllInvariants == Spec => [](SessionInv /\ VoiceInv /\ TextInv)
<1>1. Init => VoiceInv
  BY DefaultOK DEF Init, VoiceInv, VoiceUnmixed, Unmixed
<1>2. Init => TextInv
  BY DEF Init, TextInv, TextOwn
<1> QED BY <1>1, <1>2, SessionInit, SessionStep, VoiceStep, TextStep, PTL DEF Spec

(* A queued message holds the lines its client sent after SPEAK, all of    *)
(* them and nothing else.                                                  *)
THEOREM TextCorrect == Spec => []TextOwn
<1>1. TextInv => TextOwn
  BY DEF TextInv
<1> QED BY <1>1, AllInvariants, PTL

(* Who leaves the data mode without leaving the server met the dot.        *)
LEMMA LeavesDataMode ==
  ASSUME SessionInv, [Next]_vars,
         NEW fd \in Descriptors, socket[fd].inData, ~socket'[fd].inData, socket'[fd].open
  PROVE  EndCancelled(fd) \/ EndRefused(fd) \/ EndQueued(fd)
<1>1. socket[fd] \in Session /\ BufferOwn(socket[fd]) /\ socket[fd].open
  BY DEF SessionInv, BufferOwn, Closed
<1>2. socket' # socket
  OBVIOUS
<1>3. PICK by \in Descriptors : Connect(by) \/ Disconnect(by) \/ Line(by)
  BY <1>2 DEF Next, vars
<1>4. \A s : socket' = [socket EXCEPT ![by] = s] => by = fd /\ s = socket'[fd]
  BY DEF SessionInv
<1>5. ~(Connect(by) \/ Disconnect(by))
  <2>1. ASSUME Connect(by) PROVE FALSE
    BY <1>1, <1>4, <2>1 DEF Connect, Open
  <2>2. ASSUME Disconnect(by) PROVE FALSE
    BY <1>4, <2>2 DEF Disconnect, Unregistered, Closed
  <2> QED BY <2>1, <2>2
<1>6. ~(Speak(by) \/ BlockBegin(by) \/ BlockEnd(by) 
        \/ \E valid \in BOOLEAN, n \in LineBytes : DataLine(by, valid, n))
  <2>1. ASSUME Speak(by) \/ BlockBegin(by) \/ BlockEnd(by) PROVE FALSE
    BY <1>1, <1>4, <2>1 DEF Speak, BlockBegin, BlockEnd, Commands, DataOn
  <2>2. ASSUME NEW valid \in BOOLEAN, NEW n \in LineBytes, DataLine(by, valid, n) PROVE FALSE
    BY <1>1, <1>4, <2>2 DEF DataLine, Session
  <2> QED BY <2>1, <2>2
<1>7. EndCancelled(by) \/ EndRefused(by) \/ EndQueued(by)
  BY <1>2, <1>3, <1>5, <1>6, SetStep
     DEF Line, Event, SetPriority, SetClientName, SetNotification, SetDebug
<1>8. by = fd
  BY <1>4, <1>7 DEF EndCancelled, EndRefused, EndQueued
<1> QED BY <1>7, <1>8

(* A text that is not queued was empty, invalid, or came after a text of   *)
(* the same connection that was refused for its encoding.                  *)
LEMMA AnswerStep ==
  ASSUME SessionInv, VoiceInv, TextInv, [Next]_vars,
         NEW fd \in Descriptors, socket[fd].inData, ~socket'[fd].inData,
         socket'[fd].open, queued' = queued
  PROVE  \/ socket[fd].sent = <<>> \/ socket[fd].spoilt
         \/ \E i \in DOMAIN socket[fd].sent : socket[fd].sent[i] = "invalid"
<1>1. /\ socket[fd] \in Session /\ socket[fd].buf = socket[fd].sent
      /\ socket[fd].len >= Len(socket[fd].sent)
      /\ ~socket[fd].spoilt => socket[fd].bytes = socket[fd].len
  BY DEF SessionInv, BufferOwn
<1>2. ~EndQueued(fd)
  BY DEF EndQueued, Queue, TextInv
<1>3. CASE EndCancelled(fd)
  <2>1. ~socket[fd].spoilt => Len(socket[fd].sent) = 0
    <3>1. Len(socket[fd].sent) \in Nat
      BY <1>1 DEF Session, Texts
    <3> QED BY <1>1, <1>3, <3>1 DEF EndCancelled
  <2>2. socket[fd].sent \in Texts
    BY <1>1 DEF Session
  <2>3. Len(socket[fd].sent) = 0 => socket[fd].sent = <<>>
    BY <2>2 DEF Texts
  <2> QED BY <2>1, <2>3
<1>4. CASE EndRefused(fd)
  <2>1. socket[fd].sent \in Texts
    BY <1>1 DEF Session
  <2>2. \A i \in DOMAIN socket[fd].sent : socket[fd].sent[i] \in {"text", "invalid"}
    BY <2>1 DEF Texts
  <2>3. ~socket[fd].spoilt => Stripped(socket[fd].bytes) <= socket[fd].len
    BY <1>1 DEF Session, Stripped
  <2> QED BY <1>1, <1>4, <2>2, <2>3 DEF EndRefused, Valid
<1> QED BY <1>2, <1>3, <1>4, LeavesDataMode

(* SPEAK is answered by a queued message whenever its text deserves it.    *)
THEOREM AnswerCorrect == Spec => RightAnswer
<1>1. SessionInv /\ VoiceInv /\ TextInv /\ [Next]_vars =>
        [\A fd \in Descriptors :
           socket[fd].inData /\ ~socket'[fd].inData /\ socket'[fd].open /\ queued' = queued =>
             \/ socket[fd].sent = <<>> \/ socket[fd].spoilt
             \/ \E i \in DOMAIN socket[fd].sent : socket[fd].sent[i] = "invalid"]_vars
  BY AnswerStep
<1> QED BY <1>1, AllInvariants, PTL DEF Spec, RightAnswer
=============================================================================
