----------------------------- MODULE SsipSession -----------------------------
(***************************************************************************)
(* What the server makes of the lines of its clients, up to the queueing   *)
(* of a message: serve() and parse() (src/src/server/server.c, parse.c),   *)
(* the data mode and the blocks of a connection, and the settings that SET *)
(* changes for oneself, for another client or for all (set.c).             *)
(*                                                                         *)
(* The main loop handles one line at a time, to its end.  Descriptors are  *)
(* numbers and stand for client ids too.  A text is the sequence of its    *)
(* lines with their lengths; the characters of a line, and the escaping of *)
(* dots, are in MessageText.  The numbers, switches and modes that are     *)
(* stored as they come, once their range was checked, are left out.        *)
(***************************************************************************)
EXTENDS Integers, Sequences, FiniteSets

CONSTANTS
  Descriptors,   \* what accept() may return
  Languages,     \* sequences of at most two parts: <<"en">>, <<"en", "US">>
  DefaultModule, \* language_default_modules: [part of Languages -> Modules]
  Modules,       \* names of output modules
  LineBytes,     \* lengths of the lines of texts, with the line end
  SectionVoice,  \* the voice type a client specific section of the configuration fixes
  MaxLines,      \* lines in a behaviour
  MaxQueued      \* messages in a behaviour

ASSUME SsipAssumption ==
  /\ Descriptors \subseteq Nat \ {0} /\ IsFiniteSet(Descriptors)
  /\ LineBytes \subseteq Nat \ {0, 1} /\ \E n \in LineBytes : n > 2
  /\ \A l \in Languages : Len(l) \in 1 .. 2
  /\ DOMAIN DefaultModule \subseteq Languages
  /\ {MaxLines, MaxQueued} \subseteq Nat

Unset == "unset"  \* -1 or NULL

VARIABLES
  socket,   \* speechd_sockets_status: the session on each descriptor
  settings, \* fd_settings
  maxFd,    \* SpeechdStatus.max_fd
  maxGid,   \* SpeechdStatus.max_gid
  debug,    \* SpeechdOptions.debug
  queued,   \* history: what queue_message() got, and the text the client sent
  lines     \* bound

vars == <<socket, settings, maxFd, maxGid, debug, queued, lines>>

(* sectioned is a history: SET CLIENT_NAME came after the voice was set.   *)
Default ==
  [priority |-> 3, language |-> <<"en">>,
   module |-> CHOOSE m \in Modules : TRUE, voiceType |-> "male1", voiceName |-> Unset,
   notification |-> {}, sectioned |-> FALSE]

(* buf and len are o_buf and its length.  sent and spoilt are histories:   *)
(* the lines since SPEAK, and whether a text of this connection was        *)
(* refused for its encoding, and none queued since.                        *)
Closed ==
  [open |-> FALSE, inData |-> FALSE, buf |-> <<>>, len |-> 0, bytes |-> 0, block |-> 0,
   sent |-> <<>>, spoilt |-> FALSE]

Init ==
  /\ socket = [fd \in Descriptors |-> Closed]
  /\ settings = [fd \in Descriptors |-> Default]
  /\ maxFd = 0 /\ maxGid = 0 /\ debug = FALSE /\ queued = <<>> /\ lines = 0

Open(fd) == socket[fd].open

-----------------------------------------------------------------------------
(* Connections. *)

Connect(fd) ==
  /\ ~Open(fd)
  /\ socket' = [socket EXCEPT ![fd].open = TRUE, ![fd].sent = <<>>, ![fd].spoilt = FALSE]
  /\ settings' = [settings EXCEPT ![fd] = Default]
  /\ maxFd' = IF fd > maxFd THEN fd ELSE maxFd
  /\ UNCHANGED <<maxGid, debug, queued>>

(* speechd_socket_unregister(): o_buf and the counters go with the entry.  *)
BuggyUnregistered(session) == [session EXCEPT !.open = FALSE]
Unregistered(session)      == Closed

(* The end of the connection, or BYE and QUIT outside of data mode. *)
Disconnect(fd) ==
  /\ Open(fd)
  /\ socket' = [socket EXCEPT ![fd] = Unregistered(@)]
  /\ maxFd' = IF fd = maxFd THEN maxFd - 1 ELSE maxFd
  /\ UNCHANGED <<settings, maxGid, debug, queued>>

-----------------------------------------------------------------------------
(* Messages.                                                               *)

Queue(fd, text, sent, stray) ==
  /\ Len(queued) < MaxQueued
  /\ queued' = Append(queued, [fd |-> fd, block |-> socket[fd].block,
                               priority |-> settings[fd].priority,
                               text |-> text, sent |-> sent, stray |-> stray,
                               spoilt |-> socket[fd].spoilt])

Commands(fd) == Open(fd) /\ ~socket[fd].inData

(* server_data_on() makes a new buffer and leaves o_bytes alone;           *)
(* server_data_off() clears both.                                          *)
DataOn(s)       == [s EXCEPT !.inData = TRUE, !.buf = <<>>, !.len = 0, !.sent = <<>>]
BuggyDataOff(s) == [s EXCEPT !.inData = FALSE, !.buf = <<>>, !.len = 0, !.spoilt = FALSE]
DataOff(s)      == [s EXCEPT !.inData = FALSE, !.buf = <<>>, !.len = 0, !.spoilt = FALSE,
                             !.bytes = 0]

Speak(fd) ==
  /\ Commands(fd)
  /\ socket' = [socket EXCEPT ![fd] = DataOn(@)]
  /\ UNCHANGED <<settings, maxFd, maxGid, debug, queued>>

DataLine(fd, valid, n) ==
  /\ Open(fd) /\ socket[fd].inData
  /\ n = 2 => valid
  /\ LET line == IF valid THEN "text" ELSE "invalid"
     IN  socket' = [socket EXCEPT ![fd].buf = Append(@, line),
                                  ![fd].sent = Append(@, line),
                                  ![fd].len = @ + n, ![fd].bytes = @ + n]
  /\ UNCHANGED <<settings, maxFd, maxGid, debug, queued>>

(* The dot takes the last line end off the count. *)
Stripped(n) == IF n > 2 THEN n - 2 ELSE n

(* g_utf8_validate(o_buf, o_bytes): no invalid line, and not one byte more *)
(* than the buffer holds.                                                  *)
Valid(s) == Stripped(s.bytes) <= s.len /\ \A i \in DOMAIN s.buf : s.buf[i] = "text"

(* The dot: the data mode ends, and the message is cancelled when empty,   *)
(* refused when invalid, or queued; only then server_data_off() follows.   *)
EndCancelled(fd) ==
  /\ Open(fd) /\ socket[fd].inData /\ socket[fd].bytes = 0
  /\ socket' = [socket EXCEPT ![fd].inData = FALSE]
  /\ UNCHANGED <<settings, maxFd, maxGid, debug, queued>>

(* What is left in o_bytes is added to the next text. *)
EndRefused(fd) ==
  /\ Open(fd) /\ socket[fd].inData /\ socket[fd].bytes > 0 /\ ~Valid(socket[fd])
  /\ socket' = [socket EXCEPT ![fd].inData = FALSE, ![fd].bytes = Stripped(@),
                              ![fd].spoilt = TRUE]
  /\ UNCHANGED <<settings, maxFd, maxGid, debug, queued>>

(* stray: bytes of the line end that are queued with the text. *)
EndQueued(fd) ==
  /\ Open(fd) /\ socket[fd].inData /\ socket[fd].bytes > 0 /\ Valid(socket[fd])
  /\ Queue(fd, socket[fd].buf, socket[fd].sent,
           Stripped(socket[fd].bytes) - Stripped(socket[fd].len))
  /\ socket' = [socket EXCEPT ![fd] = DataOff(@)]
  /\ UNCHANGED <<settings, maxFd, maxGid, debug>>

(* CHAR, KEY, SOUND_ICON (parse_general_event). *)
Event(fd) ==
  /\ Commands(fd)
  /\ Queue(fd, <<>>, <<>>, 0)
  /\ UNCHANGED <<socket, settings, maxFd, maxGid, debug>>

BlockBegin(fd) ==
  /\ Commands(fd) /\ socket[fd].block = 0
  /\ maxGid' = maxGid + 1
  /\ socket' = [socket EXCEPT ![fd].block = maxGid + 1]
  /\ UNCHANGED <<settings, maxFd, debug, queued>>

BlockEnd(fd) ==
  /\ Commands(fd) /\ socket[fd].block > 0
  /\ socket' = [socket EXCEPT ![fd].block = 0]
  /\ UNCHANGED <<settings, maxFd, maxGid, debug, queued>>

-----------------------------------------------------------------------------
(* SET.  Each operator gives the new settings of one client.               *)

NotInBlock(fd)      == socket[fd].block = 0

(* set_voice_uid() and set_synthesis_voice_uid() exclude each other;       *)
(* an output module has voices of its own.                                 *)
BuggySetVoiceType(s, type) == [s EXCEPT !.voiceType = type, !.sectioned = FALSE]
SetVoiceType(s, type)      == [s EXCEPT !.voiceType = type, !.voiceName = Unset,
                                                !.sectioned = FALSE]
SetSynthesisVoice(s, name) == [s EXCEPT !.voiceName = name, !.voiceType = Unset,
                                                !.sectioned = FALSE]
SetModule(s, module)       == [s EXCEPT !.module = module, !.voiceName = Unset, !.sectioned = FALSE]

HasDefault(language) == language \in DOMAIN DefaultModule

(* A language may bring its module along; en-US falls back on en.          *)
ModuleFor(language) ==
  IF HasDefault(language) THEN {DefaultModule[language]}
  ELSE IF Len(language) = 2 /\ HasDefault(<<language[1]>>)
       THEN {DefaultModule[<<language[1]>>]}
  ELSE {}

SetLanguage(s, language) ==
  LET t == [s EXCEPT !.language = language]
  IN  IF ModuleFor(language) = {} THEN t
      ELSE SetModule(t, CHOOSE m \in ModuleFor(language) : TRUE)

(* strchr() and `*dash = 0' change the caller's string: the next client of *)
(* SET ALL is given what is left of it.                                    *)
AfterUse(language) ==
  IF HasDefault(language) \/ Len(language) = 1 THEN language ELSE <<language[1]>>

Reached      == {fd \in Descriptors : Open(fd) /\ fd <= maxFd}

First(fds) == CHOOSE fd \in fds : \A other \in fds : fd <= other

Applied(fd, param, value) ==
  CASE param = "voiceType" -> SetVoiceType(settings[fd], value)
    [] param = "voiceName" -> SetSynthesisVoice(settings[fd], value)
    [] param = "module"    -> SetModule(settings[fd], value)
    [] param = "language"  -> SetLanguage(settings[fd], value)

Values(param) ==
  CASE param = "voiceType" -> {"female1"}
    [] param = "voiceName" -> {"alice"}
    [] param = "module"    -> Modules
    [] param = "language"  -> Languages

Params == {"voiceType", "voiceName", "module", "language"}

(* SET SELF and SET <id>; OUTPUT_MODULE and SPELLING not in one's own block. *)
SetOne(fd, target, param, value) ==
  /\ Commands(fd) /\ Open(target)
  /\ param = "module" => NotInBlock(fd)
  /\ settings' = [settings EXCEPT ![target] = Applied(target, param, value)]
  /\ UNCHANGED <<socket, maxFd, maxGid, debug, queued>>

SetAll(fd, param, value) ==
  /\ Commands(fd)
  /\ param = "module" => NotInBlock(fd)
  /\ settings' = [to \in Descriptors |->
       IF to \notin Reached THEN settings[to]
       ELSE Applied(to, param,
              IF param = "language" /\ to # First(Reached) THEN AfterUse(value) ELSE value)]
  /\ UNCHANGED <<socket, maxFd, maxGid, debug, queued>>

(* Only for oneself, and not inside a block. *)
SetPriority(fd, priority) ==
  /\ Commands(fd) /\ NotInBlock(fd)
  /\ settings' = [settings EXCEPT ![fd].priority = priority]
  /\ UNCHANGED <<socket, maxFd, maxGid, debug, queued>>

(* SET SELF CLIENT_NAME applies the client specific section that matches.  *)
SetClientName(fd) ==
  /\ Commands(fd) /\ NotInBlock(fd)
  /\ settings' = [settings EXCEPT ![fd].voiceType = SectionVoice, ![fd].sectioned = TRUE]
  /\ UNCHANGED <<socket, maxFd, maxGid, debug, queued>>

(* SET SELF NOTIFICATION, also inside a block. *)
SetNotification(fd, kinds, on) ==
  /\ Commands(fd)
  /\ settings' = [settings EXCEPT ![fd].notification = IF on THEN @ \union kinds ELSE @ \ kinds]
  /\ UNCHANGED <<socket, maxFd, maxGid, debug, queued>>

(* set_debug_uid() refuses what is set already; SET ALL calls it once per  *)
(* client, so that with two clients the reply is an error and DEBUG is set.*)
SetDebug(fd, on) ==
  /\ Commands(fd)
  /\ debug' = on
  /\ UNCHANGED <<socket, settings, maxFd, maxGid, queued>>

-----------------------------------------------------------------------------
Line(fd) ==
  \/ Speak(fd) \/ (\E valid \in BOOLEAN, n \in LineBytes : DataLine(fd, valid, n))
  \/ EndCancelled(fd) \/ EndRefused(fd) \/ EndQueued(fd)
  \/ Event(fd) \/ BlockBegin(fd) \/ BlockEnd(fd)
  \/ (\E priority \in {1, 3} : SetPriority(fd, priority)) \/ SetClientName(fd)
  \/ (\E on \in BOOLEAN : SetNotification(fd, {"end"}, on) \/ SetDebug(fd, on))
  \/ \E param \in Params : \E value \in Values(param) :
       SetAll(fd, param, value) \/ \E to \in Descriptors : SetOne(fd, to, param, value)

Next ==
  /\ lines < MaxLines /\ lines' = lines + 1
  /\ \E fd \in Descriptors : Connect(fd) \/ Disconnect(fd) \/ Line(fd)

Spec == Init /\ [][Next]_vars

-----------------------------------------------------------------------------
(* The sets and records the variables stay in.                             *)
Sessions ==
  [open: BOOLEAN, inData: BOOLEAN, spoilt: BOOLEAN, len: Nat, bytes: Nat, block: 0 .. maxGid,
   buf: Seq({"text", "invalid"}), sent: Seq({"text", "invalid"})]

TypeOK ==
  /\ socket \in [Descriptors -> Sessions]
  /\ \A fd \in Descriptors :
       /\ settings[fd].priority \in 1 .. 5
       /\ settings[fd].language \in Languages \union {<<l[1]>> : l \in Languages} \union {<<"en">>}
       /\ settings[fd].module \in Modules
  /\ maxFd \in {0} \union Descriptors \union {fd - 1 : fd \in Descriptors}
  /\ maxGid \in 0 .. MaxLines /\ debug \in BOOLEAN /\ lines \in 0 .. MaxLines

(* A queued message holds the lines its client sent after SPEAK, all of    *)
(* them and nothing of an earlier message, of one that was refused or of   *)
(* an earlier connection on the descriptor.  Its last line end is left off *)
(* whole, unless the text before it was refused.                           *)
TextOwn ==
  \A i \in DOMAIN queued :
    /\ queued[i].text = queued[i].sent
    /\ queued[i].stray = 0 \/ queued[i].spoilt

(* A text whose dot arrived is queued, unless it is empty, has an invalid  *)
(* line, or a text of the connection was refused and none queued since.    *)
RightAnswer ==
  [][\A fd \in Descriptors :
       socket[fd].inData /\ ~socket'[fd].inData /\ socket'[fd].open /\ queued' = queued =>
         \/ socket[fd].sent = <<>> \/ socket[fd].spoilt
         \/ \E i \in DOMAIN socket[fd].sent : socket[fd].sent[i] = "invalid"]_vars

(* "Delete ordinary voice settings so that we don't mix": a voice type and *)
(* a synthesis voice are never both set, unless a client specific section  *)
(* of the configuration was applied after the voice was chosen.            *)
VoiceUnmixed ==
  \A fd \in Descriptors :
    Unset \in {settings[fd].voiceType, settings[fd].voiceName} \/ settings[fd].sectioned

=============================================================================
