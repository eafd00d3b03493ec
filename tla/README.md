# Speech Dispatcher: a TLA+ verification project

Speech Dispatcher takes messages from many clients over SSIP (a line protocol
on sockets), orders them by priority, and gives them one at a time to an output
module, a separate process that synthesizes speech and reports what became of
it. This project follows a message all the way: from a call of a client library
through the server's parser, its queues and its two threads, over the pipe of a
module, through the module, and back as sound and events.

In `PROJECT.json` a path starts with the name of the checkout, `src/`; below,
`server/speaking.c` is the repository's `src/server/speaking.c`, and so on.

## 1. Inventory

| part | code | state | operations | hard because |
|---|---|---|---|---|
| message queues, speak() thread | `server/speaking.c` | `MessageQueue->p1..p5`, `MessagePausedList`, `last_p5_block`, `current_message`, `SPEAKING`, `highest_priority`, `speaking_uid/gid`, `speaking_module`, `poll_count`, `pause_requested(_uid)`, `resume_requested` | one pass of `speak()`; stop, cancel, pause and resume of one client or of all; `resolve_priorities()`; `is_sb_speaking()` | two threads, one mutex that covers the queues but not the flags; wake-ups counted in a pipe |
| queueing | `server/server.c` | `last_message_id` | `queue_message()`, `serve()` | called by both threads; copies progress messages |
| connections, settings | `server/speechd.c`, `server/set.c` | `fd_settings`, `fd_uid`, `SpeechdStatus` | connect, disconnect, `SET` | settings outlive the connection; descriptors are reused; other sessions change them |
| SSIP session and parser | `server/parse.c` | `speechd_sockets_status` (data mode, block) | one handler per command | a session is a state machine over lines |
| output layer | `server/output.c` | `playback_events`, `output_*_requested/queued`; per module: pipe, `reply`, `event`, `reading_message` | `output_speak/stop/pause`, `output_read_reply/_event`, `output_thread_func()` | two threads read one pipe and hand each other's lines over; three threads append to one list |
| playback queue | `common/speak_queue.c` | `playback_queue`, its size, stop, pause, flush and close requests | before_synth, add_audio, add_end, stop, pause; play and stop_or_pause threads | four condition variables, a bounded buffer |
| text of a message | `server/index_marking.c`, `parse.c`, `output.c` | `msg->buf` | doubling and undoing of dots, insert, find and strip marks | the text is transformed back and forth |
| modules' life | `server/module.c`, `speechd.c` | module table, requested modules, descriptors, the shutdown timer | load, unload, reload, new configuration, quit | processes that die, one main loop that is busy meanwhile |
| module side | `modules/module_process.c`, `module_readline.c`, `module_utils.c`, one file per synthesizer | stop and pause flags, the buffer of input | SPEAK, STOP, PAUSE, events | commands arrive within the synthesis |
| audio backends | `common/spd_audio.c`, `audio/*.c` | device, buffers | begin, feed, end, stop | stopped by another thread at any point |
| client libraries | `api/c/libspeechd.c`, `api/python/speechd/client.py` | reply buffer, two condition variables; a list and a semaphore | calls, events thread | replies and events share a socket |
| history, configuration, options, symbols, command line clients | see `PROJECT.json` | | | section 7 |

**How they interact.** The main thread runs a GLib main loop: a readable client
socket means one SSIP command, executed to its end. Commands that touch the
queues take `element_free_mutex`. `speak()` sleeps in `poll()` on
`speaking_pipe` (a byte for each `speaking_semaphore_post()`) and, while a
message is spoken, on the module's `pipe_speak` (a byte for each playback
event). PAUSE and RESUME are only *requests*: flags that the main thread sets
without a lock and `speak()` clears without a lock. For each message
`output_speak()` starts an output thread that reads the module's events; when
the server plays the sound, it feeds the playback queue, whose two threads
report the events in step with the sound. Replies to commands come through the
same pipe as events.

**What makes it correct.** No message is lost, spoken twice at once or freed
twice; the flags describe the session that is really open; priorities interrupt
and purge as documented; no thread sleeps on work; every event belongs to the
message it is told for; what is stopped is silent and what is not is whole;
every command gets its own reply; a text is spoken as it was written.

The hazards, each at its line and with the properties that cover it, are listed
in `PROJECT.json` ("hazards").

## 2. Modules

| module | models | extends or composes |
|---|---|---|
| `MsgQueue` | the GList operations of `speaking.c`: a list is a sequence, a removal keeps a set of positions, so no recursion is needed and the operators can be proved about | |
| `Speaking` | `speaking.c`, `queue_message()`, connections, the control commands of `parse.c` | `MsgQueue` |
| `MCSpeaking` | TLC's module, with claims of documents and comments that the code does not keep | `Speaking` |
| `SpeakingProofs` | lemmas about lists; theorems about the state of the server and about what becomes of messages | `Speaking` |
| `PlaybackProofs`, `ModulePipeProofs`, `SsipSessionProofs`, `ClientsProofs`, `ModulesProofs`, `AudioProofs` | theorems about the module they are named after | that module |
| `ModuleProcessProofs` | theorems about a module process: its life, and the text it is given | `ModuleLife`, `ModuleInput` |
| `PlaybackSession` | *abstract*: what the output layer promises `speak()` about a message | |
| `SpeakQueue` | `speak_queue.c` | |
| `Playback`, `MCPlayback` | `output_speak/stop/pause`, the output thread, `playback_events` | extends `SpeakQueue`, implements `PlaybackSession` |
| `ModulePipe` | the two readers of a module's pipe | |
| `SsipSession`, `MCSsip` | lines, data mode, blocks, SET | |
| `MessageText` | operators: every transformation of a text | |
| `ModuleInput` | a text on its way through pipe, buffer and lines to the synthesizer | extends `MessageText` |
| `ModuleContract` | *abstract*: what a module promises the server | |
| `ModuleSide`, `Modules` | thirteen kinds of module, their main thread, worker and child | implements `ModuleContract` |
| `ModuleLoad`, `ModuleLife`, `MCModuleLife` | which modules are loaded and chosen; the main loop, crashes, reloads, signals, the timer | |
| `AudioPlayer` and `AlsaDevice`, `PulseDevice`, `PipewireDevice`, `OssDevice`, `LibaoDevice`, `NasDevice`; `Audio` | the threads that play and stop, six sound systems, and their composition | |
| `ClientLibrary`, `LibSpeechd`, `PythonClient`; `Clients` | what the libraries share, each library, and a program that uses one of them | |

The operators `Buggy...` (and `SilentReplyerTakes`) are not the code: each is a
plausible fault of a definition near it, put in its place to see that a
property notices.

### Speaking

*State.* A message is a heap object: `obj` is its address and `id` the number
the client was given; a progress message and its copy in `last_p5_block` share
an id. `settings`, `fdUid` and `inside` are the hash tables `fd_settings`,
`fd_uid` and `speechd_sockets_status`; `priority = 0` stands for "not in the
table". `sess` is what a module was asked to do and `evq` is `playback_events`.
`life` is the last event that was written to a client for each message,
`dangling` the freed objects that a list still holds, `fault` the reason why
the server died; after a fault nothing moves.

*Atomicity.* `element_free_mutex` is held by `speak()` from the moment it looks
for a message until it returns to `poll()`, and by every command that touches
the queues; each such section is one action. What happens outside is split:
`CancelAll`/`CancelAllQueues`, `Pause`/`PausePost`, `ResumeClient`/`ResumePost`,
`HandlePause`/`ClearPause`, `ResumeOne`/`ResumeEnd`/`ResumeClear`,
`TransferOne`/`TransferLast`.

| action | code |
|---|---|
| `Connect`, `Disconnect` | `speechd_connection_new()`, `speechd_connection_destroy()` |
| `SetPriority`, `BlockBegin`, `BlockEnd`, `Queue` | `SET SELF PRIORITY`, `BLOCK BEGIN/END`, `SPEAK` with `queue_message()` and `resolve_priorities()` |
| `Stop`, `StopAll`, `Cancel`, `CancelAll`, `CancelAllQueues` | `speaking_stop()` ... `speaking_cancel_all()` |
| `Pause`, `PausePost`, `PauseAll`, `Resume`, `ResumeClient`, `ResumePost` | `parse_pause()`, `parse_resume()`, `speaking_resume(_all)()` |
| `PollWake`, `HandleBegin`, `HandleMark`, `HandleDone`, `HandlePaused`, `HandleBroken` | `poll()` and `is_sb_speaking()` |
| `HandlePause`, `ClearPause`, `CheckSpeaking` | the pause part of a pass, `speaking_pause(_all)()` |
| `ResumeOne`, `ResumeEnd`, `ResumeClear` | the resume part, `reload_message()` |
| `TransferOne`, `TransferLast` | "Handle postponed priority progress message" |
| `TakeNothing`, `TakeFails`, `TakeSpeak` | `get_message_from_queues()`, `output_speak()`, release of the former message |
| `EmitBegin`, `EmitMark`, `EmitTerminal` | what `PlaybackSession` promises |

*Abstractions.* A module may finish although it was asked to stop or pause (its
answer was under way), and where modules may fail `output_pause()` may, which
leaves the message out of `MessagePausedList`. Notifications are on for all
clients. The two reads of `pause_requested` in one pass are one step. The
branch after `get_message_from_queues()` for a paused message is left out: the
function returns only messages whose client is not paused, under the same
mutex. The initial `max_fd` is the listening socket's descriptor, 0 in the
model.

### Playback

Each section under `speak_queue_mutex` is an action (the look at
`play_sleeping`, which is outside it, one of its own: `SopSees`); a thread in
`pthread_cond_wait` is in `asleep` and moves only when a signal or broadcast
took it out. An entry carries the message it was pushed for, for the properties
only. The module is the environment and sends BEGIN first; what it sends is
chosen when it is read. Two histories name what the code does not get right:
`crossed` (END was taken while a stop was carried out; a stop or pause came
while the stop_or_pause thread was not waiting; a STOPPED was ignored because
of a pause whose mark had passed) and `spoilt` (a message was refused or a pipe
broke in the middle). The properties are stated up to them.

### ModulePipe

Commands are serialised by `output_lock()`, so there is one replyer beside the
output thread; the sections under `read_mutex` are the actions. The data of a
message is accepted with a single reply. `Forgotten` is the one state in which
the output thread sleeps though nobody reads: the replyer read its own reply
and signalled `reply_cond` only.

### Modules

A text is a number of parts, each followed by a mark if the kind reports marks.
A synthesis may fail (`SynthesisFails`): flite, kali and festival then report a
stop that nobody ordered, the others end as if all had been said, espeak and
festival even before they began; the contract allows this for a message whose
orders have `FAILURE` in them. A SPEAK that is refused for its text is left
out of the kinds without threads.
The threaded kinds (generic, dummy, cicero) have a main thread, a worker, and a
child that is forked per message; the others speak in the main thread and read
commands from within the synthesis. Exceptions that the properties name: a
sound icon is not cut, a STOP between `fork()` and the child's `setpgid()` is
lost (`StopLost`), and a pause that comes too late for generic cuts its next
message (`everPaused`). A failing `fork()` or `pipe()` in generic ends a
message without an event and is left out.

### ModuleLife

What is loaded comes from the configuration file or, if it names no module, from
detection: the files of the module directories (`ModuleFiles`), then the
variants of generic of the configuration directories whose commands are all
present (`VariantFiles`, `Missing`), each name once. The run has a file that
names the module dummy and one that names none, directories with dummy, a
foreign file and the program of generic, and two variants, one of which lacks a
command.

Only `Poll` sees what arrives, so sockets, signals and the timer become ready
just before it; a dispatch removes later sources as GLib does. A module's two
pipes are one descriptor, the lowest free one. Loading, reloading and
unloading go on module by module while others crash; `UnloadAll` is atomic with
respect to `speak()`. Every module answers INIT, well or badly. `crossed` is a
descriptor closed twice after a failed reload: the behaviour ends there.

### Audio

The playback thread begins, feeds and ends; the stop thread stops again and
again until playback sleeps (a first stop may come before playback woke up),
and is idle before the next message. The card
holds `Room` samples and plays them one by one. What is stated of whom:
`Silence` of alsa, pulse and oss (libao does not take back what it was given,
nas loses earlier flows, pipewire's ring is reset under its readers), unless alsa
refused to drop; `Whole`
of all but pipewire; libao and nas may report the end while the card plays, nas
because its timeout may have a `tv_nsec` above a second, which is refused.
`frail` devices fail at any call; alsa then closes its card for good or leaves it
as it was, if it is the drop that fails. `fault` ends a behaviour where the
code's is undefined or stuck: pulse stopped while it has no connection, or while
the player frees the one it waits in (`PulseClosesUnder`, at a reconnection of a
working device too), both its threads waiting for each other's lock
(`PulseLocks`), and a copy that reaches beyond pipewire's ring (`PwOverrun`). The
room in that ring is an unsigned difference: after a reset between a look at it
and the copy it wraps, and the whole track is written (`Space`).

### Clients

The server is the environment: it answers lines in order, may refuse one, and
sends events. `mutex_reply_ready` and `mutex_reply_ack` are held within an
action. `overlap` says that calls which no mutex keeps apart met (`spd_get_*`,
`spd_list_*`); a Python program makes one call at a time. A call has one of seven
kinds, which say what lines it sends (`spd_set_notification()` sends one after the
other) and whether it takes the mutex. A query that gets no reply
dereferences NULL: the program has crashed (`running`). `Stranded` is a
caller that looked at the connection before the library's thread gave up and
waits after it. `send()` is assumed to send all.

### SsipSession, MessageText, ModuleInput

A line of a client is one action. `spoilt` is a connection whose text was
refused for its encoding: `o_bytes` stays, and later texts are refused as well,
unless what is too many in it is what the dot takes off; such a text is queued
with its line end (`stray`), and heals the connection. Lines have two or three
bytes, so that both happens. `sectioned` is a voice type that came from a
client specific section after a voice was chosen. Texts are sequences over the
characters that any transformation treats on its own; tags and entities are one
element. The pipe and the buffer hold bytes, a read returns any split of what
is there, and the buffer keeps what is stale. Symbols are not applied; only
text in data mode and CHAR are followed.

## 3. Runs

Deadlock is not checked: an idle server is a legitimate end of a bounded run.

| run | question | bounds and why they are enough |
|---|---|---|
| `priorities` | who interrupts and purges whom, nothing vanishes, no sleep on work, event order, all is served | 2 clients, 3 messages, 2 priority changes, all five priorities: a message spoken, one queued and one that arrives |
| `blocks` | flags, ownership, one block per queue, one voice under all eight commands | 1 client, 2 messages, 1 block, 2 commands at each point of the pass; a module that refuses and marks |
| `connections` | settings and `max_fd` | 3 connections on 2 descriptors, 3 messages: a client leaves while its message is queued, spoken or released; a module that refuses, marks and breaks |
| `playback` | events, silence, refinement of `PlaybackSession`, end of every message | 2 messages of two tracks around a mark, a queue that is full with one track, one trouble: enough for a leftover of the first to reach the second |
| `pipe` | replies and events reach their threads | 2 messages of up to 3 events, 2 queries, a death: both readers in each role |
| `calls` | the two client libraries | 2 threads, 3 calls of 7 kinds, an event per message, a death |
| `ssip` | texts, answers, voices | 7 lines of 2 or 3 bytes: a refused text, a disconnect, and a whole message after it |
| `modules` | contract, stop, wholeness | 13 kinds, 3 messages of up to 3 parts: what a command leaves behind meets the next message |
| `life` | choice, descriptors, processes, timer | 4 descriptors, 2 troubles, 2 signals, 1 client, 2 configuration files (modules named, modules detected) |
| `audio` | stop and wholeness on six systems | 2 messages of 2 tracks of 3 samples, room for 2 in the card and 1 in pipewire's ring, so that a track goes round it, 2 stops |
| `texts` | spoken as said, resumed at marks | texts up to 5 characters (spaces among them, so that sentences end) on 2 lines, parts of 3 bytes, a fresh or a large buffer; 2 lines because of the next run |
| `lines_as_written` | *violated* | 3 lines: `module_readline()` forgets that its search starts behind `data_ptr` |

`lines_as_written` shows a fault of the code (`modules/module_readline.c:175`):
after a read the search for a newline starts at the beginning of the buffer
again, though lines at its beginning were already returned. A text of three
lines that is read before the terminator was written comes out garbled, with
bytes of earlier messages.

Configurations outside `PROJECT.json` reproduce what else the code does against
a document, a comment or an assertion; each is expected to be violated:

* `MCSpeaking_stop_all_first` (`QueueExists`): STOP ALL before anything was
  spoken fails the assertion of `speaking_get_queue()` (`speaking.c:1107`).
* `MCSpeaking_stranded` with its other invariant (`SettingsKept`): the settings
  of a client that left are freed while `MessagePausedList` has its message
  (`speaking.c:301`; comment at `speechd.c:448`).
* `MCSpeaking_cancel_final` (`CancelIsFinal`): a paused message that was
  reported cancelled is spoken after RESUME (`ssip.texi:1230`).
* `MCSpeaking_last_progress` (`LastProgressSaid`): any message outside a block
  frees `last_p5_block` (`speaking.c:333`, `ssip.texi:655`).
* `MCSpeaking_pause_lost` (`PauseHonoured`): two PAUSE commands share one
  request variable (`parse.c:787`, `ssip.texi:515`).
* `MCSpeaking_stranded` (`NotStranded`): a pass that handles PAUSED and a pause
  request uses up the last wake-up (`speaking.c:135`, `ssip.texi:592`).
* `MCPlayback_stop_ends` (`StopEnds`): a STOP after a PAUSE does not end the
  message (`output.c:1126`, `ssip.texi:499`).
* `MCModulePipe_events_handled` (`EventsHandled`): events wait for the next
  command (`output.c:321`; comment at `output.c:219`).
* `MCModules_marks_covered` (`MarksCovered`): ibmtts reports a mark whose audio
  was thrown away (comment at `ibmtts.c:532`).

`TypeOK` is checked in `priorities`; the type invariants of `Playback`,
`ModulePipe`, `SsipSession` and `Modules` describe their variables and can be
added to any of their configurations.

*Fairness.* Weak fairness of threads everywhere: the operating system schedules
them, and no step of one is disabled for ever by another. A module that was
sent a message finishes, a live server or module answers, the card plays, an
armed timer elapses: what the code itself relies on. Nothing is assumed of
clients, of users, or of anything that may fail.

*Refinement.* `SessionKept` and `ContractKept` check that `Playback` implements
`PlaybackSession` and that each kind of module implements `ModuleContract`,
with the mappings given where the properties are stated.

## 4. Proofs

Each theorem holds for every number of clients, descriptors, messages, commands,
threads, modules, crashes and so on: the constants are only assumed to be of
their types (the named ASSUMEs of the modules). A theorem that needs more says
so in its ASSUME; what the code does without the hypothesis is said here.

**The server's queues** (`SpeakingProofs`). It begins with facts about lists,
for the operators of `MsgQueue`: the positions that `KeepAt` chooses exist
(`RankOnto`, counted without induction), so that removing, dropping and
inserting give sequences of messages, and no element appears twice that did not
before (`KeepAtPlaces`, `InsertByIdPlaces`).

* `TypeCorrect`, `MaxFdCorrect`. Lowering `max_fd` by one is enough, because
  descriptors are integers and it always was an upper bound.
* `SessionCorrect`. `SessionAgrees` is not inductive: that the flags still agree
  after an event depends on which events can still come. `SessionInv` adds
  `LastEvent` (a terminal event is the last one of `evq`, and is there exactly
  when the session is `done`) and `Silent` (`speak()` takes a message only when
  nothing is spoken).
* `OneVoiceCorrect`, where no connection to a module breaks: a broken module
  ends a session without an event.
* `SingleOwnerCorrect`. A list holds a message at one position, and two lists
  share no address: `OwnerInv`, over addresses that are at most `lastObj`. It
  needs `SessionInv` too: what `HandleDone` frees is the message of the session.
* `OneBlockCorrect`. It is inductive over `BaseInv` (types, session, connections,
  owners); a resumed message has left its block, so it meets at most itself.

**What becomes of the messages** (`SpeakingProofs`).

* `PriorityCorrect`. The step that queues a message is told from others by its
  number: `NumberInv` says that no message has a number above `lastId`, and that a
  client number belongs to one connection.
* `NotStrandedCorrect`, without PAUSE and where no message is refused: if
  `speak()` sleeps, nothing is spoken and the pipe is empty, then the queues are
  (`AwakeInv`). A pass that handles a pause uses up a wake-up, and a refused
  message costs the wake-up of the one behind it.
* `SettingsCorrect` and `NoFaultCorrect`, without PAUSE and without blocks of
  progress messages. `SettingsInv` follows every message that is `Known` to the
  server, the one that was spoken last included, because `speak()` looks the
  settings up when it frees it. The proof showed why the second hypothesis is
  needed: `client_has_messages()` (`speaking.c:1085`) does not look at
  `last_p5_block`, where a block of progress messages may leave a message of a
  client that has gone; TLC finds the violation with such a client, four
  messages, one block, priority 5 only and no command. STOP ALL is excluded in
  `NoFaultCorrect` for its assertion.
* `NothingLostCorrect`, under all commands, without blocks and where no module
  fails: the rest of a block is freed without an event, and a refused or broken
  message as well. Its invariant relates `life` to the lists (`LostInv`) and says
  which messages speak() holds aside between two steps (`AsideInv`).
* `EventOrderCorrect`, without PAUSE (whose events have an order of their own):
  a message that waits was told nothing, or CANCEL if it is the copy in
  `last_p5_block` (`WaitInv`); a number is in two places only for such a copy
  (`ApartInv`); what `evq` may still tell fits what was told (`EventsInv`).

**Playback** (`PlaybackProofs`), for any number of messages, requests and
modules, any script and any size of the queue: `OwnEventsCorrect`,
`SilenceCorrect`, and `SessionCorrect`, `Playback` implements `PlaybackSession`.
All three name the histories `crossed` and `spoilt` as exceptions. The types need
a lemma of their own: `output_is_speaking()` takes an event when its pipe has a
byte, so the list is never read empty only because the bytes in all pipes are
as many as the events (`Tokens`). The invariant (`CleanInv`) holds until one of the
exceptions or the exit:

* `Reading`, `Requested`: the output thread has one of eleven lists of things to
  do, and a stop or pause under way anywhere was asked for this message.
* `Stages`, `Single`: the stop_or_pause thread is as far as the state of the queue
  says (`StopStages`), nothing is read for the message any more once it is being
  stopped (`Drains`), and where one end was reported no other can be: no stop is
  under way, and the play thread is at rest. Why the next message does not meet
  what is left of this one is `SentFresh`.
* `Queued`: the queue holds old ENDs, then BEGIN, then parts of this message, and
  its END last. An END without its message is harmless, since it ends a message in
  SPEAKING only, and BEGIN comes behind it.
* `Playing`, `Delivered`: what the play thread reports comes after BEGIN, and what
  waits in `playback_events` is about this message and ends with its one last event.

**The pipe of a module** (`ModulePipeProofs`): `OwnReplyCorrect` and
`EventsInOrderCorrect`. The invariant says who reads and who was handed what
(`ReadersInv`), that at most one answer is anywhere between module and replyer
(`AnswerInv`), and that the events in the pipe and in hand are numbered from
`taken + 1` to `sent` in order, of one message only (`NumberInv`, `SpeechInv`).
`NoMutualWaitCorrect` is the safety half of `AllAnswered` and `AllHandled`: the
two threads never sleep at once, and whoever a sleeper waits for is awake and
reads, is about to read, or has a line to take (`WakersInv`). The one exception
is the output thread in `Forgotten`, and the theorem shows that there is no
other.

**The client libraries** (`ClientsProofs`): `OwnReplyCorrect` and
`InOrderCorrect`. What the server wrote and nobody handled is numbered in order
(`OrderInv`, `PythonInv`); the holder of `ssip_mutex` is the one thread within a
call (`MutexInv`); and while calls do not overlap there is one line or one reply
under way (`CallInv`).

**SSIP sessions** (`SsipSessionProofs`): `TextCorrect`, `AnswerCorrect`,
`VoiceCorrect`. In data mode the buffer is what the client sent, and `o_bytes`
is its length unless a text was refused and none accepted since (`BufferOwn`).

**The output modules** (`ModulesProofs`): `ContractCorrect`, each of the
thirteen kinds implements `ModuleContract`. The proof has two halves.
`SeenStep` shows that a step of a main thread, a worker or a child is, seen
from the server, one of thirteen (`Seen`): a request or an order, a failure, a
command taken without a word, an answer, a begin, a mark, an end, the first
callback of espeak that begins nothing. A synthesis that fails is among them.
It is the only place where the kinds differ, and rests on where their threads
can be (`WorkInv`) and on the flags coming from an order for this message, not
from an earlier one (`FlagsInv`). The other half, over `Seen` only, keeps
`CommandsInv` (SPEAK is the last command, and the module is idle when it
comes), `PhaseInv` (the request is not answered, answered on the way or
accepted) and `RepliesInv` (what is on its way continues what was heard), from
which each line that the server reads is a step of the contract.

* `StopCutsCorrect`. One STOP is ordered for a message, and it is handled before
  the next is taken (`OnceInv`), so `stopped = "yes"` means that it was not lost.
  After it nothing is left that could speak, and nothing comes back to life
  before the next message (`CutInv`): no child that reads or plays, no part of
  cicero without its flag. That a STOP found the group of a child it could kill
  rests on where the worker is while a child lives (`GroupInv`).
* `SpokenWholeCorrect`. `WholeInv` says for every place of the main thread and of
  the worker how much was spoken and given: a mark follows the part before it, a
  child is only reaped when it was given all, a plain end is sent with
  `said = text.parts` and nothing is spoken after it. Why no flag of an earlier
  message ends this one is `FlagsInv`; generic's pause flag is the exception that
  `SpokenWhole` names.

**Modules' life** (`ModuleProcessProofs`): `RequestedCorrect` (no module is asked
for twice), `NoOrphansCorrect`, `OwnDescriptorsCorrect`, `RightModuleCorrect`,
`TimerArmedCorrect`. The last is the safety half of `IdleQuits`. The invariant
adds to the properties that the names of what is loaded and of what is still to
be loaded are distinct (`NamesInv`), which starts from `RequestedCorrect`, and
that process numbers are (`PidsInv`). The configuration is read by folds over
lists, which are recursive functions; facts about them are proved from the
smallest argument that would be a counterexample (`Least`), since a rule of
induction cannot be instantiated.

**The sound systems** (`AudioProofs`): `SilenceCorrect` and `WholeCorrect`, for any
number of messages, tracks, samples, stops and failures and any room in the card.
`ThreadsInv` says where the playback thread can be and that `asked` is where the
stopper is; `CardInv` that the card holds no sample of a message to come;
`CountInv`, which `Whole` comes from, that of a message nobody asked to stop all
that was fed is heard or still in the card, and its end is only told when all was
fed. It is not inductive: that all was fed, and that nothing drops samples of
this message, depends on the system. `SystemInv` has the reason of each:
`AlsaInv` (the stop pipe of an earlier message is empty, and a drain follows the
last write), `PulseInv` (the stream plays while there is something to drain, and
a dead connection is the failure that `Whole` excepts), `OssInv` (what waits for
the device waits, and closes it with nothing left), `LibaoInv` (no stop of an
earlier message is seen while writing) and `NasInv` (the wait begins when all was
given). Both properties say nothing of pipewire, and the invariant
(`PlayInv`) is not claimed there.

**The text of a message** (`ModuleProcessProofs`), in any alphabet that has none of
the tags, of any length, with any `MaxPart` that holds a long character and any
sizes of the buffer.

* `ResumesCorrect`: however many lines it has, a text that was paused resumes at
  each of its sentences with exactly what was still to be said. Only what the server
  holds matters (`KeptInv`). That `Receive` gives what the client said rests on two
  facts about dots: the terminator is the first line that is a dot
  (`CollectedIsSent`), and undoing what the client doubled gives its text
  (`ClientDotsUndone`). The rest is about what becomes of each byte: what
  `Marked` and then `ModuleEscaped` make of a text is a block of one to three
  elements for each byte (`MarkedIs`, `EscapedIs`), marks are the ends of the
  blocks of the ends of sentences (`MarkPlaces`), in their order, so that the mark
  numbered `n` is that of the sentence numbered `n` (`SameRank`, a monotone map
  onto a set keeps ranks), and the blocks behind it, without marks, dots and
  entities, are the rest of the text (`RestBlocks`, `PlainAgain`). It uses that
  what follows a sentence's end is a space or a tag: a dot there would be escaped
  or not according to what precedes it.
* `SpokenCorrect`, with the hypothesis `MaxLines <= 2` of the run: with three
  lines the code garbles the text (`lines_as_written`). `SaidInv` to
  `PartsInv` say what is in the pipe, in the buffer, in `text` and in `parts` as
  a stretch of one sequence (`Wire`, what the server writes for the message):
  taken, read or still to come. The hypothesis is used once, in `ReadMoreRight`: a
  search that starts over at the beginning of the buffer finds no earlier newline,
  because there was only one in the text (`OneEnd`). A line that is a dot is the
  terminator and no other (`NoDotBefore`), taking the dot off every line gives the text
  (`LineUndotted`, `TextWhole`), taking out tags and entities what was said
  (`MarkedRight`), and no part ends within a character (`PartEndRight`).

Texts are made by `FlattenSeq` of the community modules, a recursive function that
cannot be unfolded for every length; what is needed of it is proved from
the smallest counterexample (`FlattenExists`, `FlattenAppend`, `FlattenConcat`,
`Blockwise`, `BlocksBehind`).

**What is only model-checked**: liveness (`AllServed`, `AllEnd` of playback and of
the modules, `AllAnswered`, `AllHandled`, `AllReturn`, `IdleQuits`, `StopReturns`),
which rests on fairness and ENABLED and is out of the provers' reach. Every
invariant and every action property of a passing run has its theorem.

## 5. Plan

The components are modelled in the order in which they were planned: queues,
pipe and playback, sessions, modules, their life, audio, clients, texts. What
is left, by what it would add:

1. The composition of `Speaking` with `Playback` in place of the abstract
   session: what `crossed` and `spoilt` cost a client.
2. `spd_open2()` with autospawn, `spd_close()` against calls under way.
3. The Python callbacks and their registration.

## 6. How to run

`tlc -config <cfg> <module>` for a run, with the names in `PROJECT.json`;
`tlapm <module>` for the proofs of each module named `...Proofs`.

## 7. Not modelled

* Data races inside GLib: `fd_settings` and `fd_uid` are changed by one thread
  and read by the other without a lock. Each access is one step here. The same
  holds for `output_modules`, which `speak()` reads while SIGHUP frees it.
* History (compiled out by `if (0)` in `queue_message()`), the parsing of
  configuration and options, symbols and punctuation: no concurrent state, or
  strings and regular expressions that TLC cannot enumerate usefully.
* What synthesizers and sound libraries do inside, voices, formats, volumes.
* Kitten, the skeletons and the Python helpers for modules; the Lisp and Guile
  libraries; the command line clients, which use a library or a socket.
* A module that never answers INIT: it blocks the main thread for ever.
* A client that sends half a line: `serve()` waits for the rest.
* Who receives an event after its descriptor was reused: the code looks the
  descriptor up when it writes, and no document promises otherwise.
