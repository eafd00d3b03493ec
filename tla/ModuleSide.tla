----------------------------- MODULE ModuleSide -----------------------------
(***************************************************************************)
(* The module process: how each kind of output module speaks, stops and    *)
(* pauses (src/src/modules).  The server writes commands to the standard   *)
(* input of a module and reads its standard output; here it asks for one   *)
(* message at a time, as output_speak() does, and orders STOP and PAUSE    *)
(* while the message lasts.                                                *)
(*                                                                         *)
(* A threaded module (generic, dummy, cicero) reads commands in its main   *)
(* thread and speaks in a worker, through a child process or a synthesizer *)
(* on a pipe.  The others speak in the main thread and read the commands   *)
(* that arrived from within the synthesis: module_process(STDIN_FILENO, 0).*)
(*                                                                         *)
(* The text of a message is a number of parts; a part is what is given to  *)
(* the synthesizer or sent as audio at once, followed by an index mark     *)
(* when the kind reports marks.                                            *)
(***************************************************************************)
EXTENDS Naturals, Sequences, FiniteSets

CONSTANTS
  Kinds,      \* the kinds of module to try
  MaxSpoken,  \* messages in a behaviour
  MaxParts    \* parts of a message

Threaded    == {"generic", "dummy", "cicero"}
Synchronous == {"espeak", "ibmtts", "baratinoo", "festival", "flite", "kali", "ivona",
                "pico", "openjtalk", "cxxpiper"}

ASSUME ModuleAssumption ==
  /\ Kinds \subseteq Threaded \cup Synchronous
  /\ {MaxSpoken, MaxParts} \subseteq Nat

VARIABLES
  kind,       \* the module that runs
  commands,   \* its standard input
  replies,    \* its standard output
  session, orders, heard, \* the server: see ModuleContract
  spoken,     \* bound: messages asked for
  text,       \* the message in the module: its parts, and is it a sound icon
  said,       \* parts of it that were spoken or sent
  skipped,    \* history: parts of it thrown away
  shouldStop, \* module_should_stop
  speaking,   \* <kind>_speaking, pico_state
  stop,       \* <kind>_stop, stop_requested
  pause,      \* <kind>_pause_requested
  markSent,   \* pause_index_sent
  main,       \* where the main thread is
  pos,        \* the synthesis of the main thread: items done
  worker,     \* where the worker is: threaded modules
  semaphore,  \* <kind>_semaphore
  child,      \* the child process of the worker
  given,      \* parts given to the child
  stopped,    \* history: was a STOP of the message handled
  everPaused  \* history: was a PAUSE ever ordered

vars == <<kind, commands, replies, session, orders, heard, spoken, text, said, skipped,
          shouldStop, speaking, stop, pause, markSent, main, pos, worker, semaphore,
          child, given, stopped, everPaused>>

server   == <<kind, session, orders, heard, spoken, everPaused>>
flags    == <<speaking, stop, pause, markSent>>
progress == <<text, said, skipped, stopped>>
thread   == <<worker, semaphore, child, given>>

Init ==
  /\ kind \in Kinds
  /\ commands = <<>> /\ replies = <<>>
  /\ session = "none" /\ orders = {} /\ heard = <<>> /\ spoken = 0
  /\ text = [parts |-> 0, icon |-> FALSE] /\ said = 0 /\ skipped = FALSE
  /\ shouldStop = FALSE /\ speaking = FALSE /\ stop = FALSE
  /\ pause = FALSE /\ markSent = FALSE
  /\ main = "idle" /\ pos = 0
  /\ worker = "wait" /\ semaphore = 0 /\ child = "none" /\ given = 0
  /\ stopped = "no" /\ everPaused = FALSE

-----------------------------------------------------------------------------
(* The server. *)

ServerSpeaks ==
  /\ session = "none" /\ replies = <<>> /\ spoken < MaxSpoken
  /\ \E t \in [parts : 0 .. MaxParts, icon : BOOLEAN] :
       /\ t.icon => kind = "generic" /\ t.parts = 1
       /\ commands' = Append(commands, [cmd |-> "SPEAK", text |-> t])
  /\ session' = "asked" /\ orders' = {} /\ heard' = <<>> /\ spoken' = spoken + 1
  /\ UNCHANGED <<kind, replies, progress, shouldStop, flags, main, pos, thread, everPaused>>

ServerOrders(o) ==
  /\ session = "accepted" /\ o \notin orders
  /\ orders' = orders \cup {o} /\ commands' = Append(commands, [cmd |-> o])
  /\ everPaused' = (everPaused \/ o = "PAUSE")
  /\ UNCHANGED <<kind, replies, session, heard, spoken, progress, shouldStop, flags,
                 main, pos, thread>>

Ending == {"301", "702", "703", "704"}

ServerHears ==
  /\ replies # <<>> /\ replies' = Tail(replies)
  /\ heard' = Append(heard, Head(replies))
  /\ session' = CASE Head(replies) \in Ending -> "none"
                  [] Head(replies) = "200"    -> "accepted"
                  [] OTHER                    -> session
  /\ UNCHANGED <<kind, commands, orders, spoken, progress, shouldStop, flags, main, pos,
                 thread, everPaused>>

-----------------------------------------------------------------------------
(* The commands of the server, in the main thread: module_process().       *)

(* cmd_speak() clears module_should_stop and hands the text over.          *)
BuggyTakesText(t) ==
  /\ text' = t /\ said' = 0 /\ skipped' = FALSE /\ stopped' = "no"
  /\ UNCHANGED shouldStop

TakesText(t) ==
  /\ text' = t /\ said' = 0 /\ skipped' = FALSE /\ stopped' = "no"
  /\ shouldStop' = FALSE

NextIs(cmd) == commands # <<>> /\ Head(commands).cmd = cmd

(* module_speak() of a threaded module runs with module_stdout_mutex held, *)
(* and the reply is printed before it is released: see Says.  A message    *)
(* that is refused leaves the text of the one being spoken alone.          *)
AsyncSpeak ==
  /\ kind \in Threaded /\ main = "idle" /\ NextIs("SPEAK")
  /\ IF speaking
     THEN /\ main' = "refuses"
          /\ shouldStop' = FALSE /\ UNCHANGED <<progress, flags, semaphore>>
     ELSE /\ TakesText(Head(commands).text)
          /\ main' = "accepts"
          /\ speaking' = TRUE /\ semaphore' = semaphore + 1
          /\ UNCHANGED <<stop, pause, markSent>>
  /\ commands' = Tail(commands)
  /\ UNCHANGED <<server, replies, pos, worker, child, given>>

AsyncReply ==
  /\ main \in {"accepts", "refuses"}
  /\ replies' = Append(replies, IF main = "accepts" THEN "200" ELSE "301")
  /\ main' = "idle"
  /\ UNCHANGED <<server, commands, progress, shouldStop, flags, pos, thread>>

(* What each kind does on its own.  module_stop() sets its stop flag when  *)
(* `stops', module_pause() when `halts', and the pause flag when `pauses'. *)
(* `first' is where a message begins, `looks': the commands are read       *)
(* before every part and mark, `marks': index marks are reported, `ends':  *)
(* the event that ends the message.                                        *)
Stopped == IF stop THEN "703" ELSE "702"

PausedOrStopped == IF pause THEN "704" ELSE Stopped

(* The first callback of the engine begins, unless it stops at once. *)
Espeak ==
  [first |-> "first", looks |-> FALSE, marks |-> TRUE,
   stops |-> TRUE, halts |-> FALSE, pauses |-> TRUE, ends |-> PausedOrStopped]

Ibmtts ==
  [first |-> "look", looks |-> FALSE, marks |-> TRUE,
   stops |-> TRUE, halts |-> FALSE, pauses |-> TRUE, ends |-> PausedOrStopped]

(* pause_requested is never set: a pause is a stop. *)
Baratinoo ==
  [first |-> "look", looks |-> TRUE, marks |-> TRUE,
   stops |-> TRUE, halts |-> TRUE, pauses |-> FALSE, ends |-> Stopped]

(* A pause counts once a mark was reported. *)
Festival ==
  [first |-> "look", looks |-> TRUE, marks |-> TRUE,
   stops |-> speaking, halts |-> FALSE, pauses |-> speaking,
   ends |-> IF pause /\ markSent THEN "704" ELSE Stopped]

Flite ==
  [first |-> "look", looks |-> TRUE, marks |-> FALSE,
   stops |-> speaking, halts |-> speaking, pauses |-> FALSE, ends |-> Stopped]

Kali ==
  [first |-> "look", looks |-> TRUE, marks |-> FALSE,
   stops |-> TRUE, halts |-> speaking, pauses |-> FALSE, ends |-> Stopped]

Ivona ==
  [first |-> "look", looks |-> TRUE, marks |-> FALSE,
   stops |-> TRUE, halts |-> speaking, pauses |-> FALSE, ends |-> Stopped]

(* Stopped, it leaves the loop and reports a plain end. *)
Pico ==
  [first |-> "look", looks |-> TRUE, marks |-> FALSE,
   stops |-> speaking, halts |-> speaking, pauses |-> FALSE, ends |-> "702"]

(* The text is synthesized whole before any audio is sent. *)
OpenJTalk ==
  [first |-> "step", looks |-> FALSE, marks |-> FALSE,
   stops |-> FALSE, halts |-> FALSE, pauses |-> FALSE, ends |-> "702"]

CxxPiper ==
  [first |-> "step", looks |-> FALSE, marks |-> FALSE,
   stops |-> FALSE, halts |-> FALSE, pauses |-> FALSE, ends |-> "702"]

Generic ==
  [stops |-> FALSE, halts |-> FALSE, pauses |-> speaking]

Dummy ==
  [stops |-> FALSE, halts |-> FALSE, pauses |-> FALSE]

Cicero ==
  [stops |-> TRUE, halts |-> speaking, pauses |-> FALSE]

Flavour ==
  [espeak |-> Espeak, ibmtts |-> Ibmtts, baratinoo |-> Baratinoo, festival |-> Festival,
   flite |-> Flite, kali |-> Kali, ivona |-> Ivona, pico |-> Pico,
   openjtalk |-> OpenJTalk, cxxpiper |-> CxxPiper,
   generic |-> Generic, dummy |-> Dummy, cicero |-> Cicero][kind]

Grouped(c) == c \in {"reads", "plays"}

(* generic and dummy kill the process group of their child. *)
Killed == IF kind \in {"generic", "dummy"} /\ speaking /\ Grouped(child) THEN "killed" ELSE child

(* A STOP that the module cannot use: there is no child yet or it is not   *)
(* yet the leader of its group, or the flag is about to be cleared.        *)
StopLost ==
  \/ kind \in {"generic", "dummy"} /\ speaking /\ ~Grouped(child)
  \/ kind = "cicero" /\ worker \in {"wait", "ended", "free", "clear"}

BuggyCmdStop ==
  /\ stop' = (stop \/ Flavour.stops) /\ child' = Killed
  /\ stopped' = IF StopLost /\ stopped = "no" THEN "lost" ELSE "yes"
  /\ UNCHANGED <<shouldStop, speaking, pause>>

CmdStop ==
  /\ shouldStop' = TRUE
  /\ stop' = (stop \/ Flavour.stops) /\ child' = Killed
  /\ stopped' = IF StopLost /\ stopped = "no" THEN "lost" ELSE "yes"
  /\ UNCHANGED <<speaking, pause>>

CmdPause ==
  /\ shouldStop' = TRUE
  /\ stop' = (stop \/ Flavour.halts) /\ pause' = (pause \/ Flavour.pauses)
  /\ UNCHANGED <<speaking, child, stopped>>

(* A command other than SPEAK, in the main loop or within the synthesis.   *)
Handles ==
  /\ main \in {"idle", "first", "look"} /\ commands # <<>>
  /\ \/ NextIs("STOP") /\ CmdStop
     \/ NextIs("PAUSE") /\ CmdPause
  /\ commands' = Tail(commands)
  /\ UNCHANGED <<server, replies, text, said, skipped, markSent, main, pos, worker,
                 semaphore, given>>
=============================================================================
