--------------------------- MODULE ModulesProofs ---------------------------
(***************************************************************************)
(* Proofs about the output modules, for any number of messages and of      *)
(* parts of a message: every kind implements ModuleContract, a STOP that   *)
(* is not lost leaves nothing to speak, and what nobody stopped is whole.  *)
(***************************************************************************)
EXTENDS Modules, TLAPS

Line    == {"200", "301", "700", "701", "702", "703", "704"}
EndLine == {"702", "703", "704"}
Text    == [parts : Nat, icon : BOOLEAN]
Command == [cmd : {"SPEAK"}, text : Text] \cup [cmd : {"STOP", "PAUSE"}]

Synch == kind \in Synchronous

Typed ==
  /\ kind \in Kinds
  /\ commands \in Seq(Command) /\ replies \in Seq(Line) /\ heard \in Seq(Line)
  /\ session \in {"none", "asked", "accepted"} /\ orders \subseteq {"STOP", "PAUSE", "FAILURE"}
  /\ text \in Text /\ {said, pos, given, semaphore} \subseteq Nat

(* How far the message in the module is: 701 is still to be said, or only  *)
(* its end.                                                                *)
Quiet   == {"wait", "free", "clear"}
Unsaid  == IF Synch THEN main = "first" ELSE semaphore = 1 \/ worker \in {"icon", "begin"}
Running == IF Synch THEN main \in {"look", "step", "fails"}
           ELSE worker \notin Quiet \cup {"icon", "begin"}
Owes    == Unsaid \/ Running

(* The synthesizer of the message failed, and its end is still to be said. *)
Failed == main = "fails"

(* Who holds module_stdout_mutex for the answer to SPEAK. *)
Lock == IF main \in {"accepts", "refuses"} THEN main ELSE "none"

(* SPEAK is among the commands that were not read. *)
Waits == \E i \in DOMAIN commands : commands[i].cmd = "SPEAK"

(* Where a kind's main thread and worker can be. *)
WorkInv ==
  /\ Synch => /\ worker = "wait" /\ semaphore = 0 /\ child = "none"
              /\ main \in {"idle", "first", "look", "step", "fails"}
  /\ ~Synch => main \in {"idle", "accepts", "refuses"}
  /\ semaphore \in {0, 1} /\ (semaphore = 1 => worker \in Quiet)
  /\ main = "first" => kind = "espeak"
  /\ Synch /\ main = "idle" => ~speaking
  /\ kind = "flite" /\ ~speaking => ~stop
  /\ worker \in {"loop", "poll", "stops", "clear"} => kind = "cicero"
  /\ worker \in {"feed", "answer"} => kind = "generic"
  /\ worker \in {"fork", "reap", "report"} => kind # "cicero"

(* A flag or a killed child that makes a message end as stopped or paused  *)
(* comes from an order of the server, not from an earlier message.         *)
FlagsInv ==
  /\ Synch /\ main # "idle" =>
       /\ stop => orders # {} /\ (kind = "espeak" => "STOP" \in orders)
       /\ pause => "PAUSE" \in orders
  /\ kind = "cicero" /\ worker \in {"begin", "loop", "poll"} /\ stop => orders # {}
  /\ Failed => "FAILURE" \in orders
  /\ worker = "stops" => orders # {}
  /\ worker \in {"begin", "fork", "feed", "answer", "reap", "report"} /\ child = "killed" => orders # {}

-----------------------------------------------------------------------------
(* Seen from the server a step is one of these.                            *)
Unseen == UNCHANGED <<session, orders, heard>>
Keeps  == Unsaid' = Unsaid /\ Running' = Running /\ Lock' = Lock /\ Failed' = Failed

Asks ==
  /\ ServerSpeaks /\ Keeps
  /\ \E c \in Command : c.cmd = "SPEAK" /\ commands' = Append(commands, c)
Orders == Keeps /\ \E o \in {"STOP", "PAUSE"} : ServerOrders(o)
Hears  == Keeps /\ ServerHears

(* A command that is not SPEAK, or no command, and nothing said. *)
Works ==
  /\ Unseen /\ Keeps /\ replies' = replies
  /\ \/ commands' = commands
     \/ commands # <<>> /\ commands[1].cmd # "SPEAK" /\ commands' = Tail(commands)

Takes ==
  /\ Unseen /\ commands # <<>> /\ commands[1].cmd = "SPEAK" /\ commands' = Tail(commands)
  /\ Lock = "none" /\ ~Owes

Accepts == Takes /\ replies' = replies /\ Lock' = "accepts" /\ Unsaid' /\ ~Running'
Refuses == Takes /\ replies' = replies /\ Lock' = "refuses" /\ ~Owes'
Starts ==
  /\ Takes /\ Lock' = "none"
  /\ \/ replies' = replies \o <<"200">> /\ Unsaid' /\ ~Running'
     \/ replies' = replies \o <<"200", "701">> /\ ~Unsaid' /\ Running'
Replies ==
  /\ Unseen /\ commands' = commands /\ Lock # "none" /\ Lock' = "none"
  /\ Unsaid' = Unsaid /\ Running' = Running
  /\ replies' = Append(replies, IF Lock = "accepts" THEN "200" ELSE "301")

Sends(line) ==
  /\ Unseen /\ commands' = commands /\ Lock = "none" /\ Lock' = "none"
  /\ replies' = Append(replies, line)
Begins  == Sends("701") /\ Unsaid /\ ~Unsaid' /\ Running'
(* espeak was stopped before its first callback. *)
Skips ==
  /\ Unseen /\ commands' = commands /\ replies' = replies /\ Lock = "none" /\ Lock' = "none"
  /\ Unsaid /\ ~Unsaid' /\ Running' /\ kind = "espeak" /\ stop
Marks == Sends("700") /\ Keeps /\ Running /\ ~Failed /\ ~(kind = "espeak" /\ stop)
(* Before the first callback of espeak, or at a part. *)
Breaks ==
  /\ UNCHANGED <<session, heard, commands, replies>> /\ Lock = "none" /\ Lock' = "none"
  /\ orders' = orders \cup {"FAILURE"}
  /\ Owes /\ ~Unsaid' /\ Running' /\ Failed'
Ends ==
  /\ Running /\ ~Owes'
  /\ \E e \in EndLine : /\ Sends(e)
                        /\ e = "703" => orders # {}
                        /\ e = "704" => "PAUSE" \in orders

Seen == \/ Asks \/ Orders \/ Hears \/ Works \/ Accepts \/ Refuses \/ Starts \/ Replies
        \/ Begins \/ Skips \/ Marks \/ Breaks \/ Ends

-----------------------------------------------------------------------------
(* What the server has been told of the message, or will read next.        *)
Heard701 == \E i \in DOMAIN heard : heard[i] = "701"
Told701  == Heard701 \/ \E i \in DOMAIN replies : replies[i] = "701"

(* SPEAK is the last command, and the module is idle when it comes; all    *)
(* other commands were ordered for the message in the module.              *)
CommandsInv ==
  /\ \A i \in DOMAIN commands : commands[i].cmd = "SPEAK" => i = Len(commands)
  /\ Waits => session = "asked" /\ replies = <<>> /\ ~Owes /\ Lock = "none"
  /\ ~Waits => \A i \in DOMAIN commands : commands[i].cmd \in orders

(* The request is not answered, answered on the way, or accepted.          *)
PhaseInv ==
  /\ session = "none" => replies = <<>> /\ ~Owes /\ Lock = "none"
  /\ session = "asked" =>
       /\ heard = <<>> /\ orders \subseteq {"FAILURE"}
       /\ replies # <<>> => /\ Lock = "none"
                            /\ replies[1] = "200" \/ (replies = <<"301">> /\ ~Owes)
  /\ session = "accepted" => Lock = "none"
  /\ Lock = "accepts" => Unsaid /\ ~Running /\ replies = <<>> /\ ~Waits
  /\ Lock = "refuses" => ~Owes /\ replies = <<>> /\ ~Waits
  /\ Owes => replies # <<>> \/ session = "accepted" \/ Lock = "accepts"

(* A message may end that did not begin. *)
NeedNotBegin == "STOP" \in orders \/ "FAILURE" \in orders

(* What is on its way continues what was heard as the contract says.       *)
InOrder(i) ==
  /\ replies[i] \in {"200", "301"} => i = 1 /\ session = "asked"
  /\ replies[i] = "701" => ~Heard701 /\ \A j \in DOMAIN replies : replies[j] = "701" => i = j
  /\ replies[i] = "700" => Heard701 \/ \E j \in DOMAIN replies : j < i /\ replies[j] = "701"
  /\ replies[i] \in EndLine => /\ i = Len(replies) /\ ~Owes
                               /\ Told701 \/ NeedNotBegin
                               /\ replies[i] = "703" => orders # {}
                               /\ replies[i] = "704" => "PAUSE" \in orders
RepliesInv ==
  /\ \A i \in DOMAIN replies : InOrder(i)
  /\ Unsaid => ~Told701
  /\ Running => Told701 \/ Failed \/ (kind = "espeak" /\ stop)

SpeechInv == CommandsInv /\ PhaseInv /\ RepliesInv
ModuleInv == Typed /\ WorkInv /\ FlagsInv /\ SpeechInv

-----------------------------------------------------------------------------
(* Reading the first element of a pipe.                                    *)
LEMMA PipeRead ==
  ASSUME NEW S, NEW s \in Seq(S), s # <<>>
  PROVE  /\ Head(s) = s[1] /\ s[1] \in S /\ 1 \in DOMAIN s
         /\ Tail(s) \in Seq(S) /\ Len(s) \in Nat \ {0} /\ Len(Tail(s)) = Len(s) - 1
         /\ \A i \in DOMAIN Tail(s) : i \in Nat /\ i + 1 \in DOMAIN s /\ Tail(s)[i] = s[i + 1]
OBVIOUS

(* Writing an element to the end of a pipe.                                *)
LEMMA PipeWrite ==
  ASSUME NEW S, NEW s \in Seq(S), NEW x \in S
  PROVE  /\ Append(s, x) \in Seq(S) /\ Append(s, x) # <<>>
         /\ Len(s) \in Nat /\ Len(Append(s, x)) = Len(s) + 1
         /\ DOMAIN s = 1 .. Len(s) /\ DOMAIN Append(s, x) = 1 .. Len(s) + 1
         /\ \A i \in DOMAIN s : Append(s, x)[i] = s[i]
         /\ Append(s, x)[Len(s) + 1] = x
OBVIOUS

(* The kinds are threaded or not, and a kind's own operators.              *)
LEMMA KindOf ==
  ASSUME Typed
  PROVE  /\ ~Synch <=> kind \in Threaded
         /\ Synch => kind \notin {"generic", "dummy", "cicero"}
         /\ ~Synch => kind \in {"generic", "dummy", "cicero"} /\ kind \notin {"espeak", "flite"}
BY ModuleAssumption DEF Typed, Synch, Synchronous, Threaded

(* What a kind's own module_stop() and module_pause() set, and its end.    *)
LEMMA FlavourOf ==
  ASSUME Synch
  PROVE  /\ Flavour.first \in {"first", "look", "step"}
         /\ Flavour.first = "first" <=> kind = "espeak"
         /\ Flavour.ends \in EndLine
         /\ Flavour.ends = "703" => stop
         /\ Flavour.ends = "704" => pause
         /\ kind = "espeak" => ~Flavour.halts
         /\ kind = "flite" => (Flavour.stops => speaking) /\ (Flavour.halts => speaking)
<1> USE DEF EndLine, Stopped, PausedOrStopped
<1>1. CASE kind = "espeak"
  <2>1. Flavour = Espeak
    BY <1>1 DEF Flavour
  <2> QED BY <1>1, <2>1 DEF Espeak
<1>2. CASE kind = "ibmtts"
  <2>1. Flavour = Ibmtts
    BY <1>2 DEF Flavour
  <2> QED BY <1>2, <2>1 DEF Ibmtts
<1>3. CASE kind = "baratinoo"
  <2>1. Flavour = Baratinoo
    BY <1>3 DEF Flavour
  <2> QED BY <1>3, <2>1 DEF Baratinoo
<1>4. CASE kind = "festival"
  <2>1. Flavour = Festival
    BY <1>4 DEF Flavour
  <2> QED BY <1>4, <2>1 DEF Festival
<1>5. CASE kind = "flite"
  <2>1. Flavour = Flite
    BY <1>5 DEF Flavour
  <2> QED BY <1>5, <2>1 DEF Flite
<1>6. CASE kind = "kali"
  <2>1. Flavour = Kali
    BY <1>6 DEF Flavour
  <2> QED BY <1>6, <2>1 DEF Kali
<1>7. CASE kind = "ivona"
  <2>1. Flavour = Ivona
    BY <1>7 DEF Flavour
  <2> QED BY <1>7, <2>1 DEF Ivona
<1>8. CASE kind = "pico"
  <2>1. Flavour = Pico
    BY <1>8 DEF Flavour
  <2> QED BY <1>8, <2>1 DEF Pico
<1>9. CASE kind = "openjtalk"
  <2>1. Flavour = OpenJTalk
    BY <1>9 DEF Flavour
  <2> QED BY <1>9, <2>1 DEF OpenJTalk
<1>10. CASE kind = "cxxpiper"
  <2>1. Flavour = CxxPiper
    BY <1>10 DEF Flavour
  <2> QED BY <1>10, <2>1 DEF CxxPiper
<1> QED BY <1>1, <1>2, <1>3, <1>4, <1>5, <1>6, <1>7, <1>8, <1>9, <1>10 DEF Synch, Synchronous

-----------------------------------------------------------------------------
(* A step keeps the types: commands are taken from, and lines added to,    *)
(* the pipes of the module.                                                *)
LEMMA TypedStep ==
  ASSUME Typed, WorkInv, [Next]_vars
  PROVE  Typed'
<1> USE DEF Typed
<1>1. ASSUME commands # <<>>
      PROVE  /\ Tail(commands) \in Seq(Command) /\ Head(commands) \in Command
             /\ Head(commands).cmd = "SPEAK" => Head(commands).text \in Text
  BY <1>1, PipeRead DEF Command
<1>2. \A x \in Line : Append(replies, x) \in Seq(Line) /\ Append(heard, x) \in Seq(Line)
  OBVIOUS
<1>3. \A x \in Command : Append(commands, x) \in Seq(Command)
  OBVIOUS
<1>4. CASE ServerSpeaks
  <2>1. PICK t \in [parts : 0 .. MaxParts, icon : BOOLEAN] :
          commands' = Append(commands, [cmd |-> "SPEAK", text |-> t])
    BY <1>4 DEF ServerSpeaks
  <2>2. [cmd |-> "SPEAK", text |-> t] \in Command
    BY ModuleAssumption DEF Command, Text
  <2> QED BY <1>3, <1>4, <2>1, <2>2 DEF ServerSpeaks, progress, thread
<1>5. ASSUME NEW o \in {"STOP", "PAUSE"}, ServerOrders(o) PROVE Typed'
  <2>1. [cmd |-> o] \in Command
    BY DEF Command
  <2> QED BY <1>3, <1>5, <2>1 DEF ServerOrders, progress, thread
<1>6. CASE ServerHears
  <2>1. Head(replies) \in Line /\ Tail(replies) \in Seq(Line)
    BY <1>6, PipeRead DEF ServerHears
  <2> QED BY <1>2, <1>6, <2>1 DEF ServerHears, progress, thread
<1>7. CASE AsyncSpeak
  BY <1>1, <1>7 DEF AsyncSpeak, NextIs, TakesText, server, progress
<1>8. CASE AsyncReply
  <2>1. "200" \in Line /\ "301" \in Line
    BY DEF Line
  <2> QED BY <1>2, <1>8, <2>1 DEF AsyncReply, server, progress, thread
<1>9. CASE Handles
  BY <1>1, <1>9 DEF Handles, CmdStop, CmdPause, server
<1>10. CASE SyncSpeak
  <2>1. replies \o (IF kind = "espeak" THEN <<"200">> ELSE <<"200", "701">>) \in Seq(Line)
    <3>1. <<"200">> \in Seq(Line) /\ <<"200", "701">> \in Seq(Line)
      BY DEF Line
    <3> QED BY <3>1
  <2> QED BY <1>1, <1>10, <2>1 DEF SyncSpeak, NextIs, TakesText, server, thread
<1>11. CASE Looked
  BY <1>2, <1>11 DEF Looked, Says, Unheard, Line, server, progress, thread
<1>12. CASE SendPart
  BY <1>12 DEF SendPart, server, thread
<1>13. CASE SendMark
  BY <1>2, <1>13 DEF SendMark, Says, Line, server, progress, thread
<1>18. CASE SynthesisFails
  BY <1>18 DEF SynthesisFails, progress, thread
<1>14. CASE SyncEnd
  <2>1. Flavour.ends \in Line /\ "703" \in Line
    BY <1>14, FlavourOf DEF SyncEnd, EndLine, Line, WorkInv
  <2> QED BY <1>2, <1>14, <2>1 DEF SyncEnd, Says, server, progress, thread
<1>15. CASE WorkerWakes \/ Frees \/ Forks \/ Feeds \/ FeedsMore \/ Reaps \/ ChildStep
            \/ CiceroLoops \/ CiceroPolls \/ CiceroClears
  <2>1. UNCHANGED <<kind, commands, replies, heard, session, orders, text, pos>>
    BY <1>15 DEF WorkerWakes, Frees, Forks, Feeds, FeedsMore, Reaps, CiceroLoops, CiceroPolls, CiceroClears,
         ChildStep, ChildGroups, ChildSpeaks, ChildExits, UnchangedByWorker, Unheard, server
  <2>2. said' \in {said, said + 1, text.parts}
    BY <1>15 DEF WorkerWakes, Frees, Forks, Feeds, FeedsMore, Reaps, CiceroLoops, CiceroPolls, CiceroClears,
         ChildStep, ChildGroups, ChildSpeaks, ChildExits, UnchangedByWorker
  <2>3. given' \in {0, given, given + 1} /\ semaphore' \in {semaphore, semaphore - 1}
        /\ (semaphore' # semaphore => semaphore > 0)
    BY <1>15 DEF WorkerWakes, Frees, Forks, Feeds, FeedsMore, Reaps, CiceroLoops, CiceroPolls, CiceroClears,
         ChildStep, ChildGroups, ChildSpeaks, ChildExits, UnchangedByWorker
  <2> QED BY <2>1, <2>2, <2>3 DEF Text
<1>16. CASE WorkerBegins \/ IconBegins \/ EndsBeforeFree \/ Reports \/ CiceroStops
  <2>1. UNCHANGED <<kind, commands, heard, session, orders, text, pos, given, semaphore>>
        /\ said' \in {said, 1} /\ \E x \in {"701", "702", "703"} : Says(x)
    BY <1>16 DEF WorkerBegins, IconBegins, EndsBeforeFree, Reports, CiceroStops, UnchangedByWorker, server
  <2>2. replies' \in Seq(Line)
    BY <1>2, <2>1 DEF Says, Line
  <2> QED BY <2>1, <2>2
<1>17. CASE UNCHANGED vars
  BY <1>17 DEF vars
<1> QED BY <1>4, <1>5, <1>6, <1>7, <1>8, <1>9, <1>10, <1>11, <1>12, <1>13, <1>14, <1>15, <1>16, <1>17, <1>18
        DEF Next, MainStep, WorkerStep

-----------------------------------------------------------------------------
(* Where the threads are.                                                  *)

(* The worker and its child belong to the threaded kinds.                  *)
LEMMA WorkerThreaded ==
  ASSUME Typed, WorkInv, WorkerStep \/ ChildStep
  PROVE  ~Synch
<1> SUFFICES ASSUME Synch PROVE FALSE
  OBVIOUS
<1>1. worker = "wait" /\ semaphore = 0 /\ child = "none"
  BY DEF WorkInv
<1> QED BY <1>1 DEF WorkerStep, ChildStep, WorkerWakes, WorkerBegins, IconBegins, EndsBeforeFree, Frees,
       Forks, Feeds, FeedsMore, Reaps, Reports, CiceroLoops, CiceroPolls, CiceroStops, CiceroClears,
       Worker, ChildGroups, ChildSpeaks, ChildExits

(* A step leaves the threads where their kind has them.                    *)
LEMMA WorkStep ==
  ASSUME Typed, WorkInv, CommandsInv, [Next]_vars
  PROVE  WorkInv'
<1> USE DEF WorkInv
<1>0. kind' = kind /\ Synch' = Synch
  <2>1. kind' = kind
    BY DEF Next, MainStep, WorkerStep, ChildStep, ServerSpeaks, ServerOrders, ServerHears, AsyncSpeak,
       AsyncReply, Handles, SyncSpeak, Looked, SendPart, SendMark, SynthesisFails, SyncEnd, WorkerWakes, WorkerBegins,
       IconBegins, EndsBeforeFree, Frees, Forks, Feeds, FeedsMore, Reaps, Reports, CiceroLoops,
       CiceroPolls, CiceroStops, CiceroClears, ChildGroups, ChildSpeaks, ChildExits,
       UnchangedByWorker, server, vars
  <2> QED BY <2>1 DEF Synch
<1>1. ASSUME ServerSpeaks \/ ServerHears \/ \E o \in {"STOP", "PAUSE"} : ServerOrders(o)
      PROVE  WorkInv'
  BY <1>0, <1>1 DEF ServerSpeaks, ServerHears, ServerOrders, flags, thread
<1>2. CASE AsyncSpeak
  <2>1. ~Synch /\ kind \notin {"espeak", "flite"}
    BY <1>2, KindOf DEF AsyncSpeak
  <2>2. ~Owes
    BY <1>2, PipeRead DEF AsyncSpeak, NextIs, CommandsInv, Waits, Typed
  <2>3. semaphore' \in {0, 1} /\ (semaphore' = 1 => worker \in Quiet) /\ main' \in {"accepts", "refuses"}
    BY <1>2, <2>1, <2>2 DEF AsyncSpeak, Owes, Unsaid, Running, flags
  <2> QED BY <1>0, <1>2, <2>1, <2>3 DEF AsyncSpeak
<1>3. CASE AsyncReply
  BY <1>0, <1>3, KindOf DEF AsyncReply, flags, thread
<1>4. CASE Handles
  <2>1. UNCHANGED <<main, worker, semaphore, speaking>>
    BY <1>4 DEF Handles, CmdStop, CmdPause
  <2>2. Synch => child' = child
    BY <1>4, KindOf DEF Handles, CmdStop, CmdPause, Killed
  <2>3. kind = "flite" /\ ~speaking => ~stop'
    BY <1>4, FlavourOf, KindOf DEF Handles, CmdStop, CmdPause
  <2> QED BY <1>0, <2>1, <2>2, <2>3
<1>5. CASE SyncSpeak
  <2>1. Synch /\ main' \in {"first", "look", "step"} /\ (main' = "first" => kind = "espeak")
    BY <1>5, FlavourOf DEF SyncSpeak, Synch
  <2> QED BY <1>0, <1>5, <2>1 DEF SyncSpeak, Resets, thread
<1>6. CASE Looked
  BY <1>0, <1>6 DEF Looked, flags, thread
<1>7. CASE SendPart
  BY <1>0, <1>7 DEF SendPart, flags, thread
<1>8. CASE SendMark
  BY <1>0, <1>8 DEF SendMark, thread
<1>12. CASE SynthesisFails
  <2>1. kind \in Synchronous /\ main' = "fails" /\ main # "idle"
    BY <1>12, FlavourOf DEF SynthesisFails, Synchronous, Synch
  <2> QED BY <1>0, <1>12, <2>1 DEF SynthesisFails, Synch, flags, thread
<1>9. CASE SyncEnd
  BY <1>0, <1>9 DEF SyncEnd, thread
<1>10. CASE WorkerStep \/ ChildStep
  <2>1. ~Synch /\ kind \in {"generic", "dummy", "cicero"} /\ main' = main /\ kind \notin {"espeak", "flite"}
    <3>1. main' = main
      BY <1>10 DEF WorkerStep, ChildStep, WorkerWakes, WorkerBegins, IconBegins, EndsBeforeFree, Frees, Forks,
         Feeds, FeedsMore, Reaps, Reports, CiceroLoops, CiceroPolls, CiceroStops, CiceroClears,
         ChildGroups, ChildSpeaks, ChildExits, UnchangedByWorker
    <3> QED BY <1>10, <3>1, WorkerThreaded, KindOf
  <2>2. semaphore' \in {0, 1} /\ (semaphore' = 1 => worker' \in Quiet)
    BY <1>10 DEF WorkerStep, ChildStep, WorkerWakes, WorkerBegins, IconBegins, EndsBeforeFree, Frees, Forks,
       Feeds, FeedsMore, Reaps, Reports, CiceroLoops, CiceroPolls, CiceroStops, CiceroClears, Worker, Quiet,
       ChildGroups, ChildSpeaks, ChildExits, UnchangedByWorker
  <2>3. /\ worker' \in {"loop", "poll", "stops", "clear"} => kind = "cicero"
        /\ worker' \in {"feed", "answer"} => kind = "generic"
        /\ worker' \in {"fork", "reap", "report"} => kind # "cicero"
    BY <1>10, <2>1 DEF WorkerStep, ChildStep, WorkerWakes, WorkerBegins, IconBegins, EndsBeforeFree, Frees, Forks,
       Feeds, FeedsMore, Reaps, Reports, CiceroLoops, CiceroPolls, CiceroStops, CiceroClears, Worker, Quiet,
       ChildGroups, ChildSpeaks, ChildExits, UnchangedByWorker
  <2> QED BY <1>0, <2>1, <2>2, <2>3
<1>11. CASE UNCHANGED vars
  BY <1>0, <1>11 DEF vars
<1> QED BY <1>1, <1>2, <1>3, <1>4, <1>5, <1>6, <1>7, <1>8, <1>9, <1>10, <1>11, <1>12 DEF Next, MainStep

-----------------------------------------------------------------------------
(* The flags.                                                              *)

(* Handling STOP or PAUSE while the message is in the module: the command  *)
(* was ordered for it.                                                     *)
LEMMA HandledOrder ==
  ASSUME Typed, CommandsInv, Handles, Owes
  PROVE  /\ orders # {}
         /\ NextIs("STOP") => "STOP" \in orders
         /\ NextIs("PAUSE") => "PAUSE" \in orders
<1>1. commands # <<>> /\ commands[1] = Head(commands) /\ 1 \in DOMAIN commands
  BY PipeRead DEF Handles, Typed
<1>2. commands[1].cmd \in orders
  BY <1>1 DEF CommandsInv
<1> QED BY <1>1, <1>2 DEF Handles, NextIs

(* Only a new request forgets the orders, and no step changes the kind.    *)
LEMMA KindStays ==
  ASSUME [Next]_vars
  PROVE  /\ kind' = kind /\ Synch' = Synch
         /\ orders \subseteq orders' \/ ServerSpeaks
         /\ everPaused => everPaused'
<1>1. kind' = kind /\ (orders \subseteq orders' \/ ServerSpeaks)
  BY DEF Next, MainStep, WorkerStep, ChildStep, ServerOrders, ServerHears, AsyncSpeak, ServerSpeaks,
     AsyncReply, Handles, SyncSpeak, Looked, SendPart, SendMark, SynthesisFails, SyncEnd, WorkerWakes, WorkerBegins,
     IconBegins, EndsBeforeFree, Frees, Forks, Feeds, FeedsMore, Reaps, Reports, CiceroLoops,
     CiceroPolls, CiceroStops, CiceroClears, ChildGroups, ChildSpeaks, ChildExits,
     UnchangedByWorker, server, vars
<1>2. everPaused => everPaused'
  BY DEF Next, MainStep, WorkerStep, ChildStep, ServerOrders, ServerHears, AsyncSpeak, ServerSpeaks,
     AsyncReply, Handles, SyncSpeak, Looked, SendPart, SendMark, SynthesisFails, SyncEnd, WorkerWakes, WorkerBegins,
     IconBegins, EndsBeforeFree, Frees, Forks, Feeds, FeedsMore, Reaps, Reports, CiceroLoops,
     CiceroPolls, CiceroStops, CiceroClears, ChildGroups, ChildSpeaks, ChildExits,
     UnchangedByWorker, server, vars
<1> QED BY <1>1, <1>2 DEF Synch

(* A step sets no flag that the server did not order.                      *)
LEMMA FlagsStep ==
  ASSUME Typed, WorkInv, FlagsInv, CommandsInv, PhaseInv, [Next]_vars
  PROVE  FlagsInv'
<1> DEFINE Speaks == {"begin", "fork", "feed", "answer", "reap", "report"}
<1> USE KindStays DEF Failed
<1>0. ~Synch => main # "fails"
  BY DEF WorkInv
<1>1. CASE ServerSpeaks
  <2>1. ~Owes /\ UNCHANGED <<main, worker>>
    BY <1>1 DEF ServerSpeaks, PhaseInv, thread
  <2>2. IF Synch THEN main = "idle" ELSE worker \in Quiet
    BY <2>1 DEF Owes, Unsaid, Running, WorkInv
  <2>3. Synch => worker = "wait"
    BY DEF WorkInv
  <2> QED BY <1>0, <2>1, <2>2, <2>3 DEF FlagsInv, Quiet
<1>2. ASSUME ServerHears \/ AsyncReply \/ \E o \in {"STOP", "PAUSE"} : ServerOrders(o)
      PROVE  FlagsInv'
  <2>1. UNCHANGED <<worker, child, stop, pause>> /\ (Synch => main' = main) /\ main' \in {main, "idle"}
    BY <1>2, KindOf DEF ServerHears, AsyncReply, ServerOrders, flags, thread, WorkInv
  <2>2. orders \subseteq orders'
    BY <1>2 DEF ServerHears, AsyncReply, ServerOrders, server
  <2> QED BY <2>1, <2>2 DEF FlagsInv
<1>3. CASE AsyncSpeak
  <2>1. UNCHANGED <<worker, child, stop, pause, orders>> /\ ~Synch /\ main' # "fails"
    BY <1>3, KindOf DEF AsyncSpeak, server, flags
  <2> QED BY <2>1 DEF FlagsInv
<1>4. CASE Handles
  <2>1. UNCHANGED <<main, worker, orders>> /\ child' \in {child, "killed"}
    BY <1>4 DEF Handles, CmdStop, CmdPause, Killed, server
  <2>2. CASE ~Owes
    <3>1. IF Synch THEN main = "idle" ELSE worker \in Quiet
      BY <2>2 DEF Owes, Unsaid, Running, WorkInv
    <3>2. Synch => worker = "wait"
      BY DEF WorkInv
    <3> QED BY <2>1, <3>1, <3>2 DEF FlagsInv, Quiet
  <2>3. CASE Owes
    <3>1. orders # {}
      BY <1>4, <2>3, HandledOrder
    <3>2. kind = "espeak" /\ stop' => stop \/ "STOP" \in orders
      BY <1>4, <2>3, HandledOrder, FlavourOf DEF Handles, CmdStop, CmdPause, Synch, Synchronous
    <3>3. pause' => pause \/ "PAUSE" \in orders
      BY <1>4, <2>3, HandledOrder DEF Handles, CmdStop, CmdPause
    <3> QED BY <2>1, <3>1, <3>2, <3>3 DEF FlagsInv
  <2> QED BY <2>2, <2>3
<1>5. CASE SyncSpeak
  <2>1. Synch /\ worker' = "wait" /\ ~pause' /\ ~stop' /\ main' # "fails"
    BY <1>5, FlavourOf DEF SyncSpeak, Resets, thread, WorkInv, Synch
  <2> QED BY <2>1 DEF FlagsInv
<1>6. CASE Looked \/ SendPart \/ SendMark
  <2>1. UNCHANGED <<worker, child, stop, pause, orders>> /\ main # "idle" /\ main' # "fails"
    BY <1>6 DEF Looked, SendPart, SendMark, flags, thread, server
  <2> QED BY <2>1 DEF FlagsInv
<1>10. CASE SynthesisFails
  <2>1. UNCHANGED <<worker, child, stop, pause>> /\ main # "idle" /\ orders' = orders \cup {"FAILURE"}
    <3>1. main # "idle"
      BY <1>10, FlavourOf DEF SynthesisFails, Synchronous, Synch
    <3> QED BY <1>10, <3>1 DEF SynthesisFails, flags, thread
  <2> QED BY <2>1 DEF FlagsInv
<1>7. CASE SyncEnd
  <2>1. UNCHANGED <<worker, child, orders>> /\ main' = "idle" /\ worker = "wait"
    BY <1>7 DEF SyncEnd, thread, server, WorkInv
  <2> QED BY <2>1 DEF FlagsInv
<1>8. CASE WorkerStep \/ ChildStep
  <2>1. ~Synch /\ orders' = orders /\ main' = main
    BY <1>8, WorkerThreaded DEF WorkerStep, ChildStep, WorkerWakes, WorkerBegins, IconBegins, EndsBeforeFree,
       Frees, Forks, Feeds, FeedsMore, Reaps, Reports, CiceroLoops, CiceroPolls, CiceroStops, CiceroClears,
       ChildGroups, ChildSpeaks, ChildExits, UnchangedByWorker, server
  <2>2. kind = "cicero" /\ worker' \in {"begin", "loop", "poll"} /\ stop' => orders # {}
    BY <1>8 DEF FlagsInv, WorkerStep, ChildStep, WorkerWakes, WorkerBegins, IconBegins, EndsBeforeFree,
       Frees, Forks, Feeds, FeedsMore, Reaps, Reports, CiceroLoops, CiceroPolls, CiceroStops, CiceroClears,
       ChildGroups, ChildSpeaks, ChildExits, UnchangedByWorker, Worker, flags
  <2>3. worker' = "stops" => orders # {}
    BY <1>8 DEF FlagsInv, WorkInv, WorkerStep, ChildStep, WorkerWakes, WorkerBegins, IconBegins, EndsBeforeFree,
       Frees, Forks, Feeds, FeedsMore, Reaps, Reports, CiceroLoops, CiceroPolls, CiceroStops, CiceroClears,
       ChildGroups, ChildSpeaks, ChildExits, UnchangedByWorker, Worker
  <2>4. worker' \in Speaks /\ child' = "killed" => orders # {}
    BY <1>8 DEF FlagsInv, WorkInv, WorkerStep, ChildStep, WorkerWakes, WorkerBegins, IconBegins, EndsBeforeFree,
       Frees, Forks, Feeds, FeedsMore, Reaps, Reports, CiceroLoops, CiceroPolls, CiceroStops, CiceroClears,
       ChildGroups, ChildSpeaks, ChildExits, UnchangedByWorker, Worker
  <2> QED BY <1>0, <2>1, <2>2, <2>3, <2>4 DEF FlagsInv
<1>9. CASE UNCHANGED vars
  BY <1>9 DEF vars, FlagsInv
<1> QED BY <1>1, <1>2, <1>3, <1>4, <1>5, <1>6, <1>7, <1>8, <1>9, <1>10 DEF Next, MainStep

-----------------------------------------------------------------------------
(* Every step is one of those that the server can tell apart.              *)
LEMMA SeenStep ==
  ASSUME Typed, WorkInv, FlagsInv, CommandsInv, Next
  PROVE  Seen
<1> USE KindStays, KindOf
<1>0. ASSUME UNCHANGED <<main, worker, semaphore>> PROVE Keeps
  BY <1>0 DEF Keeps, Unsaid, Running, Lock, Failed
<1>1. CASE ServerSpeaks
  <2>1. PICK t \in [parts : 0 .. MaxParts, icon : BOOLEAN] :
          commands' = Append(commands, [cmd |-> "SPEAK", text |-> t])
    BY <1>1 DEF ServerSpeaks
  <2>2. [cmd |-> "SPEAK", text |-> t] \in Command /\ [cmd |-> "SPEAK", text |-> t].cmd = "SPEAK"
    BY ModuleAssumption DEF Command, Text
  <2>3. Keeps
    BY <1>0, <1>1 DEF ServerSpeaks, thread
  <2> QED BY <1>1, <2>1, <2>2, <2>3 DEF Asks, Seen
<1>2. ASSUME NEW o \in {"STOP", "PAUSE"}, ServerOrders(o) PROVE Seen
  BY <1>0, <1>2 DEF ServerOrders, thread, Orders, Seen
<1>3. CASE ServerHears
  BY <1>0, <1>3 DEF ServerHears, thread, Hears, Seen
<1>4. CASE AsyncSpeak
  <2>1. /\ ~Synch /\ main = "idle" /\ commands # <<>> /\ commands[1].cmd = "SPEAK" /\ Waits
        /\ commands' = Tail(commands) /\ replies' = replies /\ Unseen /\ worker' = worker
    BY <1>4, PipeRead DEF AsyncSpeak, NextIs, Typed, Waits, Unseen, server
  <2>2. ~Owes /\ Takes
    BY <2>1 DEF CommandsInv, Takes, Lock
  <2>3. ~Synch' /\ worker \in Quiet /\ semaphore = 0
    BY <2>1, <2>2 DEF Owes, Unsaid, Running, WorkInv
  <2>4. CASE speaking
    <3>1. main' = "refuses" /\ semaphore' = semaphore
      BY <1>4, <2>4 DEF AsyncSpeak
    <3>2. ~Owes' /\ Lock' = "refuses"
      BY <2>1, <2>3, <3>1 DEF Owes, Unsaid, Running, Lock, Quiet
    <3> QED BY <2>1, <2>2, <3>2 DEF Refuses, Seen
  <2>5. CASE ~speaking
    <3>1. main' = "accepts" /\ semaphore' = 1
      BY <1>4, <2>3, <2>5 DEF AsyncSpeak
    <3>2. Unsaid' /\ ~Running' /\ Lock' = "accepts"
      BY <2>1, <2>3, <3>1 DEF Unsaid, Running, Lock
    <3> QED BY <2>1, <2>2, <3>2 DEF Accepts, Seen
  <2> QED BY <2>4, <2>5
<1>5. CASE AsyncReply
  <2>1. ~Synch /\ ~Synch' /\ UNCHANGED <<worker, semaphore>> /\ Lock = main /\ main \in {"accepts", "refuses"} /\ Lock' = "none"
    BY <1>5 DEF AsyncReply, thread, WorkInv, Lock
  <2>2. Unsaid' = Unsaid /\ Running' = Running
    BY <2>1 DEF Unsaid, Running
  <2> QED BY <1>5, <2>1, <2>2 DEF AsyncReply, server, Unseen, Replies, Seen
<1>6. CASE Handles
  <2>1. Keeps
    BY <1>0, <1>6 DEF Handles
  <2>2. commands # <<>> /\ commands[1].cmd # "SPEAK" /\ commands' = Tail(commands)
    BY <1>6, PipeRead DEF Handles, NextIs, Typed
  <2> QED BY <1>6, <2>1, <2>2 DEF Handles, server, Unseen, Works, Seen
<1>7. CASE SyncSpeak
  <2>1. /\ Synch /\ main = "idle" /\ commands # <<>> /\ commands[1].cmd = "SPEAK" /\ Waits
        /\ commands' = Tail(commands) /\ Unseen /\ main' = Flavour.first
    BY <1>7, PipeRead DEF SyncSpeak, NextIs, Typed, Waits, Unseen, server, Synch
  <2>2. Takes
    BY <2>1 DEF CommandsInv, Takes, Lock
  <2>3. Synch' /\ Lock' = "none" /\ main' \in {"first", "look", "step"} /\ (main' = "first" <=> kind = "espeak")
    BY <2>1, FlavourOf DEF Lock
  <2>4. CASE kind = "espeak"
    <3>1. replies' = replies \o <<"200">> /\ Unsaid' /\ ~Running'
      BY <1>7, <2>3, <2>4 DEF SyncSpeak, Unsaid, Running
    <3> QED BY <2>2, <2>3, <3>1 DEF Starts, Seen
  <2>5. CASE kind # "espeak"
    <3>1. replies' = replies \o <<"200", "701">> /\ ~Unsaid' /\ Running'
      BY <1>7, <2>3, <2>5 DEF SyncSpeak, Unsaid, Running
    <3> QED BY <2>2, <2>3, <3>1 DEF Starts, Seen
  <2> QED BY <2>4, <2>5
<1>8. CASE Looked
  <2>1. /\ Synch /\ Synch' /\ Unseen /\ commands' = commands /\ main' = "step"
        /\ Lock = "none" /\ Lock' = "none" /\ Running' /\ ~Unsaid'
    BY <1>8 DEF Looked, WorkInv, Unseen, Lock, server, Running, Unsaid
  <2>2. CASE main = "first" /\ ~stop
    BY <1>8, <2>1, <2>2 DEF Looked, Says, Sends, Begins, Seen, Unsaid
  <2>3. CASE main = "first" /\ stop
    BY <1>8, <2>1, <2>3 DEF Looked, Unheard, Skips, Seen, Unsaid, WorkInv
  <2>4. CASE main = "look"
    BY <1>8, <2>1, <2>4 DEF Looked, Unheard, Works, Keeps, Seen, Unsaid, Running, Failed
  <2> QED BY <1>8, <2>2, <2>3, <2>4 DEF Looked
<1>9. CASE SendPart
  <2>1. Synch /\ Synch' /\ main = "step" /\ main' \in {"look", "step"}
    BY <1>9 DEF SendPart, WorkInv
  <2>2. Keeps
    BY <2>1 DEF Keeps, Unsaid, Running, Lock, Failed
  <2> QED BY <1>9, <2>2 DEF SendPart, server, Unseen, Works, Seen
<1>10. CASE SendMark
  <2>1. Synch /\ Synch' /\ main = "step" /\ main' \in {"look", "step"} /\ ~stop
    BY <1>10 DEF SendMark, WorkInv, Halts
  <2>2. Keeps /\ Lock = "none" /\ Lock' = "none" /\ Running /\ ~Failed
    BY <2>1 DEF Keeps, Unsaid, Running, Lock, Failed
  <2> QED BY <1>10, <2>1, <2>2 DEF SendMark, Says, server, Unseen, Sends, Marks, Seen
<1>15. CASE SynthesisFails
  <2>1. Synch /\ Synch' /\ main \in {"first", "look", "step"} /\ main' = "fails"
    BY <1>15, FlavourOf DEF SynthesisFails, Synchronous, Synch
  <2>2. Owes /\ ~Unsaid' /\ Running' /\ Failed' /\ Lock = "none" /\ Lock' = "none"
    BY <2>1 DEF Owes, Unsaid, Running, Failed, Lock
  <2> QED BY <1>15, <2>2 DEF SynthesisFails, Breaks, Seen
<1>11. CASE SyncEnd
  <2>1. Synch /\ Synch' /\ main \in {"step", "fails"} /\ main' = "idle"
    BY <1>11 DEF SyncEnd, WorkInv
  <2>2. Lock = "none" /\ Lock' = "none" /\ Running /\ ~Owes'
    BY <2>1 DEF Owes, Unsaid, Running, Lock
  <2>3. PICK e \in EndLine : /\ Says(e)
                             /\ e = "703" => orders # {}
                             /\ e = "704" => "PAUSE" \in orders
    <3>1. CASE main = "fails" /\ kind \in {"flite", "kali", "festival"}
      BY <1>11, <3>1 DEF SyncEnd, FlagsInv, Failed, EndLine
    <3>2. CASE ~(main = "fails" /\ kind \in {"flite", "kali", "festival"})
      BY <1>11, <2>1, <3>2, FlavourOf DEF SyncEnd, FlagsInv
    <3> QED BY <3>1, <3>2
  <2> QED BY <1>11, <2>2, <2>3 DEF SyncEnd, Says, server, Unseen, Sends, Ends, Seen
<1>12. CASE WorkerWakes \/ Frees \/ Forks \/ Feeds \/ FeedsMore \/ Reaps \/ ChildStep
            \/ CiceroLoops \/ CiceroPolls \/ CiceroClears
  <2>1. ~Synch /\ ~Synch'
    BY <1>12, WorkerThreaded DEF WorkerStep
  <2>2. Unseen /\ UNCHANGED <<commands, replies, main>>
    BY <1>12 DEF WorkerWakes, Frees, Forks, Feeds, FeedsMore, Reaps, CiceroLoops, CiceroPolls, CiceroClears,
         ChildStep, ChildGroups, ChildSpeaks, ChildExits, UnchangedByWorker, Unheard, server, Unseen
  <2>3. Unsaid' = Unsaid
    BY <1>12, <2>1 DEF WorkerWakes, Frees, Forks, Feeds, FeedsMore, Reaps, CiceroLoops, CiceroPolls, CiceroClears,
         ChildStep, ChildGroups, ChildSpeaks, ChildExits, UnchangedByWorker, Worker, Unsaid, WorkInv, Quiet
  <2>4. Running' = Running
    BY <1>12, <2>1 DEF WorkerWakes, Frees, Forks, Feeds, FeedsMore, Reaps, CiceroLoops, CiceroPolls, CiceroClears,
         ChildStep, ChildGroups, ChildSpeaks, ChildExits, UnchangedByWorker, Worker, Running, Quiet
  <2> QED BY <2>2, <2>3, <2>4 DEF Keeps, Lock, Failed, Works, Seen
<1>13. CASE WorkerBegins \/ IconBegins
  <2>1. ~Synch /\ ~Synch' /\ worker \in {"icon", "begin"} /\ semaphore' = 0
    BY <1>13, WorkerThreaded DEF WorkerStep, WorkerBegins, IconBegins, Worker, WorkInv, Quiet
  <2>2. Unsaid /\ ~Unsaid' /\ Running'
    BY <1>13, <2>1 DEF WorkerBegins, IconBegins, Worker, Unsaid, Running, Quiet
  <2> QED BY <1>13, <2>2 DEF WorkerBegins, IconBegins, UnchangedByWorker, Says, Unlocked, Lock, server,
          Unseen, Sends, Begins, Seen
<1>14. CASE EndsBeforeFree \/ Reports \/ CiceroStops
  <2>1. ~Synch /\ ~Synch' /\ worker \in {"ended", "report", "stops"} /\ semaphore' = 0 /\ worker' \in Quiet
    BY <1>14, WorkerThreaded DEF WorkerStep, EndsBeforeFree, Reports, CiceroStops, Worker, WorkInv, Quiet
  <2>2. Running /\ ~Owes'
    BY <2>1 DEF Unsaid, Running, Quiet, Owes
  <2>3. PICK e \in {"702", "703"} : Says(e) /\ (e = "703" => worker = "stops" \/ (worker = "report" /\ child = "killed"))
    BY <1>14 DEF EndsBeforeFree, Reports, CiceroStops, Worker
  <2>4. Unseen /\ UNCHANGED <<commands, main>>
    BY <1>14 DEF EndsBeforeFree, Reports, CiceroStops, UnchangedByWorker, server, Unseen
  <2> QED BY <2>2, <2>3, <2>4 DEF FlagsInv, Says, Unlocked, Lock, Sends, Ends, EndLine, Seen
<1> QED BY <1>1, <1>2, <1>3, <1>4, <1>5, <1>6, <1>7, <1>8, <1>9, <1>10, <1>11, <1>12, <1>13, <1>14, <1>15
        DEF Next, MainStep, WorkerStep

-----------------------------------------------------------------------------
(* What is said.                                                           *)

(* espeak does not forget a stop while it has a message.                   *)
LEMMA StopStays ==
  ASSUME Typed, WorkInv, Next, kind = "espeak", stop, Owes, Owes'
  PROVE  stop'
<1>1. Synch /\ Synch'
  BY KindStays DEF Synch, Synchronous
<1>2. main # "idle" /\ main' # "idle" /\ ~WorkerStep /\ ~ChildStep
  BY <1>1, WorkerThreaded DEF Owes, Unsaid, Running
<1> QED BY <1>1, <1>2, KindOf
        DEF Next, MainStep, ServerSpeaks, ServerOrders, ServerHears, AsyncSpeak, AsyncReply, Handles, CmdStop,
            CmdPause, SyncSpeak, Looked, SendPart, SendMark, SynthesisFails, SyncEnd, flags

(* A line of the module is added to those on their way.                    *)
LEMMA SendsStep ==
  ASSUME Typed, RepliesInv, Owes, NEW x \in Line, Sends(x),
         x \notin {"200", "301"},
         x = "701" => ~Told701,
         x = "700" => Told701,
         x \in EndLine => /\ ~Owes' /\ (Told701 \/ NeedNotBegin)
                          /\ x = "703" => orders # {}
                          /\ x = "704" => "PAUSE" \in orders
  PROVE  /\ \A i \in DOMAIN replies' : InOrder(i)'
         /\ Told701' <=> Told701 \/ x = "701"
<1>1. /\ replies' # <<>> /\ Len(replies) \in Nat /\ Len(replies') = Len(replies) + 1
      /\ DOMAIN replies = 1 .. Len(replies) /\ DOMAIN replies' = 1 .. Len(replies) + 1
      /\ \A i \in DOMAIN replies : replies'[i] = replies[i]
      /\ replies'[Len(replies) + 1] = x
      /\ UNCHANGED <<session, orders, heard>>
  BY PipeWrite DEF Typed, Sends, Unseen
<1>2. Heard701' = Heard701
  BY <1>1 DEF Heard701
<1>3. Told701' <=> Told701 \/ x = "701"
  BY <1>1, <1>2 DEF Told701
<1>4. \A i \in DOMAIN replies : replies[i] \notin EndLine
  BY DEF RepliesInv, InOrder
<1>5. ASSUME NEW i \in DOMAIN replies PROVE InOrder(i)'
  <2>1. InOrder(i) /\ replies'[i] = replies[i] /\ replies[i] \notin EndLine /\ i \in Nat /\ i <= Len(replies)
    BY <1>1, <1>4 DEF RepliesInv
  <2>2. replies[i] \in {"200", "301"} => i = 1 /\ session' = "asked"
    BY <1>1, <2>1 DEF InOrder
  <2>3. replies[i] = "701" => ~Heard701' /\ \A j \in DOMAIN replies' : replies'[j] = "701" => i = j
    BY <1>1, <1>2, <2>1 DEF InOrder, Told701
  <2>4. replies[i] = "700" => Heard701' \/ \E j \in DOMAIN replies' : j < i /\ replies'[j] = "701"
    BY <1>1, <1>2, <2>1 DEF InOrder
  <2> QED BY <2>1, <2>2, <2>3, <2>4 DEF InOrder
<1>6. ASSUME NEW i, i = Len(replies) + 1 PROVE InOrder(i)'
  <2>1. replies'[i] = x /\ i = Len(replies')
    BY <1>1, <1>6
  <2>2. x = "701" => ~Heard701' /\ \A j \in DOMAIN replies' : replies'[j] = "701" => i = j
    BY <1>1, <1>2, <1>6 DEF Told701
  <2>3. x = "700" => Heard701' \/ \E j \in DOMAIN replies' : j < i /\ replies'[j] = "701"
    BY <1>1, <1>2, <1>6 DEF Told701
  <2> QED BY <1>1, <1>3, <2>1, <2>2, <2>3 DEF InOrder, NeedNotBegin
<1>7. \A i \in DOMAIN replies' : i \in DOMAIN replies \/ i = Len(replies) + 1
  BY <1>1
<1> QED BY <1>3, <1>5, <1>6, <1>7

(* What is on its way stays in order, whatever the module does next.       *)
LEMMA RepliesStep ==
  ASSUME Typed, WorkInv, FlagsInv, SpeechInv, Next, Seen
  PROVE  RepliesInv'
<1> USE KindStays DEF SpeechInv
<1>1. ASSUME replies' = replies, heard' = heard, session' = session, orders \subseteq orders',
             Unsaid' = Unsaid, Running' = Running, Failed' = Failed
      PROVE  RepliesInv'
  <2>1. Told701' = Told701 /\ Heard701' = Heard701 /\ Owes' = Owes
    BY <1>1 DEF Told701, Heard701, Owes
  <2>2. ASSUME NEW i \in DOMAIN replies' PROVE InOrder(i)'
    <3>1. InOrder(i)
      BY <1>1 DEF RepliesInv
    <3> QED BY <1>1, <2>1, <3>1 DEF InOrder, NeedNotBegin
  <2> QED BY <1>1, <2>1, <2>2, StopStays DEF RepliesInv, Owes
<1>2. ASSUME replies = <<>>, heard = <<>>, replies' = <<>>, heard' = <<>>,
             Running' => Told701' \/ (kind = "espeak" /\ stop')
      PROVE  RepliesInv'
  BY <1>2 DEF RepliesInv, Told701, Heard701
<1>3. CASE Asks
  <2>1. replies' = <<>> /\ heard' = <<>> /\ ~Owes'
    BY <1>3 DEF Asks, ServerSpeaks, PhaseInv, Keeps, Owes
  <2> QED BY <2>1 DEF RepliesInv, Owes
<1>4. CASE Orders \/ Works
  BY <1>1, <1>4 DEF Orders, ServerOrders, Works, Unseen, Keeps
<1>5. CASE Accepts \/ Refuses \/ Starts
  <2>1. commands # <<>> /\ Waits
    BY <1>5, PipeRead DEF Accepts, Refuses, Starts, Takes, Waits, Typed
  <2>2. session = "asked" /\ replies = <<>> /\ heard = <<>> /\ UNCHANGED <<session, heard>>
    BY <1>5, <2>1 DEF CommandsInv, PhaseInv, Accepts, Refuses, Starts, Takes, Unseen
  <2>3. CASE Accepts \/ Refuses
    <3>1. replies' = <<>> /\ ~Running' /\ ~Heard701' /\ ~Told701'
      BY <2>2, <2>3 DEF Accepts, Refuses, Owes, Heard701, Told701
    <3> QED BY <3>1 DEF RepliesInv
  <2>4. CASE replies' = <<"200">> /\ Unsaid' /\ ~Running'
    <3>1. DOMAIN replies' = {1} /\ replies'[1] = "200" /\ ~Heard701' /\ ~Told701'
      BY <2>2, <2>4 DEF Heard701, Told701
    <3> QED BY <2>2, <2>4, <3>1 DEF RepliesInv, InOrder, EndLine
  <2>5. CASE replies' = <<"200", "701">> /\ ~Unsaid' /\ Running'
    <3>1. DOMAIN replies' = {1, 2} /\ replies'[1] = "200" /\ replies'[2] = "701" /\ ~Heard701' /\ Told701'
      BY <2>2, <2>5 DEF Heard701, Told701
    <3> QED BY <2>2, <2>5, <3>1 DEF RepliesInv, InOrder, EndLine
  <2>6. Starts => \/ replies' = <<"200">> /\ Unsaid' /\ ~Running'
                  \/ replies' = <<"200", "701">> /\ ~Unsaid' /\ Running'
    BY <2>2 DEF Starts
  <2> QED BY <1>5, <2>3, <2>4, <2>5, <2>6
<1>6. CASE Replies
  <2>1. /\ session = "asked" /\ session' = "asked" /\ replies = <<>> /\ heard = <<>> /\ heard' = <<>>
        /\ Unsaid' = Unsaid /\ Running' = Running
    BY <1>6 DEF Replies, PhaseInv, Unseen, Lock, Typed
  <2>2. ~Running' /\ DOMAIN replies' = {1} /\ replies'[1] \in {"200", "301"}
    BY <1>6, <2>1 DEF Replies, PhaseInv, Lock, Owes
  <2>3. ~Told701' /\ ~Heard701'
    BY <2>1, <2>2 DEF Heard701, Told701
  <2> QED BY <2>1, <2>2, <2>3 DEF RepliesInv, InOrder, EndLine
<1>7. CASE Begins
  <2>1. Owes /\ ~Told701 /\ "701" \in Line /\ Sends("701") /\ Running' /\ ~Unsaid'
    BY <1>7 DEF Begins, Owes, RepliesInv, Line
  <2> QED BY <2>1, SendsStep DEF RepliesInv, EndLine
<1>8. CASE Marks
  <2>1. Owes /\ Told701 /\ "700" \in Line /\ Sends("700") /\ Unsaid' = Unsaid /\ Running' = Running
    BY <1>8 DEF Marks, Keeps, Owes, RepliesInv, Line
  <2> QED BY <2>1, SendsStep DEF RepliesInv, EndLine
<1>12. CASE Breaks
  <2>1. /\ UNCHANGED <<replies, heard, session>> /\ orders \subseteq orders'
        /\ Owes /\ Owes' /\ ~Unsaid' /\ Failed'
    BY <1>12 DEF Breaks, Owes
  <2>2. Told701' = Told701 /\ Heard701' = Heard701
    BY <2>1 DEF Told701, Heard701
  <2>3. ASSUME NEW i \in DOMAIN replies' PROVE InOrder(i)'
    <3>1. InOrder(i)
      BY <2>1 DEF RepliesInv
    <3> QED BY <2>1, <2>2, <3>1 DEF InOrder, NeedNotBegin
  <2> QED BY <2>1, <2>2, <2>3 DEF RepliesInv
<1>9. CASE Ends
  <2>1. PICK e \in EndLine : /\ Sends(e)
                             /\ e = "703" => orders # {}
                             /\ e = "704" => "PAUSE" \in orders
    BY <1>9 DEF Ends
  <2>2. Owes /\ Running /\ ~Owes' /\ e \in Line
    BY <1>9 DEF Ends, Owes, EndLine, Line
  <2>3. Told701 \/ NeedNotBegin
    <3>1. CASE kind = "espeak" /\ stop
      <4>1. Synch /\ main # "idle"
        BY <2>2, <3>1 DEF Running, Synch, Synchronous
      <4> QED BY <3>1, <4>1 DEF FlagsInv, NeedNotBegin
    <3>2. CASE Failed
      BY <3>2 DEF FlagsInv, NeedNotBegin
    <3> QED BY <2>2, <3>1, <3>2 DEF RepliesInv
  <2> QED BY <2>1, <2>2, <2>3, SendsStep DEF RepliesInv, EndLine, Owes
<1>10. CASE Skips
  <2>1. UNCHANGED <<replies, heard, session, orders>> /\ Owes /\ Owes' /\ ~Unsaid' /\ kind = "espeak" /\ stop'
    BY <1>10, StopStays DEF Skips, Unseen, Owes
  <2>2. Told701' = Told701 /\ Heard701' = Heard701
    BY <2>1 DEF Told701, Heard701
  <2>3. ASSUME NEW i \in DOMAIN replies' PROVE InOrder(i)'
    <3>1. InOrder(i)
      BY <2>1 DEF RepliesInv
    <3> QED BY <2>1, <2>2, <3>1 DEF InOrder, NeedNotBegin
  <2> QED BY <2>1, <2>2, <2>3 DEF RepliesInv
<1>11. CASE Hears
  <2>1. /\ replies # <<>> /\ 1 \in DOMAIN replies /\ replies[1] \in Line /\ Len(replies) \in Nat
        /\ replies' = Tail(replies) /\ heard' = Append(heard, replies[1]) /\ UNCHANGED orders
        /\ Unsaid' = Unsaid /\ Running' = Running /\ Failed' = Failed
    BY <1>11, PipeRead DEF Hears, ServerHears, Keeps, Typed
  <2>2. /\ DOMAIN replies = 1 .. Len(replies) /\ DOMAIN replies' = 1 .. Len(replies) - 1
        /\ Len(replies') = Len(replies) - 1
        /\ \A i \in DOMAIN replies' : i + 1 \in DOMAIN replies /\ replies'[i] = replies[i + 1]
    BY <2>1, PipeRead DEF Typed
  <2>3. /\ \A i \in DOMAIN heard : i \in DOMAIN heard' /\ heard'[i] = heard[i]
        /\ \A i \in DOMAIN heard' : heard'[i] = replies[1] \/ (i \in DOMAIN heard /\ heard'[i] = heard[i])
        /\ \E i \in DOMAIN heard' : heard'[i] = replies[1]
    BY <2>1, PipeWrite DEF Typed
  <2>4. Heard701' <=> Heard701 \/ replies[1] = "701"
    BY <2>3 DEF Heard701
  <2>5. ASSUME NEW j \in DOMAIN replies, j # 1
        PROVE  j - 1 \in DOMAIN replies' /\ replies'[j - 1] = replies[j]
    <3>1. j \in Nat /\ j - 1 \in 1 .. Len(replies) - 1
      BY <2>1, <2>2, <2>5
    <3>2. j - 1 \in DOMAIN replies' /\ (j - 1) + 1 = j
      BY <2>2, <3>1
    <3> QED BY <2>2, <3>2
  <2>6. Told701' <=> Told701
    BY <2>1, <2>2, <2>4, <2>5 DEF Told701
  <2>7. Owes' = Owes
    BY <2>1 DEF Owes
  <2>8. ASSUME NEW i \in DOMAIN replies' PROVE InOrder(i)'
    <3>1. InOrder(i + 1) /\ replies'[i] = replies[i + 1] /\ i \in 1 .. Len(replies) - 1 /\ i + 1 # 1
      BY <2>2 DEF RepliesInv
    <3>2. replies'[i] \notin {"200", "301"}
      BY <3>1 DEF InOrder
    <3>3. replies'[i] = "701" => ~Heard701' /\ \A j \in DOMAIN replies' : replies'[j] = "701" => i = j
      BY <2>1, <2>2, <2>4, <3>1 DEF InOrder
    <3>4. ASSUME replies'[i] = "700"
          PROVE  Heard701' \/ \E j \in DOMAIN replies' : j < i /\ replies'[j] = "701"
      <4>1. Heard701 \/ \E j \in DOMAIN replies : j < i + 1 /\ replies[j] = "701"
        BY <3>1, <3>4 DEF InOrder
      <4>2. ASSUME NEW j \in DOMAIN replies, j < i + 1, replies[j] = "701", j # 1
            PROVE  j - 1 \in DOMAIN replies' /\ j - 1 < i /\ replies'[j - 1] = "701"
        BY <2>2, <2>5, <3>1, <4>2
      <4> QED BY <2>4, <4>1, <4>2
    <3>5. replies'[i] \in EndLine => /\ i = Len(replies') /\ ~Owes
                                     /\ Told701 \/ NeedNotBegin
                                     /\ replies'[i] = "703" => orders # {}
                                     /\ replies'[i] = "704" => "PAUSE" \in orders
      BY <2>2, <3>1 DEF InOrder
    <3> QED BY <2>1, <2>6, <2>7, <3>2, <3>3, <3>4, <3>5 DEF InOrder, NeedNotBegin
  <2> QED BY <2>1, <2>6, <2>7, <2>8, StopStays DEF RepliesInv, Owes
<1> QED BY <1>3, <1>4, <1>5, <1>6, <1>7, <1>8, <1>9, <1>10, <1>11, <1>12 DEF Seen

-----------------------------------------------------------------------------
(* The commands and the phases of a request.                               *)

(* SPEAK stays the last command, and the others those of the message.      *)
LEMMA CommandsStep ==
  ASSUME Typed, CommandsInv, PhaseInv, Seen
  PROVE  CommandsInv' /\ (Waits' => Waits \/ Asks)
<1>1. CASE Asks
  <2>1. /\ session = "none" /\ session' = "asked" /\ replies = <<>> /\ replies' = <<>>
        /\ ~Owes' /\ Lock' = "none"
    BY <1>1 DEF Asks, ServerSpeaks, PhaseInv, Keeps, Owes
  <2>2. PICK c \in Command : c.cmd = "SPEAK" /\ commands' = Append(commands, c)
    BY <1>1 DEF Asks
  <2>3. ~Waits
    BY <2>1 DEF CommandsInv
  <2>4. /\ Len(commands) \in Nat /\ Len(commands') = Len(commands) + 1
        /\ DOMAIN commands = 1 .. Len(commands) /\ DOMAIN commands' = 1 .. Len(commands) + 1
        /\ \A i \in DOMAIN commands : commands'[i] = commands[i]
        /\ commands'[Len(commands) + 1] = c
    BY <2>2, PipeWrite DEF Typed
  <2>5. Waits' /\ \A i \in DOMAIN commands' : commands'[i].cmd = "SPEAK" => i = Len(commands')
    BY <2>2, <2>3, <2>4 DEF Waits
  <2> QED BY <1>1, <2>1, <2>5 DEF CommandsInv
<1>2. CASE Orders
  <2>1. PICK o \in {"STOP", "PAUSE"} : ServerOrders(o)
    BY <1>2 DEF Orders
  <2>2. [cmd |-> o] \in Command
    BY DEF Command
  <2>3. ~Waits
    BY <2>1 DEF ServerOrders, CommandsInv
  <2>4. /\ DOMAIN commands = 1 .. Len(commands) /\ DOMAIN commands' = 1 .. Len(commands) + 1
        /\ Len(commands) \in Nat
        /\ \A i \in DOMAIN commands : commands'[i] = commands[i]
        /\ commands'[Len(commands) + 1].cmd = o
    BY <2>1, <2>2, PipeWrite DEF Typed, ServerOrders
  <2>5. \A i \in DOMAIN commands' : i \in DOMAIN commands \/ i = Len(commands) + 1
    BY <2>4
  <2>6. \A i \in DOMAIN commands' : commands'[i].cmd \in orders'
    BY <2>1, <2>3, <2>4, <2>5 DEF ServerOrders, CommandsInv
  <2>7. ~Waits'
    BY <2>3, <2>4, <2>5 DEF Waits
  <2> QED BY <2>6, <2>7 DEF CommandsInv, Waits
<1>3. CASE Hears
  <2>1. commands' = commands /\ orders' = orders /\ replies # <<>>
    BY <1>3 DEF Hears, ServerHears
  <2> QED BY <2>1 DEF CommandsInv, Waits
<1>4. CASE Works
  <2>1. Unseen /\ Owes' = Owes /\ Lock' = Lock /\ replies' = replies
    BY <1>4 DEF Works, Keeps, Owes
  <2>2. CASE commands' = commands
    BY <2>1, <2>2 DEF CommandsInv, Waits, Unseen
  <2>3. CASE commands # <<>> /\ commands[1].cmd # "SPEAK" /\ commands' = Tail(commands)
    <3>1. /\ \A i \in DOMAIN commands' : i \in Nat /\ i + 1 \in DOMAIN commands /\ commands'[i] = commands[i + 1]
          /\ Len(commands) \in Nat /\ Len(commands') = Len(commands) - 1
          /\ DOMAIN commands = 1 .. Len(commands) /\ DOMAIN commands' = 1 .. Len(commands) - 1
      BY <2>3, PipeRead DEF Typed
    <3>2. \A i \in DOMAIN commands : i = 1 \/ (i - 1 \in DOMAIN commands' /\ commands'[i - 1] = commands[i])
      BY <3>1
    <3>3. Waits' <=> Waits
      <4>1. Waits' => Waits
        BY <3>1 DEF Waits
      <4>2. Waits => Waits'
        BY <2>3, <3>2 DEF Waits
      <4> QED BY <4>1, <4>2
    <3>4. \A i \in DOMAIN commands' : commands'[i].cmd = "SPEAK" => i = Len(commands')
      BY <3>1 DEF CommandsInv
    <3>5. ~Waits' => \A i \in DOMAIN commands' : commands'[i].cmd \in orders'
      BY <2>1, <3>1, <3>3 DEF CommandsInv, Unseen
    <3> QED BY <2>1, <3>3, <3>4, <3>5 DEF CommandsInv, Unseen
  <2> QED BY <1>4, <2>2, <2>3 DEF Works
<1>5. CASE Accepts \/ Refuses \/ Starts
  <2>1. commands # <<>> /\ commands[1].cmd = "SPEAK" /\ commands' = Tail(commands)
    BY <1>5 DEF Accepts, Refuses, Starts, Takes
  <2>2. Len(commands) = 1
    BY <2>1, PipeRead DEF CommandsInv, Typed
  <2>3. DOMAIN commands' = {}
    BY <2>1, <2>2, PipeRead DEF Typed
  <2> QED BY <2>3 DEF CommandsInv, Waits
<1>6. CASE Replies \/ Begins \/ Skips \/ Marks \/ Ends
  <2>1. commands' = commands /\ orders' = orders
    BY <1>6 DEF Replies, Begins, Skips, Marks, Ends, Sends, Unseen
  <2>2. Owes \/ Lock # "none"
    BY <1>6 DEF Replies, Begins, Skips, Marks, Ends, Owes
  <2> QED BY <2>1, <2>2 DEF CommandsInv, Waits
<1>7. CASE Breaks
  BY <1>7 DEF Breaks, CommandsInv, Waits
<1> QED BY <1>1, <1>2, <1>3, <1>4, <1>5, <1>6, <1>7 DEF Seen

(* A request is answered before anything is said of it, and the server     *)
(* holds it as accepted until its end is heard.                            *)
LEMMA PhaseStep ==
  ASSUME Typed, SpeechInv, Seen
  PROVE  PhaseInv'
<1> USE DEF SpeechInv
<1>1. CASE Asks
  <2>1. /\ session' = "asked" /\ replies' = <<>> /\ heard' = <<>> /\ orders' = {}
        /\ ~Owes' /\ Lock' = "none"
    BY <1>1 DEF Asks, ServerSpeaks, PhaseInv, Keeps, Owes
  <2> QED BY <2>1 DEF PhaseInv
<1>2. CASE Orders
  <2>1. session' = "accepted" /\ Lock' = "none"
    BY <1>2 DEF Orders, ServerOrders, PhaseInv, Keeps
  <2> QED BY <2>1 DEF PhaseInv
<1>3. CASE Hears
  <2>1. /\ replies # <<>> /\ 1 \in DOMAIN replies /\ Head(replies) = replies[1] /\ replies[1] \in Line
        /\ replies' = Tail(replies) /\ Lock' = Lock /\ Owes' = Owes
    BY <1>3, PipeRead DEF Hears, ServerHears, Keeps, Typed, Owes
  <2>2. CASE session = "asked"
    <3>1. Lock' = "none"
      BY <2>1, <2>2 DEF PhaseInv
    <3>2. CASE replies[1] = "200"
      <4>1. session' = "accepted"
        BY <1>3, <2>1, <3>2 DEF Hears, ServerHears, Ending
      <4> QED BY <3>1, <4>1 DEF PhaseInv
    <3>3. CASE replies = <<"301">> /\ ~Owes
      <4>1. session' = "none" /\ replies' = <<>>
        BY <1>3, <2>1, <3>3 DEF Hears, ServerHears, Ending
      <4> QED BY <2>1, <3>1, <3>3, <4>1 DEF PhaseInv
    <3> QED BY <2>1, <2>2, <3>2, <3>3 DEF PhaseInv
  <2>3. CASE session = "accepted"
    <3>1. Lock' = "none" /\ InOrder(1)
      BY <2>1, <2>3 DEF PhaseInv, RepliesInv
    <3>2. CASE replies[1] \in EndLine
      <4>1. Len(replies) = 1 /\ ~Owes
        BY <3>1, <3>2 DEF InOrder
      <4>2. session' = "none" /\ replies' = <<>>
        <5>1. session' = "none"
          BY <1>3, <2>1, <3>2 DEF Hears, ServerHears, Ending, EndLine
        <5>2. Len(replies') = 0 /\ replies' \in Seq(Line)
          BY <2>1, <4>1, PipeRead DEF Typed
        <5> QED BY <5>1, <5>2
      <4> QED BY <2>1, <3>1, <4>1, <4>2 DEF PhaseInv
    <3>3. CASE replies[1] \notin EndLine
      <4>1. replies[1] \notin {"200", "301"}
        BY <2>3, <3>1 DEF InOrder
      <4>2. session' = "accepted"
        BY <1>3, <2>1, <2>3, <3>3, <4>1 DEF Hears, ServerHears, Ending, EndLine
      <4> QED BY <3>1, <4>2 DEF PhaseInv
    <3> QED BY <3>2, <3>3
  <2>4. session # "none"
    BY <2>1 DEF PhaseInv
  <2> QED BY <2>2, <2>3, <2>4 DEF Typed
<1>4. CASE Works
  <2>1. UNCHANGED <<session, orders, heard, replies>> /\ Owes' = Owes /\ Lock' = Lock
        /\ Unsaid' = Unsaid /\ Running' = Running
    BY <1>4 DEF Works, Keeps, Owes, Unseen
  <2>2. ~Waits => ~Waits'
    <3>1. session = "none" \/ session = "asked" \/ session = "accepted"
      BY DEF Typed
    <3>2. ~Asks \/ Waits
      BY <1>4, <2>1 DEF Asks, ServerSpeaks
    <3> QED BY <3>2, CommandsStep
  <2> QED BY <2>1, <2>2 DEF PhaseInv
<1>5. CASE Accepts \/ Refuses \/ Starts
  <2>1. commands # <<>> /\ Waits /\ commands[1].cmd = "SPEAK" /\ commands' = Tail(commands)
    BY <1>5, PipeRead DEF Accepts, Refuses, Starts, Takes, Waits, Typed
  <2>2. session' = "asked" /\ replies = <<>> /\ heard' = <<>> /\ orders' \subseteq {"FAILURE"}
    BY <1>5, <2>1 DEF CommandsInv, PhaseInv, Accepts, Refuses, Starts, Takes, Unseen
  <2>3. ~Waits'
    <3>1. Len(commands) = 1
      BY <2>1, PipeRead DEF CommandsInv, Typed
    <3>2. DOMAIN commands' = {}
      BY <2>1, <3>1, PipeRead DEF Typed
    <3> QED BY <3>2 DEF Waits
  <2>4. CASE Accepts
    BY <2>2, <2>3, <2>4 DEF Accepts, PhaseInv
  <2>5. CASE Refuses
    BY <2>2, <2>3, <2>5 DEF Refuses, PhaseInv
  <2>6. CASE Starts
    <3>1. Lock' = "none" /\ replies' \in {<<"200">>, <<"200", "701">>}
      BY <2>2, <2>6 DEF Starts
    <3>2. replies' # <<>> /\ replies'[1] = "200"
      BY <3>1
    <3> QED BY <2>2, <3>1, <3>2 DEF PhaseInv
  <2> QED BY <1>5, <2>4, <2>5, <2>6
<1>6. CASE Replies
  <2>1. session = "asked"
    BY <1>6 DEF Replies, PhaseInv, Typed
  <2>2. /\ replies = <<>> /\ Lock' = "none" /\ Owes' = Owes /\ UNCHANGED <<session, orders, heard>>
        /\ IF Lock = "accepts" THEN replies' = <<"200">> ELSE replies' = <<"301">> /\ ~Owes
    <3>1. Lock \in {"accepts", "refuses"}
      BY <1>6 DEF Replies, Lock
    <3>2. /\ replies = <<>> /\ Lock' = "none" /\ Owes' = Owes /\ UNCHANGED <<session, orders, heard>>
          /\ Lock = "refuses" => ~Owes
      BY <1>6, <3>1 DEF Replies, PhaseInv, Unseen, Owes
    <3>3. replies' = IF Lock = "accepts" THEN <<"200">> ELSE <<"301">>
      BY <1>6, <3>2 DEF Replies
    <3> QED BY <3>1, <3>2, <3>3
  <2>3. replies' # <<>> /\ replies'[1] \in {"200", "301"} /\ (replies'[1] = "200" \/ (replies' = <<"301">> /\ ~Owes'))
    BY <2>2
  <2> QED BY <2>1, <2>2, <2>3 DEF PhaseInv
<1>7. CASE Begins \/ Skips \/ Marks \/ Ends
  <2>1. /\ Owes /\ Lock = "none" /\ Lock' = "none" /\ UNCHANGED <<session, orders, heard>>
        /\ replies' = replies \/ \E x \in Line : replies' = Append(replies, x)
    BY <1>7 DEF Begins, Skips, Marks, Ends, Sends, Unseen, Owes, EndLine, Line
  <2>2. CASE session = "asked"
    <3>1. replies # <<>> /\ replies[1] = "200" /\ 1 \in DOMAIN replies
      BY <2>1, <2>2, PipeRead DEF PhaseInv, Typed
    <3>2. replies' # <<>> /\ replies'[1] = "200"
      BY <2>1, <3>1, PipeWrite DEF Typed
    <3> QED BY <2>1, <2>2, <3>2 DEF PhaseInv
  <2>3. CASE session = "accepted"
    BY <2>1, <2>3 DEF PhaseInv
  <2>4. session # "none"
    BY <2>1 DEF PhaseInv
  <2> QED BY <2>2, <2>3, <2>4 DEF Typed
<1>8. CASE Breaks
  <2>1. /\ Owes /\ Owes' /\ Lock = "none" /\ Lock' = "none"
        /\ UNCHANGED <<session, heard, replies, commands>> /\ orders' = orders \cup {"FAILURE"}
    BY <1>8 DEF Breaks, Owes
  <2> QED BY <2>1 DEF PhaseInv, Waits
<1> QED BY <1>1, <1>2, <1>3, <1>4, <1>5, <1>6, <1>7, <1>8 DEF Seen

-----------------------------------------------------------------------------
(* The invariant and the contract.                                         *)

(* A module that was just started.                                         *)
LEMMA ModuleInit == Init => ModuleInv
<1> SUFFICES ASSUME Init PROVE ModuleInv
  OBVIOUS
<1> USE DEF Init
<1>1. Typed
  BY ModuleAssumption DEF Typed, Text
<1>2. WorkInv
  BY KindOf, <1>1 DEF WorkInv, Quiet, Synch
<1>3. FlagsInv
  BY DEF FlagsInv, Failed
<1>4. ~Owes /\ Lock = "none"
  BY DEF Owes, Unsaid, Running, Lock, Quiet
<1>5. ~Waits /\ DOMAIN commands = {} /\ DOMAIN replies = {} /\ DOMAIN heard = {}
  BY DEF Waits
<1> QED BY <1>1, <1>2, <1>3, <1>4, <1>5 DEF ModuleInv, SpeechInv, CommandsInv, PhaseInv, RepliesInv, Owes

(* Every step of the server, the threads and the child.                    *)
LEMMA ModuleStep ==
  ASSUME ModuleInv, [Next]_vars
  PROVE  ModuleInv'
<1> USE DEF ModuleInv, SpeechInv
<1>1. CASE Next
  <2>1. Seen
    BY <1>1, SeenStep
  <2> QED BY <1>1, <2>1, TypedStep, WorkStep, FlagsStep, CommandsStep, PhaseStep, RepliesStep
<1>2. CASE UNCHANGED vars
  BY <1>2 DEF vars, Typed, WorkInv, FlagsInv, CommandsInv, PhaseInv, RepliesInv, InOrder, Told701, Heard701,
     Owes, Unsaid, Running, Lock, Waits, Failed, NeedNotBegin, Synch
<1> QED BY <1>1, <1>2

(* The invariant of every module.                                          *)
THEOREM ModuleInvariant == Spec => []ModuleInv
<1>1. ModuleInv /\ [Next]_vars => ModuleInv'
  BY ModuleStep
<1> QED BY <1>1, ModuleInit, PTL DEF Spec

(* A step is one of the contract, or the server does not see it.           *)
LEMMA ContractStep ==
  ASSUME ModuleInv, [Next]_vars
  PROVE  [Contract!ContractNext]_<<session, orders, heard>>
<1> USE DEF ModuleInv, SpeechInv
<1>1. CASE ServerSpeaks
  BY <1>1 DEF ServerSpeaks, Contract!ContractNext, Contract!Ask
<1>2. ASSUME NEW o \in {"STOP", "PAUSE"}, ServerOrders(o)
      PROVE  Contract!ContractNext
  BY <1>2 DEF ServerOrders, Contract!ContractNext, Contract!Order
<1>3. CASE ServerHears
  <2>1. /\ replies # <<>> /\ 1 \in DOMAIN replies /\ Head(replies) = replies[1] /\ replies[1] \in Line
        /\ heard' = Append(heard, replies[1]) /\ orders' = orders /\ InOrder(1) /\ session # "none"
    BY <1>3, PipeRead DEF ServerHears, Typed, RepliesInv, PhaseInv
  <2>2. CASE session = "asked"
    <3>1. heard = <<>> /\ replies[1] \in {"200", "301"}
      BY <2>1, <2>2 DEF PhaseInv
    <3>2. heard' = <<replies[1]>>
      BY <2>1, <3>1
    <3>3. session' = IF replies[1] = "200" THEN "accepted" ELSE "none"
      BY <1>3, <2>1, <3>1 DEF ServerHears, Ending
    <3> QED BY <2>1, <2>2, <3>1, <3>2, <3>3 DEF Contract!ContractNext, Contract!Answer
  <2>3. CASE session = "accepted"
    <3>1. replies[1] \notin {"200", "301"}
      BY <2>1, <2>3 DEF InOrder
    <3>2. Contract!Begun <=> Heard701
      BY DEF Contract!Begun, Heard701, Typed
    <3>3. CASE replies[1] = "701"
      <4>1. ~Heard701 /\ session' = session
        BY <1>3, <2>1, <3>3 DEF InOrder, ServerHears, Ending
      <4> QED BY <2>1, <2>3, <3>2, <3>3, <4>1 DEF Contract!ContractNext, Contract!Begin
    <3>4. CASE replies[1] = "700"
      <4>1. Heard701
        BY <2>1, <3>4 DEF InOrder, Typed
      <4>2. session' = session
        BY <1>3, <2>1, <3>4 DEF ServerHears, Ending
      <4> QED BY <2>1, <2>3, <3>2, <3>4, <4>1, <4>2 DEF Contract!ContractNext, Contract!Mark
    <3>5. CASE replies[1] \in EndLine
      <4>1. /\ 1 = Len(replies)
            /\ Told701 \/ NeedNotBegin
            /\ replies[1] = "703" => orders # {}
            /\ replies[1] = "704" => "PAUSE" \in orders
        BY <2>1, <3>5 DEF InOrder
      <4>2. Heard701 \/ "STOP" \in orders \/ "FAILURE" \in orders
        BY <2>1, <3>5, <4>1 DEF Told701, EndLine, NeedNotBegin, Typed
      <4>3. session' = "none"
        BY <1>3, <2>1, <3>5 DEF ServerHears, Ending, EndLine
      <4> QED BY <2>1, <2>3, <3>2, <3>5, <4>1, <4>2, <4>3
              DEF Contract!ContractNext, Contract!End, Contract!Ends, EndLine
    <3> QED BY <2>1, <3>1, <3>3, <3>4, <3>5 DEF Line, EndLine
  <2> QED BY <2>1, <2>2, <2>3 DEF Typed
<1>5. CASE SynthesisFails
  <2>1. Owes
    BY <1>5, FlavourOf DEF SynthesisFails, WorkInv, Synchronous, Synch, Owes, Unsaid, Running
  <2>2. session # "none"
    BY <2>1 DEF PhaseInv
  <2> QED BY <1>5, <2>2 DEF SynthesisFails, Contract!ContractNext, Contract!Fails
<1>4. CASE (MainStep /\ ~SynthesisFails) \/ WorkerStep \/ ChildStep \/ UNCHANGED vars
  <2>1. UNCHANGED <<session, orders, heard>>
    BY <1>4 DEF MainStep, WorkerStep, ChildStep, AsyncSpeak,
       AsyncReply, Handles, SyncSpeak, Looked, SendPart, SendMark, SyncEnd, WorkerWakes, WorkerBegins,
       IconBegins, EndsBeforeFree, Frees, Forks, Feeds, FeedsMore, Reaps, Reports, CiceroLoops,
       CiceroPolls, CiceroStops, CiceroClears, ChildGroups, ChildSpeaks, ChildExits,
       UnchangedByWorker, server, vars
  <2> QED BY <2>1
<1> QED BY <1>1, <1>2, <1>3, <1>4, <1>5 DEF Next

(* Every kind of module, with any number of messages and parts, keeps the  *)
(* contract that the server counts on: one answer, one begin, marks after  *)
(* it, one end, and a message is stopped or paused only when ordered, or   *)
(* reported as stopped when its synthesizer failed.                        *)
THEOREM ContractCorrect == Spec => ContractKept
<1>1. Init => Contract!ContractInit
  BY DEF Init, Contract!ContractInit
<1>2. ModuleInv /\ [Next]_vars => [Contract!ContractNext]_(Contract!contractVars)
  BY ContractStep DEF Contract!contractVars
<1> QED BY <1>1, <1>2, ModuleInvariant, PTL DEF Spec, ContractKept, Contract!ContractSpec
-----------------------------------------------------------------------------
(* What a stop cuts, and what is spoken whole.                             *)

(* The kinds that report index marks. *)
Marking == {"espeak", "ibmtts", "baratinoo", "festival"}

Forking == kind \in {"generic", "dummy"}

(* SPEAK was taken, and the server does not know the end of the message.   *)
Taken ==
  \/ session = "accepted" \/ main = "accepts"
  \/ session = "asked" /\ replies # <<>> /\ replies[1] = "200"

(* One STOP is ordered and handled for a message. *)
OnceInv ==
  /\ \A i \in DOMAIN commands : commands[i].cmd = "STOP" =>
       stopped = "no" /\ \A j \in DOMAIN commands : commands[j].cmd = "STOP" => i = j
  /\ Taken /\ stopped # "no" => "STOP" \in orders

IconFits(k, t) == t.icon => k = "generic" /\ t.parts = 1

(* Sound icons are for generic, whose pause flag tells of an old PAUSE.    *)
TextInv ==
  /\ IconFits(kind, text) /\ (worker = "icon" => text.icon)
  /\ \A i \in DOMAIN commands : commands[i].cmd = "SPEAK" => IconFits(kind, commands[i].text)
  /\ \A i \in DOMAIN commands : commands[i].cmd = "PAUSE" => everPaused
  /\ pause => everPaused

(* A child lives while its worker speaks to it or waits for it, and the    *)
(* module is taken for speaking as long.                                   *)
GroupInv ==
  /\ child \in {"none", "new", "reads", "plays"} \cup Gone
  /\ kind = "cicero" => child = "none"
  /\ Forking =>
       /\ child \in {"new", "reads", "plays"} => worker \in {"feed", "answer", "reap"}
       /\ ~speaking => semaphore = 0 /\ worker \in {"report", "wait"}
       /\ worker = "free" => semaphore = 0
       /\ (child = "reads" => kind = "generic") /\ (child = "plays" => kind = "dummy")

(* After a STOP that was not lost nothing is left that could speak.        *)
CutInv ==
  stopped = "yes" /\ ~text.icon =>
    /\ Synch => shouldStop
    /\ Forking => child \notin {"new", "reads", "plays"} /\ ~Unsaid /\ worker # "fork"
    /\ kind = "cicero" => semaphore = 0 /\ (worker \in {"begin", "loop", "poll"} => stop)

StopInv == OnceInv /\ TextInv /\ GroupInv /\ CutInv

(* The commands that are left of those there were.                         *)
LEMMA CommandsLeft ==
  ASSUME Typed, [Next]_vars, ~ServerSpeaks, \A o \in {"STOP", "PAUSE"} : ~ServerOrders(o)
  PROVE  \A i \in DOMAIN commands' : \E j \in DOMAIN commands : commands'[i] = commands[j]
<1>1. commands' = commands \/ (commands # <<>> /\ commands' = Tail(commands))
  BY DEF Next, MainStep, WorkerStep, ChildStep, ServerHears, AsyncSpeak,
     AsyncReply, Handles, NextIs, SyncSpeak, Looked, SendPart, SendMark, SynthesisFails, SyncEnd, WorkerWakes, WorkerBegins,
     IconBegins, EndsBeforeFree, Frees, Forks, Feeds, FeedsMore, Reaps, Reports, CiceroLoops,
     CiceroPolls, CiceroStops, CiceroClears, ChildGroups, ChildSpeaks, ChildExits,
     UnchangedByWorker, vars
<1>2. CASE commands' = commands
  BY <1>2
<1>3. CASE commands # <<>> /\ commands' = Tail(commands)
  BY <1>3, PipeRead DEF Typed
<1> QED BY <1>1, <1>2, <1>3

(* SPEAK is taken with nothing in the module and nothing else to be read.  *)
LEMMA SpeakTaken ==
  ASSUME Typed, CommandsInv, AsyncSpeak \/ SyncSpeak
  PROVE  /\ 1 \in DOMAIN commands /\ commands[1] = Head(commands) /\ commands[1].cmd = "SPEAK"
         /\ ~Owes /\ session = "asked" /\ replies = <<>> /\ session' = session
         /\ DOMAIN commands' = {}
<1>1. commands # <<>> /\ Head(commands).cmd = "SPEAK" /\ commands' = Tail(commands) /\ session' = session
  BY DEF AsyncSpeak, SyncSpeak, NextIs, server
<1>2. 1 \in DOMAIN commands /\ commands[1] = Head(commands) /\ Waits
  BY <1>1, PipeRead DEF Typed, Waits
<1>3. Len(commands) = 1
  BY <1>1, <1>2 DEF CommandsInv
<1>4. DOMAIN commands' = {}
  BY <1>1, <1>3, PipeRead DEF Typed
<1> QED BY <1>1, <1>2, <1>4 DEF CommandsInv

(* The commands at work: at most one STOP for a message.                   *)
LEMMA OnceStep ==
  ASSUME Typed, WorkInv, SpeechInv, OnceInv, [Next]_vars
  PROVE  OnceInv'
<1> USE DEF SpeechInv
<1>1. CASE ServerSpeaks
  <2>1. PICK t \in [parts : 0 .. MaxParts, icon : BOOLEAN] :
          commands' = Append(commands, [cmd |-> "SPEAK", text |-> t])
    BY <1>1 DEF ServerSpeaks
  <2>2. [cmd |-> "SPEAK", text |-> t] \in Command
    BY ModuleAssumption DEF Command, Text
  <2>3. \A i \in DOMAIN commands' : commands'[i].cmd = "STOP" => i \in DOMAIN commands /\ commands'[i] = commands[i]
    BY <2>1, <2>2, PipeWrite DEF Typed
  <2>4. ~Taken' /\ stopped' = stopped
    BY <1>1 DEF ServerSpeaks, PhaseInv, Taken, Lock, progress
  <2> QED BY <2>3, <2>4 DEF OnceInv
<1>2. ASSUME NEW o \in {"STOP", "PAUSE"}, ServerOrders(o) PROVE OnceInv'
  <2>1. [cmd |-> o] \in Command /\ [cmd |-> o].cmd = o
    BY DEF Command
  <2>2. /\ DOMAIN commands = 1 .. Len(commands) /\ DOMAIN commands' = 1 .. Len(commands) + 1
        /\ Len(commands) \in Nat
        /\ \A i \in DOMAIN commands : commands'[i] = commands[i]
        /\ commands'[Len(commands) + 1].cmd = o
    BY <1>2, <2>1, PipeWrite DEF Typed, ServerOrders
  <2>3. ~Waits /\ session = "accepted" /\ Taken /\ Taken' /\ stopped' = stopped /\ o \notin orders
        /\ orders' = orders \cup {o}
    BY <1>2 DEF ServerOrders, CommandsInv, Taken, progress
  <2>4. o = "STOP" => stopped = "no" /\ \A i \in DOMAIN commands : commands[i].cmd # "STOP"
    BY <2>3 DEF OnceInv, CommandsInv
  <2>5. \A i \in DOMAIN commands' : i \in DOMAIN commands \/ i = Len(commands) + 1
    BY <2>2
  <2>6. \A i \in DOMAIN commands' : commands'[i].cmd = "STOP" =>
          stopped' = "no" /\ \A j \in DOMAIN commands' : commands'[j].cmd = "STOP" => i = j
    <3>1. CASE o = "STOP"
      BY <2>2, <2>3, <2>4, <2>5, <3>1
    <3>2. CASE o # "STOP"
      BY <2>2, <2>3, <2>5, <3>2 DEF OnceInv
    <3> QED BY <3>1, <3>2
  <2> QED BY <2>3, <2>6 DEF OnceInv
<1>3. CASE ServerHears
  <2>1. /\ UNCHANGED <<commands, stopped, orders, main>> /\ replies # <<>>
        /\ Head(replies) = replies[1]
    BY <1>3, PipeRead DEF ServerHears, progress, Typed
  <2>2. Taken' => Taken
    BY <1>3, <2>1 DEF ServerHears, Taken, PhaseInv, Ending, Typed
  <2> QED BY <2>1, <2>2 DEF OnceInv
<1>4. CASE AsyncSpeak \/ SyncSpeak
  <2>1. DOMAIN commands' = {} /\ session' = "asked" /\ replies = <<>>
    BY <1>4, SpeakTaken
  <2>2. stopped' = "no" \/ ~Taken'
    BY <1>4, <2>1 DEF AsyncSpeak, SyncSpeak, TakesText, Taken
  <2> QED BY <2>1, <2>2 DEF OnceInv
<1>5. CASE AsyncReply
  <2>1. UNCHANGED <<commands, stopped, orders, session>> /\ Lock = main /\ Lock # "none"
    BY <1>5 DEF AsyncReply, server, progress, Lock
  <2>2. replies = <<>> /\ session = "asked"
    BY <1>5, <2>1 DEF PhaseInv, AsyncReply, Typed
  <2>3. replies' = IF main = "accepts" THEN <<"200">> ELSE <<"301">>
    BY <1>5, <2>2 DEF AsyncReply
  <2>4. Taken' => Taken
    BY <1>5, <2>1, <2>2, <2>3 DEF AsyncReply, Taken
  <2> QED BY <2>1, <2>4 DEF OnceInv
<1>6. CASE Handles
  <2>1. /\ UNCHANGED <<orders, session, main, replies>> /\ Taken' = Taken
        /\ commands # <<>> /\ commands[1] = Head(commands) /\ 1 \in DOMAIN commands
        /\ commands' = Tail(commands)
    BY <1>6, PipeRead DEF Handles, server, Taken, Typed
  <2>2. /\ \A i \in DOMAIN commands' : i \in Nat /\ i + 1 \in DOMAIN commands /\ commands'[i] = commands[i + 1]
        /\ DOMAIN commands = 1 .. Len(commands) /\ DOMAIN commands' = 1 .. Len(commands) - 1
        /\ Len(commands) \in Nat
    BY <2>1, PipeRead DEF Typed
  <2>3. CASE NextIs("STOP") /\ CmdStop
    <3>1. \A i \in DOMAIN commands' : commands'[i].cmd # "STOP"
      BY <2>1, <2>2, <2>3 DEF OnceInv, NextIs
    <3>2. Taken => "STOP" \in orders
      <4>1. Taken => ~Waits
        BY DEF Taken, CommandsInv, Lock
      <4> QED BY <2>1, <2>3, <4>1 DEF CommandsInv, NextIs
    <3> QED BY <2>1, <3>1, <3>2 DEF OnceInv
  <2>4. CASE NextIs("PAUSE") /\ CmdPause
    <3>1. stopped' = stopped
      BY <2>4 DEF CmdPause
    <3>2. \A i \in DOMAIN commands' : commands'[i].cmd = "STOP" =>
            stopped' = "no" /\ \A j \in DOMAIN commands' : commands'[j].cmd = "STOP" => i = j
      <4>1. SUFFICES ASSUME NEW i \in DOMAIN commands', commands'[i].cmd = "STOP"
                     PROVE  stopped = "no" /\ \A j \in DOMAIN commands' : commands'[j].cmd = "STOP" => i = j
        BY <3>1
      <4>2. stopped = "no" /\ \A j \in DOMAIN commands : commands[j].cmd = "STOP" => i + 1 = j
        BY <2>2, <4>1 DEF OnceInv
      <4>3. ASSUME NEW j \in DOMAIN commands', commands'[j].cmd = "STOP" PROVE i = j
        <5>1. i + 1 = j + 1
          BY <2>2, <4>2, <4>3
        <5> QED BY <2>2, <5>1
      <4> QED BY <4>2, <4>3
    <3> QED BY <2>1, <3>1, <3>2 DEF OnceInv
  <2> QED BY <1>6, <2>3, <2>4 DEF Handles
<1>7. ASSUME \/ Looked \/ SendPart \/ SendMark \/ SynthesisFails \/ SyncEnd \/ WorkerStep
             \/ ChildStep \/ UNCHANGED vars
      PROVE  OnceInv'
  <2>1. UNCHANGED <<commands, stopped, session>> /\ orders \subseteq orders'
    BY <1>7 DEF WorkerStep, ChildStep, Looked, SendPart, SendMark, SynthesisFails, SyncEnd, WorkerWakes, WorkerBegins,
       IconBegins, EndsBeforeFree, Frees, Forks, Feeds, FeedsMore, Reaps, Reports, CiceroLoops,
       CiceroPolls, CiceroStops, CiceroClears, ChildGroups, ChildSpeaks, ChildExits,
       UnchangedByWorker, vars, server, progress
  <2>2. main' = main \/ main' \in {"step", "look", "fails", "idle"}
    BY <1>7 DEF WorkerStep, ChildStep, Looked, SendPart, SendMark, SynthesisFails, SyncEnd, WorkerWakes, WorkerBegins,
       IconBegins, EndsBeforeFree, Frees, Forks, Feeds, FeedsMore, Reaps, Reports, CiceroLoops,
       CiceroPolls, CiceroStops, CiceroClears, ChildGroups, ChildSpeaks, ChildExits,
       UnchangedByWorker, vars
  <2>3. replies' = replies \/ \E x \in {"700", "701"} \cup EndLine : replies' = Append(replies, x)
    BY <1>7, FlavourOf DEF WorkerStep, ChildStep, Looked, SendPart, SendMark, SynthesisFails, SyncEnd, WorkerWakes, WorkerBegins,
       IconBegins, EndsBeforeFree, Frees, Forks, Feeds, FeedsMore, Reaps, Reports, CiceroLoops,
       CiceroPolls, CiceroStops, CiceroClears, ChildGroups, ChildSpeaks, ChildExits,
       UnchangedByWorker, vars, Says, Unheard, WorkInv, EndLine
  <2>4. replies' # <<>> /\ replies'[1] = "200" => replies # <<>> /\ replies[1] = "200"
    <3>1. ASSUME NEW x \in {"700", "701"} \cup EndLine, replies' = Append(replies, x), replies'[1] = "200"
          PROVE  replies # <<>> /\ replies[1] = "200"
      <4>1. x \in Line /\ x # "200"
        BY DEF EndLine, Line
      <4>2. replies'[Len(replies) + 1] = x /\ \A i \in DOMAIN replies : replies'[i] = replies[i]
        BY <3>1, <4>1, PipeWrite DEF Typed
      <4>3. Len(replies) # 0 /\ Len(replies) \in Nat
        BY <3>1, <4>1, <4>2 DEF Typed
      <4>4. replies # <<>> /\ 1 \in DOMAIN replies
        BY <4>3 DEF Typed
      <4> QED BY <3>1, <4>2, <4>4
    <3> QED BY <2>3, <3>1
  <2>5. Taken' => Taken
    BY <2>1, <2>2, <2>4 DEF Taken
  <2> QED BY <2>1, <2>5 DEF OnceInv
<1> QED BY <1>1, <1>2, <1>3, <1>4, <1>5, <1>6, <1>7 DEF Next, MainStep

(* Icons stay with generic, and a text stays while its icon is played.     *)
LEMMA TextStep ==
  ASSUME Typed, WorkInv, SpeechInv, TextInv, [Next]_vars
  PROVE  TextInv'
<1> USE KindStays DEF SpeechInv
<1>0. everPaused => everPaused'
  OBVIOUS
<1>1. CASE ServerSpeaks
  <2>1. PICK t \in [parts : 0 .. MaxParts, icon : BOOLEAN] :
          (t.icon => kind = "generic" /\ t.parts = 1) /\ commands' = Append(commands, [cmd |-> "SPEAK", text |-> t])
    BY <1>1 DEF ServerSpeaks
  <2> DEFINE c == [cmd |-> "SPEAK", text |-> t]
  <2>2. c \in Command /\ IconFits(kind, c.text)
    BY <2>1, ModuleAssumption DEF Command, Text, IconFits
  <2>3. \A i \in DOMAIN commands' : commands'[i] = c \/ (i \in DOMAIN commands /\ commands'[i] = commands[i])
    <3> HIDE DEF c
    <3> QED BY <2>1, <2>2, PipeWrite DEF Typed, c
  <2>4. UNCHANGED <<text, worker, pause>>
    BY <1>1 DEF ServerSpeaks, progress, thread, flags
  <2>5. c.cmd = "SPEAK"
    OBVIOUS
  <2> HIDE DEF c
  <2> QED BY <1>0, <2>2, <2>3, <2>4, <2>5 DEF TextInv
<1>2. ASSUME NEW o \in {"STOP", "PAUSE"}, ServerOrders(o) PROVE TextInv'
  <2>1. [cmd |-> o] \in Command /\ [cmd |-> o].cmd = o
    BY DEF Command
  <2>2. \A i \in DOMAIN commands' : commands'[i].cmd = o \/ (i \in DOMAIN commands /\ commands'[i] = commands[i])
    BY <1>2, <2>1, PipeWrite DEF Typed, ServerOrders
  <2>3. UNCHANGED <<text, worker, pause>> /\ (o = "PAUSE" => everPaused')
    BY <1>2 DEF ServerOrders, progress, thread, flags
  <2> QED BY <1>0, <2>2, <2>3 DEF TextInv
<1>3. ASSUME ~ServerSpeaks, \A o \in {"STOP", "PAUSE"} : ~ServerOrders(o)
      PROVE  TextInv'
  <2>1. \A i \in DOMAIN commands' : \E j \in DOMAIN commands : commands'[i] = commands[j]
    BY <1>3, CommandsLeft
  <2>2. /\ \A i \in DOMAIN commands' : commands'[i].cmd = "SPEAK" => IconFits(kind, commands'[i].text)
        /\ \A i \in DOMAIN commands' : commands'[i].cmd = "PAUSE" => everPaused'
    BY <1>0, <2>1 DEF TextInv
  <2>3. CASE AsyncSpeak \/ SyncSpeak
    <3>1. /\ 1 \in DOMAIN commands /\ commands[1] = Head(commands) /\ commands[1].cmd = "SPEAK" /\ ~Owes
      BY <2>3, SpeakTaken
    <3>2. IconFits(kind, Head(commands).text)
      BY <3>1 DEF TextInv
    <3>3. text' = text \/ text' = Head(commands).text
      BY <2>3 DEF AsyncSpeak, SyncSpeak, TakesText, progress
    <3>4. worker # "icon" /\ worker' = worker /\ (pause' => pause)
      BY <2>3, <3>1 DEF AsyncSpeak, SyncSpeak, Resets, Owes, Unsaid, WorkInv, flags, thread
    <3> QED BY <1>0, <2>2, <3>2, <3>3, <3>4 DEF TextInv
  <2>4. CASE Handles
    <3>1. UNCHANGED <<text, worker>>
      BY <2>4 DEF Handles
    <3>2. pause' => pause \/ NextIs("PAUSE")
      BY <2>4 DEF Handles, CmdStop, CmdPause
    <3>3. NextIs("PAUSE") => everPaused
      BY PipeRead DEF NextIs, TextInv, Typed
    <3> QED BY <1>0, <2>2, <3>1, <3>2, <3>3 DEF TextInv
  <2>5. ASSUME ~AsyncSpeak, ~SyncSpeak, ~Handles PROVE TextInv'
    <3>1. text' = text /\ (pause' => pause) /\ (worker' = "icon" => text.icon)
      BY <1>3, <2>5 DEF TextInv, Next, MainStep, WorkerStep, ChildStep, ServerHears,
       AsyncReply, Looked, SendPart, SendMark, SynthesisFails, SyncEnd, WorkerWakes, WorkerBegins,
       IconBegins, EndsBeforeFree, Frees, Forks, Feeds, FeedsMore, Reaps, Reports, CiceroLoops,
       CiceroPolls, CiceroStops, CiceroClears, ChildGroups, ChildSpeaks, ChildExits, Worker,
       UnchangedByWorker, vars, progress, flags, thread
    <3> QED BY <1>0, <2>2, <3>1 DEF TextInv
  <2> QED BY <2>3, <2>4, <2>5
<1> QED BY <1>1, <1>2, <1>3

(* A child has its worker, and the module is not free before it is gone.   *)
LEMMA GroupStep ==
  ASSUME Typed, WorkInv, CommandsInv, GroupInv, [Next]_vars
  PROVE  GroupInv'
<1> USE KindStays DEF Forking, Gone
<1>1. CASE AsyncSpeak
  <2>1. ~Owes /\ ~Synch
    BY <1>1, SpeakTaken, KindOf DEF AsyncSpeak
  <2>2. UNCHANGED <<worker, child>> /\ worker \in Quiet
    BY <1>1, <2>1 DEF AsyncSpeak, Owes, Unsaid, Running
  <2>3. speaking => UNCHANGED <<speaking, semaphore>>
    BY <1>1 DEF AsyncSpeak, flags
  <2>4. ~speaking => speaking'
    BY <1>1 DEF AsyncSpeak
  <2> QED BY <2>2, <2>3, <2>4 DEF GroupInv, Quiet
<1>2. CASE Handles
  <2>1. /\ UNCHANGED <<worker, speaking, semaphore>>
        /\ child' = child \/ (Forking /\ child' = "killed")
    BY <1>2 DEF Handles, CmdStop, CmdPause, Killed
  <2> QED BY <2>1 DEF GroupInv
<1>3. CASE SyncSpeak \/ Looked \/ SendPart \/ SendMark \/ SynthesisFails \/ SyncEnd
  <2>1. ~Forking /\ UNCHANGED child
    BY <1>3, KindOf DEF SyncSpeak, Looked, SendPart, SendMark, SynthesisFails, SyncEnd, thread, WorkInv, Synch
  <2> QED BY <2>1 DEF GroupInv
<1>4. CASE WorkerStep \/ ChildStep
  <2>1. child' \in {"none", "new", "reads", "plays"} \cup Gone
    BY <1>4 DEF GroupInv, WorkerStep, ChildStep, WorkerWakes, WorkerBegins, IconBegins, EndsBeforeFree,
       Frees, Forks, Feeds, FeedsMore, Reaps, Reports, CiceroLoops, CiceroPolls, CiceroStops, CiceroClears,
       ChildGroups, ChildSpeaks, ChildExits
  <2>5. kind = "cicero" => child' = "none"
    BY <1>4 DEF GroupInv, WorkInv, WorkerStep, ChildStep, WorkerWakes, WorkerBegins, IconBegins, EndsBeforeFree,
       Frees, Forks, Feeds, FeedsMore, Reaps, Reports, CiceroLoops, CiceroPolls, CiceroStops, CiceroClears, Worker,
       ChildGroups, ChildSpeaks, ChildExits
  <2>2. ASSUME Forking, child' \in {"new", "reads", "plays"}
        PROVE  worker' \in {"feed", "answer", "reap"}
    BY <1>4, <2>2 DEF GroupInv, WorkInv, WorkerStep, ChildStep, WorkerWakes, WorkerBegins, IconBegins, EndsBeforeFree,
       Frees, Forks, Feeds, FeedsMore, Reaps, Reports, CiceroLoops, CiceroPolls, CiceroStops, CiceroClears, Worker,
       ChildGroups, ChildSpeaks, ChildExits
  <2>3. ASSUME Forking, ~speaking'
        PROVE  semaphore' = 0 /\ worker' \in {"report", "wait"}
    <3>1. CASE WorkerWakes
      <4>1. semaphore > 0 /\ speaking' = (speaking \/ kind = "cicero")
        BY <3>1 DEF WorkerWakes
      <4>2. ~speaking
        BY <2>3, <4>1, Zenon
      <4> QED BY <2>3, <4>1, <4>2 DEF GroupInv
    <3>2. CASE Frees
      BY <2>3, <3>2 DEF GroupInv, Frees, Worker
    <3>3. CASE Reaps
      BY <2>3, <3>3 DEF WorkInv, Quiet, Reaps, Worker
    <3>4. ASSUME ~WorkerWakes, ~Frees, ~Reaps
          PROVE  speaking' = speaking /\ semaphore' = semaphore /\ (worker = "report" => worker' \in {"report", "wait"})
                 /\ (worker = "wait" => worker' = worker)
      BY <1>4, <2>3, <3>4 DEF WorkInv, WorkerStep, ChildStep, WorkerBegins, IconBegins, EndsBeforeFree,
       Forks, Feeds, FeedsMore, Reports, CiceroLoops, CiceroPolls, CiceroStops, CiceroClears, Worker,
       ChildGroups, ChildSpeaks, ChildExits, flags
    <3> QED BY <2>3, <3>1, <3>2, <3>3, <3>4 DEF GroupInv
  <2>4. ASSUME Forking, worker' = "free" PROVE semaphore' = 0
    BY <1>4, <2>4 DEF GroupInv, WorkInv, Quiet, WorkerStep, ChildStep, WorkerWakes, WorkerBegins, IconBegins, EndsBeforeFree,
       Frees, Forks, Feeds, FeedsMore, Reaps, Reports, CiceroLoops, CiceroPolls, CiceroStops, CiceroClears, Worker,
       ChildGroups, ChildSpeaks, ChildExits
  <2>6. ASSUME Forking
        PROVE  (child' = "reads" => kind = "generic") /\ (child' = "plays" => kind = "dummy")
    BY <1>4, <2>6 DEF GroupInv, WorkerStep, ChildStep, WorkerWakes, WorkerBegins, IconBegins, EndsBeforeFree,
       Frees, Forks, Feeds, FeedsMore, Reaps, Reports, CiceroLoops, CiceroPolls, CiceroStops, CiceroClears, Worker,
       ChildGroups, ChildSpeaks, ChildExits
  <2> QED BY <2>1, <2>2, <2>3, <2>4, <2>5, <2>6 DEF GroupInv
<1>5. ASSUME \/ ServerSpeaks \/ ServerHears \/ AsyncReply \/ UNCHANGED vars
             \/ \E o \in {"STOP", "PAUSE"} : ServerOrders(o)
      PROVE  GroupInv'
  <2>1. UNCHANGED <<worker, child, speaking, semaphore>>
    BY <1>5 DEF ServerSpeaks, ServerHears, AsyncReply, ServerOrders, vars, thread, flags
  <2> QED BY <2>1 DEF GroupInv
<1> QED BY <1>1, <1>2, <1>3, <1>4, <1>5 DEF Next, MainStep

(* A STOP that is not lost leaves nothing to speak, and nothing revives it *)
(* before the next message.                                                *)
LEMMA CutStep ==
  ASSUME Typed, WorkInv, SpeechInv, StopInv, [Next]_vars
  PROVE  CutInv'
<1> USE KindStays DEF StopInv, SpeechInv
<1>1. CASE AsyncSpeak
  <2>1. ~Owes /\ ~Synch
    BY <1>1, SpeakTaken, KindOf DEF AsyncSpeak
  <2>2. CASE speaking
    <3>1. UNCHANGED <<stopped, text, child, worker, semaphore, stop>>
      BY <1>1, <2>2 DEF AsyncSpeak, progress, flags
    <3> QED BY <2>1, <3>1 DEF CutInv, Forking, Unsaid
  <2>3. CASE ~speaking
    BY <1>1, <2>3 DEF AsyncSpeak, TakesText, CutInv
  <2> QED BY <2>2, <2>3
<1>2. CASE SyncSpeak
  BY <1>2 DEF SyncSpeak, TakesText, CutInv
<1>3. CASE Handles
  <2>1. UNCHANGED <<text, worker, semaphore, speaking, main>> /\ child' \in {child, "killed"} /\ shouldStop'
    BY <1>3 DEF Handles, CmdStop, CmdPause, Killed
  <2>2. Unsaid' = Unsaid
    BY <2>1 DEF Unsaid
  <2>3. CASE NextIs("PAUSE") /\ CmdPause
    <3>1. stopped' = stopped /\ child' = child /\ (stop => stop')
      BY <2>3 DEF CmdPause
    <3> QED BY <2>1, <2>2, <3>1 DEF CutInv, Forking
  <2>4. CASE NextIs("STOP") /\ CmdStop
    <3>1. stopped = "no"
      BY <2>4, PipeRead DEF NextIs, OnceInv, Typed
    <3>2. SUFFICES ASSUME stopped' = "yes" PROVE CutInv'
      BY DEF CutInv
    <3>3. ~StopLost
      BY <2>4, <3>1, <3>2 DEF CmdStop
    <3>4. ASSUME Forking
          PROVE  child' \notin {"new", "reads", "plays"} /\ ~Unsaid /\ worker # "fork"
      <4>1. ~Synch
        BY <3>4, KindOf DEF Forking
      <4>2. CASE speaking
        <5>1. Grouped(child)
          BY <3>3, <3>4, <4>2 DEF StopLost, Forking
        <5>2. child' = "killed"
          BY <2>4, <3>4, <4>2, <5>1 DEF CmdStop, Killed, Forking
        <5>3. worker \in {"feed", "answer", "reap"}
          BY <3>4, <5>1 DEF GroupInv, Grouped
        <5> QED BY <4>1, <5>2, <5>3 DEF Unsaid, WorkInv, Quiet
      <4>3. CASE ~speaking
        <5>1. semaphore = 0 /\ worker \in {"report", "wait"}
          BY <3>4, <4>3 DEF GroupInv
        <5>2. child \notin {"new", "reads", "plays"}
          BY <3>4, <5>1 DEF GroupInv
        <5> QED BY <2>1, <4>1, <5>1, <5>2 DEF Unsaid
      <4> QED BY <4>2, <4>3
    <3>5. kind = "cicero" => semaphore = 0 /\ stop'
      <4>1. kind = "cicero" => Flavour.stops
        BY DEF Flavour, Cicero
      <4>2. kind = "cicero" => worker \notin Quiet
        BY <3>3 DEF StopLost, Quiet
      <4> QED BY <2>4, <4>1, <4>2 DEF CmdStop, WorkInv
    <3> QED BY <2>1, <2>2, <3>4, <3>5 DEF CutInv, Forking
  <2> QED BY <1>3, <2>3, <2>4 DEF Handles
<1>4. CASE Looked \/ SendPart \/ SendMark \/ SynthesisFails \/ SyncEnd
  <2>1. Synch /\ UNCHANGED <<stopped, shouldStop, text>>
    BY <1>4 DEF Synch, Synchronous, Looked, SendPart, SendMark, SynthesisFails, SyncEnd, WorkInv, progress
  <2>2. ~Forking /\ kind # "cicero"
    BY <2>1, KindOf DEF Forking
  <2> QED BY <2>1, <2>2 DEF CutInv, Forking
<1>5. CASE WorkerStep \/ ChildStep
  <2>1. ~Synch /\ UNCHANGED <<stopped, text>>
    BY <1>5, WorkerThreaded DEF WorkerStep, ChildStep, WorkerWakes, WorkerBegins, IconBegins, EndsBeforeFree,
       Frees, Forks, Feeds, FeedsMore, Reaps, Reports, CiceroLoops, CiceroPolls, CiceroStops, CiceroClears,
       ChildGroups, ChildSpeaks, ChildExits, UnchangedByWorker
  <2>2. SUFFICES ASSUME stopped = "yes", ~text.icon PROVE CutInv'
    BY <2>1 DEF CutInv
  <2>3. ASSUME Forking
        PROVE  child' \notin {"new", "reads", "plays"} /\ ~Unsaid' /\ worker' # "fork"
    <3>1. child \notin {"new", "reads", "plays"} /\ semaphore = 0 /\ worker \notin {"icon", "begin", "fork"}
      BY <2>1, <2>2, <2>3 DEF CutInv, Unsaid, WorkInv
    <3>2. child' \notin {"new", "reads", "plays"} /\ semaphore' = 0 /\ worker' \notin {"icon", "begin", "fork"}
      BY <1>5, <3>1 DEF WorkerStep, ChildStep, WorkerWakes, WorkerBegins, IconBegins, EndsBeforeFree,
       Frees, Forks, Feeds, FeedsMore, Reaps, Reports, CiceroLoops, CiceroPolls, CiceroStops, CiceroClears,
       ChildGroups, ChildSpeaks, ChildExits, Worker
    <3> QED BY <2>1, <3>2 DEF Unsaid
  <2>4. ASSUME kind = "cicero"
        PROVE  semaphore' = 0 /\ (worker' \in {"begin", "loop", "poll"} => stop')
    <3>1. semaphore = 0 /\ (worker \in {"begin", "loop", "poll"} => stop)
      BY <2>2, <2>4 DEF CutInv
    <3> QED BY <1>5, <3>1 DEF WorkerStep, ChildStep, WorkerWakes, WorkerBegins, IconBegins, EndsBeforeFree,
       Frees, Forks, Feeds, FeedsMore, Reaps, Reports, CiceroLoops, CiceroPolls, CiceroStops, CiceroClears,
       ChildGroups, ChildSpeaks, ChildExits, Worker, flags
  <2> QED BY <2>1, <2>3, <2>4 DEF CutInv, Forking
<1>6. ASSUME \/ ServerSpeaks \/ ServerHears \/ AsyncReply \/ UNCHANGED vars
             \/ \E o \in {"STOP", "PAUSE"} : ServerOrders(o)
      PROVE  CutInv'
  <2>1. UNCHANGED <<stopped, text, worker, child, semaphore, stop, shouldStop>> /\ (Synch => main' = main)
    BY <1>6 DEF ServerSpeaks, ServerHears, AsyncReply, ServerOrders, vars, thread, flags, progress, WorkInv
  <2>2. Synch \/ Unsaid' = Unsaid
    BY <2>1 DEF Unsaid
  <2>3. ~(Synch /\ Forking)
    BY KindOf DEF Forking
  <2> QED BY <2>1, <2>2, <2>3 DEF CutInv, Forking
<1> QED BY <1>1, <1>2, <1>3, <1>4, <1>5, <1>6 DEF Next, MainStep

(* No STOP was given to a module that was just started.                    *)
LEMMA StopInit == Init => StopInv
<1> SUFFICES ASSUME Init PROVE StopInv
  OBVIOUS
<1> QED BY DEF Init, StopInv, OnceInv, TextInv, IconFits, GroupInv, Gone, CutInv, Taken

(* The four parts together.                                                *)
LEMMA StopStep ==
  ASSUME ModuleInv, StopInv, [Next]_vars
  PROVE  StopInv'
BY OnceStep, TextStep, GroupStep, CutStep DEF ModuleInv, SpeechInv, StopInv

(* Nothing that could be spoken is left when the STOP was handled.         *)
LEMMA CutsStep ==
  ASSUME ModuleInv, StopInv, Next, stopped = "yes", stopped' = "yes", ~text.icon
  PROVE  said' = said
<1> USE DEF ModuleInv, StopInv
<1>1. CASE AsyncSpeak \/ SyncSpeak
  BY <1>1 DEF AsyncSpeak, SyncSpeak, TakesText, progress
<1>2. CASE SendPart
  <2>1. Synch
    BY <1>2 DEF SendPart, WorkInv
  <2> QED BY <1>2, <2>1 DEF SendPart, CutInv
<1>3. CASE IconBegins
  BY <1>3 DEF IconBegins, Worker, TextInv
<1>4. CASE ChildSpeaks \/ ChildExits
  <2>1. ~Synch /\ kind # "cicero"
    <3>1. ~Synch /\ child \in {"reads", "plays"}
      BY <1>4, WorkerThreaded DEF ChildStep, ChildSpeaks, ChildExits
    <3> QED BY <3>1 DEF GroupInv
  <2>2. Forking
    BY <2>1, KindOf DEF Forking
  <2> QED BY <1>4, <2>2 DEF ChildSpeaks, ChildExits, CutInv
<1>5. CASE CiceroPolls
  <2>1. kind = "cicero" /\ worker = "poll"
    BY <1>5 DEF CiceroPolls, Worker, WorkInv
  <2> QED BY <1>5, <2>1 DEF CiceroPolls, CutInv
<1>6. ASSUME ~AsyncSpeak, ~SyncSpeak, ~SendPart, ~IconBegins, ~ChildSpeaks, ~ChildExits, ~CiceroPolls
      PROVE  said' = said
  BY <1>6 DEF Next, MainStep, WorkerStep, ChildStep, ServerSpeaks, ServerOrders, ServerHears,
     AsyncReply, Handles, Looked, SendMark, SynthesisFails, SyncEnd, WorkerWakes, WorkerBegins,
     EndsBeforeFree, Frees, Forks, Feeds, FeedsMore, Reaps, Reports, CiceroLoops,
     CiceroStops, CiceroClears, ChildGroups, UnchangedByWorker, progress
<1> QED BY <1>1, <1>2, <1>3, <1>4, <1>5, <1>6

(* Once a module has handled a STOP, nothing more of the message is        *)
(* spoken, wherever its threads and its child were, unless the STOP was    *)
(* lost or the message is a sound icon.                                    *)
THEOREM StopCutsCorrect == Spec => StopCuts
<1>1. Spec => [](ModuleInv /\ StopInv)
  <2>1. ModuleInv /\ StopInv /\ [Next]_vars => ModuleInv' /\ StopInv'
    BY ModuleStep, StopStep
  <2> QED BY <2>1, ModuleInit, StopInit, PTL DEF Spec
<1>2. ModuleInv /\ StopInv /\ [Next]_vars
        => [ stopped = "yes" /\ stopped' = "yes" /\ ~text.icon => said' = said ]_vars
  BY CutsStep
<1> QED BY <1>1, <1>2, PTL DEF Spec, StopCuts

-----------------------------------------------------------------------------
(* A message that nobody stopped or paused.                                *)
Whole == orders = {} /\ ~(kind = "generic" /\ everPaused)

(* It is the whole of what was sent, given to the child, or spoken, at     *)
(* every place where the main thread or the worker can be.                 *)
SyncWhole ==
  Synch /\ main # "idle" =>
    /\ ~shouldStop /\ pos <= 2 * text.parts
    /\ pos = 2 * said \/ (kind \in Marking /\ pos + 1 = 2 * said)
WorkerWhole ==
  /\ ~Synch /\ Unsaid => said = 0
  /\ worker = "begin" => given = 0
  /\ worker = "fork" => given = 0 /\ child = "none"
  /\ worker = "begin" => child = "none"
  /\ worker = "ended" => said = text.parts
  /\ kind = "generic" /\ worker \in {"feed", "answer"} => given <= text.parts /\ child # "exited"
  /\ kind = "generic" /\ worker \in {"reap", "report"} => given = text.parts /\ (child = "exited" => said = given)
  /\ kind = "dummy" /\ worker \in {"reap", "report"} /\ child = "exited" => said = text.parts
  /\ worker = "report" => child \in Gone
  /\ worker = "loop" => given = said /\ given <= text.parts
  /\ worker = "poll" => given = said + 1 /\ given <= text.parts
EndWhole == \A i \in DOMAIN replies : replies[i] = "702" => said = text.parts
WholeInv == Whole => SyncWhole /\ WorkerWhole /\ EndWhole

(* A plain end is only sent, and nothing is spoken after it.               *)
LEMMA EndStep ==
  ASSUME Typed, EndWhole, RepliesInv,
         replies' = replies \/ \E x \in Line : /\ replies' = Append(replies, x)
                                               /\ x = "702" => said' = text'.parts,
         Owes \/ (said' = said /\ text' = text)
  PROVE  EndWhole'
<1>1. \A i \in DOMAIN replies : replies[i] = "702" => said' = text'.parts
  BY DEF EndWhole, RepliesInv, InOrder, EndLine
<1>2. ASSUME NEW x \in Line, replies' = Append(replies, x), x = "702" => said' = text'.parts
      PROVE  EndWhole'
  <2>1. \A i \in DOMAIN replies' : replies'[i] = x \/ (i \in DOMAIN replies /\ replies'[i] = replies[i])
    BY <1>2, PipeWrite DEF Typed
  <2> QED BY <1>1, <1>2, <2>1 DEF EndWhole
<1>3. CASE replies' = replies
  BY <1>1, <1>3 DEF EndWhole
<1> QED BY <1>2, <1>3

(* The synthesis in the main thread: every part is sent, and its mark.     *)
LEMMA SyncWholeStep ==
  ASSUME Typed, WorkInv, FlagsInv, SpeechInv, orders = {}, SyncWhole, EndWhole,
         Looked \/ SendPart \/ SendMark \/ SyncEnd
  PROVE  SyncWhole' /\ WorkerWhole' /\ EndWhole'
<1> USE DEF SpeechInv
<1>1. /\ Synch /\ Synch' /\ main # "idle" /\ Owes /\ text' = text /\ UNCHANGED shouldStop
      /\ worker' = "wait" /\ kind' = kind
  BY DEF Looked, SendPart, SendMark, SyncEnd, WorkInv, server, progress, Owes, Unsaid, Running, thread, Synch
<1>2. WorkerWhole'
  BY <1>1 DEF WorkerWhole
<1>3. ~stop /\ ~pause /\ main # "fails"
  BY <1>1 DEF FlagsInv, Failed
<1>4. /\ ~shouldStop /\ pos <= 2 * text.parts /\ {pos, said, text.parts} \subseteq Nat
      /\ pos = 2 * said \/ (kind \in Marking /\ pos + 1 = 2 * said)
  BY <1>1 DEF SyncWhole, Typed, Text
<1>5. CASE Looked
  <2>1. said' = said /\ pos' = pos /\ ~shouldStop'
    BY <1>4, <1>5 DEF Looked, progress
  <2>2. EndWhole'
    BY <1>1, <1>5, EndStep DEF Looked, Says, Unheard, Line
  <2> QED BY <1>1, <1>2, <1>4, <2>1, <2>2 DEF SyncWhole
<1>6. CASE SendPart
  <2>1. pos < 2 * text.parts /\ pos % 2 = 0 /\ ~shouldStop /\ said' = said + 1 /\ replies' = replies
    BY <1>4, <1>6 DEF SendPart, Parts, IsPart
  <2>2. Flavour.marks <=> kind \in Marking
    BY <1>1 DEF Flavour, Synch, Synchronous, Marking, Espeak, Ibmtts, Baratinoo, Festival, Flite, Kali, Ivona,
       Pico, OpenJTalk, CxxPiper
  <2>3. pos = 2 * said
    BY <1>4, <2>1
  <2>4. pos' = IF kind \in Marking THEN pos + 1 ELSE pos + 2
    BY <1>6, <2>2 DEF SendPart
  <2>5. pos' <= 2 * text.parts /\ (pos' = 2 * (said + 1) \/ (kind \in Marking /\ pos' + 1 = 2 * (said + 1)))
    BY <1>4, <2>1, <2>3, <2>4
  <2>6. EndWhole'
    BY <1>1, <2>1, EndStep
  <2> QED BY <1>1, <1>2, <1>4, <2>1, <2>5, <2>6 DEF SyncWhole
<1>7. CASE SendMark
  <2>1. pos < 2 * text.parts /\ pos % 2 # 0 /\ said' = said /\ pos' = pos + 1 /\ replies' = Append(replies, "700")
    BY <1>4, <1>7 DEF SendMark, Parts, IsPart, Says, progress
  <2>2. pos + 1 = 2 * said
    BY <1>4, <2>1
  <2>3. EndWhole'
    BY <1>1, <2>1, EndStep DEF Line
  <2> QED BY <1>1, <1>2, <1>4, <2>1, <2>2, <2>3 DEF SyncWhole
<1>8. CASE SyncEnd
  <2>1. pos = 2 * text.parts /\ said' = said /\ replies' = Append(replies, Flavour.ends) /\ main' = "idle"
    BY <1>3, <1>8 DEF SyncEnd, Halts, Parts, Says, progress
  <2>2. said = text.parts
    BY <1>4, <2>1
  <2>3. Flavour.ends \in Line
    BY <1>1, FlavourOf DEF EndLine, Line
  <2>4. EndWhole'
    BY <1>1, <2>1, <2>2, <2>3, EndStep
  <2> QED BY <1>2, <2>1, <2>4 DEF SyncWhole
<1> QED BY <1>5, <1>6, <1>7, <1>8

(* The worker and its child: no part is left out, and the end is reported  *)
(* when the last one was spoken.                                           *)
LEMMA WorkerWholeStep ==
  ASSUME Typed, WorkInv, FlagsInv, SpeechInv, StopInv, Whole, WorkerWhole, EndWhole,
         WorkerStep \/ ChildStep
  PROVE  SyncWhole' /\ WorkerWhole' /\ EndWhole'
<1> USE DEF SpeechInv, StopInv
<1>1. ~Synch /\ ~Synch' /\ UNCHANGED <<kind, text, main>>
  BY WorkerThreaded DEF WorkerStep, ChildStep, WorkerWakes, WorkerBegins, IconBegins, EndsBeforeFree,
     Frees, Forks, Feeds, FeedsMore, Reaps, Reports, CiceroLoops, CiceroPolls, CiceroStops, CiceroClears,
     ChildGroups, ChildSpeaks, ChildExits, UnchangedByWorker, server, Synch
<1>2. SyncWhole'
  BY <1>1 DEF SyncWhole
<1>3. {said, given, text.parts, semaphore} \subseteq Nat
  BY DEF Typed, Text
<1>4. worker \in Quiet \cup {"icon", "begin"} \/ Running
  BY <1>1 DEF Running
<1>5. CASE WorkerWakes
  <2>1. semaphore = 1 /\ semaphore' = 0 /\ worker' \in {"icon", "begin"} /\ worker = "wait"
        /\ given' = 0 /\ child' = "none" /\ said' = said /\ replies' = replies
    BY <1>5 DEF WorkerWakes, Worker, WorkInv
  <2>2. said = 0 /\ Owes
    BY <1>1, <2>1 DEF WorkerWhole, Unsaid, Owes
  <2>3. EndWhole'
    BY <1>1, <2>1, <2>2, EndStep
  <2> QED BY <1>1, <1>2, <2>1, <2>2, <2>3 DEF WorkerWhole
<1>6. CASE IconBegins
  <2>1. worker = "icon" /\ worker' = "ended" /\ said' = 1 /\ text.icon /\ replies' = Append(replies, "701")
        /\ semaphore = 0 /\ semaphore' = semaphore
    BY <1>6 DEF IconBegins, Worker, TextInv, Says, WorkInv, Quiet
  <2>2. text.parts = 1 /\ Owes
    BY <1>1, <2>1 DEF TextInv, IconFits, Owes, Unsaid
  <2>3. EndWhole'
    BY <1>1, <2>1, <2>2, EndStep DEF Line
  <2> QED BY <1>1, <1>2, <2>1, <2>2, <2>3 DEF WorkerWhole, Unsaid
<1>7. CASE EndsBeforeFree
  <2>1. worker = "ended" /\ worker' = "free" /\ said' = said /\ replies' = Append(replies, "702")
        /\ semaphore = 0 /\ semaphore' = semaphore
    BY <1>7 DEF EndsBeforeFree, Worker, Says, WorkInv, Quiet
  <2>2. EndWhole'
    BY <1>1, <2>1, EndStep DEF Line, WorkerWhole
  <2> QED BY <1>1, <1>2, <2>1, <2>2 DEF WorkerWhole, Unsaid
<1>8. CASE Frees \/ CiceroClears
  <2>1. /\ worker \in Quiet /\ worker' \in Quiet /\ said' = said /\ replies' = replies /\ semaphore' = semaphore
    BY <1>8 DEF Frees, CiceroClears, Worker, Quiet, Unheard
  <2>2. EndWhole'
    BY <1>1, <2>1, EndStep
  <2>3. Unsaid' => Unsaid
    BY <1>1, <2>1 DEF Unsaid, Quiet
  <2> QED BY <1>1, <1>2, <2>1, <2>2, <2>3 DEF WorkerWhole, Quiet
<1>9. CASE WorkerBegins
  <2>1. /\ worker = "begin" /\ worker' = IF kind = "cicero" THEN "loop" ELSE "fork"
        /\ replies' = Append(replies, "701") /\ UNCHANGED <<said, semaphore, child, given>> /\ semaphore = 0
    BY <1>9 DEF WorkerBegins, Worker, Says, WorkInv, Quiet
  <2>2. Owes /\ said = 0 /\ given = 0 /\ child = "none"
    BY <1>1, <2>1 DEF WorkerWhole, Unsaid, Owes
  <2>3. EndWhole'
    BY <1>1, <2>1, <2>2, EndStep DEF Line
  <2> QED BY <1>1, <1>2, <1>3, <2>1, <2>2, <2>3 DEF WorkerWhole, Unsaid
<1>10. CASE Forks
  <2>1. /\ worker = "fork" /\ worker' = (IF kind = "generic" THEN "feed" ELSE "reap") /\ child' = "new"
        /\ UNCHANGED <<said, given, replies, semaphore>> /\ semaphore = 0 /\ kind # "cicero"
    BY <1>10 DEF Forks, Worker, WorkInv, Quiet
  <2>2. given = 0 /\ EndWhole'
    BY <1>1, <2>1, EndStep DEF WorkerWhole
  <2> QED BY <1>1, <1>2, <1>3, <2>1, <2>2 DEF WorkerWhole, Unsaid
<1>11. CASE Feeds
  <2>1. /\ kind = "generic" /\ worker = "feed" /\ semaphore = 0
        /\ UNCHANGED <<said, child, replies, semaphore>>
    BY <1>11 DEF Feeds, Worker, WorkInv, Quiet
  <2>2. ~pause /\ given <= text.parts /\ child # "exited"
    BY <2>1 DEF WorkerWhole, Whole, TextInv
  <2>3. IF given < text.parts THEN worker' = "answer" /\ given' = given + 1
                              ELSE worker' = "reap" /\ given' = given
    BY <1>11, <2>2 DEF Feeds, Worker
  <2>4. EndWhole'
    BY <1>1, <2>1, EndStep
  <2> QED BY <1>1, <1>2, <1>3, <2>1, <2>2, <2>3, <2>4 DEF WorkerWhole, Unsaid
<1>12. CASE FeedsMore
  <2>1. /\ kind = "generic" /\ worker = "answer" /\ semaphore = 0
        /\ UNCHANGED <<said, child, replies, semaphore, given>>
    BY <1>12 DEF FeedsMore, Worker, WorkInv, Quiet
  <2>2. child # "killed"
    BY <2>1 DEF FlagsInv, Whole
  <2>3. worker' = "feed" /\ EndWhole'
    BY <1>1, <1>12, <2>1, <2>2, EndStep DEF FeedsMore, Worker
  <2> QED BY <1>1, <1>2, <2>1, <2>2, <2>3 DEF WorkerWhole, Unsaid
<1>13. CASE Reaps
  <2>1. /\ worker = "reap" /\ worker' = "report" /\ child \in Gone /\ semaphore = 0
        /\ UNCHANGED <<said, child, replies, semaphore, given>>
    BY <1>13 DEF Reaps, Worker, WorkInv, Quiet
  <2>2. EndWhole'
    BY <1>1, <2>1, EndStep
  <2> QED BY <1>1, <1>2, <2>1, <2>2 DEF WorkerWhole, Unsaid
<1>14. CASE Reports
  <2>1. /\ worker = "report" /\ worker' = "wait" /\ semaphore = 0 /\ said' = said /\ semaphore' = semaphore
        /\ replies' = Append(replies, IF child = "killed" THEN "703" ELSE "702")
    BY <1>14 DEF Reports, Worker, WorkInv, Quiet, Says
  <2>2. child = "exited" /\ said = text.parts
    <3>1. child \in Gone /\ child # "killed"
      BY <2>1 DEF FlagsInv, WorkerWhole, Whole
    <3>2. kind = "generic" \/ kind = "dummy"
      BY <1>1, <2>1, KindOf DEF WorkInv
    <3> QED BY <2>1, <3>1, <3>2 DEF WorkerWhole, Gone
  <2>3. EndWhole'
    BY <1>1, <2>1, <2>2, EndStep DEF Line
  <2> QED BY <1>1, <1>2, <2>1, <2>3 DEF WorkerWhole, Unsaid
<1>15. CASE CiceroLoops
  <2>1. /\ kind = "cicero" /\ worker = "loop" /\ semaphore = 0
        /\ UNCHANGED <<said, child, replies, semaphore>> /\ ~stop
    BY <1>15 DEF CiceroLoops, Worker, WorkInv, Quiet, FlagsInv, Whole, Unheard
  <2>2. given = said /\ given <= text.parts
    BY <2>1 DEF WorkerWhole
  <2>3. IF given = text.parts THEN worker' = "ended" ELSE worker' = "poll" /\ given' = given + 1
    BY <1>15, <2>1 DEF CiceroLoops
  <2>4. EndWhole'
    BY <1>1, <2>1, EndStep
  <2>5. CASE given = text.parts
    BY <1>1, <1>2, <2>1, <2>2, <2>3, <2>4, <2>5 DEF WorkerWhole, Unsaid
  <2>6. CASE given # text.parts
    BY <1>1, <1>2, <1>3, <2>1, <2>2, <2>3, <2>4, <2>6 DEF WorkerWhole, Unsaid
  <2> QED BY <2>5, <2>6
<1>16. CASE CiceroPolls
  <2>1. /\ kind = "cicero" /\ worker = "poll" /\ semaphore = 0
        /\ UNCHANGED <<child, replies, semaphore, given>> /\ ~stop
    BY <1>16 DEF CiceroPolls, Worker, WorkInv, Quiet, FlagsInv, Whole, Unheard
  <2>2. worker' = "loop" /\ said' = said + 1
    BY <1>16, <2>1 DEF CiceroPolls, Worker
  <2>3. Owes
    BY <1>1, <2>1 DEF Owes, Running, Quiet
  <2>4. EndWhole'
    BY <1>1, <2>1, <2>3, EndStep
  <2> QED BY <1>1, <1>2, <2>1, <2>2, <2>4 DEF WorkerWhole, Unsaid
<1>17. CASE CiceroStops
  BY <1>17 DEF CiceroStops, Worker, FlagsInv, Whole
<1>18. CASE ChildStep
  <2>1. Forking /\ child \in {"new", "reads", "plays"} /\ worker \in {"feed", "answer", "reap"}
    <3>1. child \in {"new", "reads", "plays"}
      BY <1>18 DEF ChildStep, ChildGroups, ChildSpeaks, ChildExits
    <3>2. kind # "cicero"
      BY <3>1 DEF GroupInv
    <3>3. Forking
      BY <1>1, <3>2, KindOf DEF Forking
    <3> QED BY <3>1, <3>3 DEF GroupInv
  <2>2. Owes /\ semaphore = 0
    BY <1>1, <2>1 DEF Owes, Running, Quiet, WorkInv
  <2>3. UNCHANGED <<worker, semaphore, given, replies>>
    BY <1>18 DEF ChildStep, ChildGroups, ChildSpeaks, ChildExits
  <2>4. EndWhole'
    BY <1>1, <2>2, <2>3, EndStep
  <2>5. child' = "exited" => /\ worker = "reap"
                             /\ kind = "generic" => said' = given
                             /\ kind = "dummy" => said' = text.parts
    <3>1. CASE ChildExits
      <4>1. CASE child = "plays" /\ said' = text.parts
        BY <2>1, <4>1 DEF GroupInv, WorkInv
      <4>2. CASE child = "reads" /\ worker = "reap" /\ said = given /\ UNCHANGED said
        BY <2>1, <4>2 DEF GroupInv
      <4> QED BY <3>1, <4>1, <4>2 DEF ChildExits
    <3>2. CASE ChildGroups \/ ChildSpeaks
      BY <2>1, <3>2 DEF ChildGroups, ChildSpeaks
    <3> QED BY <1>18, <3>1, <3>2 DEF ChildStep
  <2> QED BY <1>1, <1>2, <2>1, <2>2, <2>3, <2>4, <2>5 DEF WorkerWhole, Unsaid
<1> QED BY <1>5, <1>6, <1>7, <1>8, <1>9, <1>10, <1>11, <1>12, <1>13, <1>14, <1>15, <1>16, <1>17, <1>18
        DEF WorkerStep

(* Every step of the server, the threads and the child.                    *)
LEMMA WholeStep ==
  ASSUME ModuleInv, StopInv, WholeInv, [Next]_vars
  PROVE  WholeInv'
<1> SUFFICES ASSUME Whole' PROVE SyncWhole' /\ WorkerWhole' /\ EndWhole'
  BY DEF WholeInv
<1> USE KindStays DEF ModuleInv, SpeechInv
<1>1. CASE ServerSpeaks
  <2>1. UNCHANGED <<main, worker, semaphore>> /\ replies' = <<>> /\ ~Owes
    BY <1>1 DEF ServerSpeaks, thread, PhaseInv
  <2>2. IF Synch THEN main = "idle" /\ worker = "wait" ELSE worker \in Quiet /\ semaphore = 0
    BY <2>1 DEF Owes, Unsaid, Running, WorkInv
  <2>3. ~(~Synch /\ Unsaid)'
    BY <2>1, <2>2 DEF Unsaid, Quiet
  <2> QED BY <2>1, <2>2, <2>3 DEF SyncWhole, WorkerWhole, EndWhole, Quiet
<1>2. ASSUME ~ServerSpeaks PROVE Whole /\ SyncWhole /\ WorkerWhole /\ EndWhole /\ orders = {}
  <2>1. orders \subseteq orders' /\ (everPaused => everPaused')
    BY <1>2
  <2>2. Whole
    BY <2>1 DEF Whole
  <2> QED BY <2>2 DEF WholeInv, Whole
<1>3. ASSUME NEW o \in {"STOP", "PAUSE"}, ServerOrders(o) PROVE FALSE
  BY <1>3 DEF ServerOrders, Whole
<1>4. CASE ServerHears
  <2>1. UNCHANGED <<main, worker, semaphore, child, said, given, text, pos, shouldStop>>
    BY <1>4 DEF ServerHears, thread, progress
  <2>2. replies # <<>> /\ replies' = Tail(replies) /\ orders' = orders
    BY <1>4 DEF ServerHears
  <2>3. ~ServerSpeaks
    BY <2>2 DEF ServerSpeaks
  <2>4. EndWhole'
    <3>1. \A i \in DOMAIN replies' : i + 1 \in DOMAIN replies /\ replies'[i] = replies[i + 1]
      BY <2>2, PipeRead DEF Typed
    <3> QED BY <1>2, <2>1, <2>3, <3>1 DEF EndWhole
  <2>5. Unsaid' = Unsaid
    BY <2>1 DEF Unsaid
  <2> QED BY <1>2, <2>1, <2>3, <2>4, <2>5 DEF SyncWhole, WorkerWhole
<1>5. CASE AsyncSpeak
  <2>1. ~Owes /\ replies = <<>> /\ ~Synch /\ replies' = <<>>
    BY <1>5, SpeakTaken, KindOf DEF AsyncSpeak
  <2>2. worker \in Quiet /\ worker' = worker /\ semaphore = 0
    BY <1>5, <2>1 DEF AsyncSpeak, Owes, Unsaid, Running, WorkInv
  <2>3. speaking \/ said' = 0
    BY <1>5 DEF AsyncSpeak, TakesText
  <2>4. speaking => ~Unsaid'
    BY <1>5, <2>1, <2>2 DEF AsyncSpeak, Unsaid, Quiet
  <2> QED BY <2>1, <2>2, <2>3, <2>4 DEF SyncWhole, WorkerWhole, EndWhole, Quiet
<1>6. CASE SyncSpeak
  <2>1. Synch /\ replies = <<>> /\ worker' = "wait" /\ said' = 0 /\ pos' = 0 /\ ~shouldStop' /\ text' = Head(commands).text
    BY <1>6, SpeakTaken DEF SyncSpeak, TakesText, thread, WorkInv, Synch
  <2>2. text'.parts \in Nat
    BY <1>6, TypedStep DEF Typed, Text
  <2>3. \A i \in DOMAIN replies' : replies'[i] # "702"
    <3>1. replies' = <<"200">> \/ replies' = <<"200", "701">>
      BY <1>6, <2>1 DEF SyncSpeak
    <3> QED BY <3>1
  <2> QED BY <2>1, <2>2, <2>3 DEF SyncWhole, WorkerWhole, EndWhole
<1>7. CASE AsyncReply
  <2>1. /\ ~Synch /\ UNCHANGED <<worker, semaphore, child, said, given, text>>
        /\ replies' = Append(replies, IF main = "accepts" THEN "200" ELSE "301")
    BY <1>7 DEF AsyncReply, WorkInv, thread, progress
  <2>2. Whole /\ SyncWhole /\ WorkerWhole /\ EndWhole
    <3>1. ~ServerSpeaks
      <4>1. Lock # "none"
        BY <1>7 DEF AsyncReply, Lock
      <4> QED BY <4>1 DEF ServerSpeaks, PhaseInv
    <3> QED BY <1>2, <3>1
  <2>3. EndWhole'
    BY <2>1, <2>2, EndStep DEF Line
  <2>4. Unsaid' = Unsaid
    BY <2>1 DEF Unsaid
  <2> QED BY <2>1, <2>2, <2>3, <2>4 DEF SyncWhole, WorkerWhole
<1>8. CASE Handles
  <2>1. /\ UNCHANGED <<orders, replies, text, said, main, pos, worker, semaphore, given>>
        /\ ~ServerSpeaks
    <3>1. UNCHANGED <<orders, replies, text, said, main, pos, worker, semaphore, given, session>>
      BY <1>8 DEF Handles, server
    <3> QED BY <3>1 DEF ServerSpeaks
  <2>2. ~Owes
    BY <1>2, <1>8, <2>1, HandledOrder
  <2>3. IF Synch THEN main = "idle" /\ worker = "wait" ELSE worker \in Quiet /\ semaphore = 0
    BY <2>2 DEF Owes, Unsaid, Running, WorkInv
  <2>4. ~(~Synch /\ Unsaid)'
    BY <2>1, <2>3 DEF Unsaid, Quiet
  <2> QED BY <1>2, <2>1, <2>3, <2>4 DEF SyncWhole, WorkerWhole, EndWhole, Quiet
<1>9. CASE Looked \/ SendPart \/ SendMark \/ SyncEnd
  <2>1. ~ServerSpeaks
    <3>1. Running \/ Unsaid
      BY <1>9 DEF Looked, SendPart, SendMark, SyncEnd, WorkInv, Running, Unsaid
    <3> QED BY <3>1 DEF ServerSpeaks, PhaseInv, Owes
  <2> QED BY <1>2, <1>9, <2>1, SyncWholeStep
<1>12. ASSUME SynthesisFails PROVE FALSE
  BY <1>12 DEF SynthesisFails, Whole
<1>10. CASE WorkerStep \/ ChildStep
  <2>1. ~ServerSpeaks
    <3>1. session' = session
      BY <1>10 DEF WorkerStep, ChildStep, WorkerWakes, WorkerBegins,
       IconBegins, EndsBeforeFree, Frees, Forks, Feeds, FeedsMore, Reaps, Reports, CiceroLoops,
       CiceroPolls, CiceroStops, CiceroClears, ChildGroups, ChildSpeaks, ChildExits,
       UnchangedByWorker, server
    <3> QED BY <3>1 DEF ServerSpeaks
  <2> QED BY <1>2, <1>10, <2>1, WorkerWholeStep
<1>11. CASE UNCHANGED vars
  <2>1. ~ServerSpeaks
    BY <1>11 DEF vars, ServerSpeaks
  <2> QED BY <1>2, <1>11, <2>1 DEF vars, SyncWhole, WorkerWhole, EndWhole, Unsaid
<1> QED BY <1>1, <1>3, <1>4, <1>5, <1>6, <1>7, <1>8, <1>9, <1>10, <1>11, <1>12 DEF Next, MainStep

(* Before the first message there is nothing to leave out.                 *)
LEMMA WholeInit == Init => WholeInv
<1> SUFFICES ASSUME Init PROVE WholeInv
  OBVIOUS
<1>1. main = "idle" /\ worker = "wait" /\ semaphore = 0 /\ replies = <<>>
  BY DEF Init
<1>2. ~(~Synch /\ Unsaid)
  BY <1>1 DEF Unsaid
<1> QED BY <1>1, <1>2 DEF WholeInv, SyncWhole, WorkerWhole, EndWhole

(* The end that the server reads was sent when the last part was spoken.   *)
LEMMA SpokenStep ==
  ASSUME ModuleInv, WholeInv, ServerHears, session = "accepted", session' = "none", Whole
  PROVE  Head(replies) = "702" /\ said = text.parts
<1> USE DEF ModuleInv, SpeechInv
<1>1. 1 \in DOMAIN replies /\ Head(replies) = replies[1] /\ replies[1] \in Line /\ InOrder(1)
  BY PipeRead DEF ServerHears, Typed, RepliesInv
<1>2. replies[1] \in EndLine
  BY <1>1 DEF ServerHears, Ending, InOrder, EndLine, Line
<1>3. replies[1] = "702"
  BY <1>1, <1>2 DEF InOrder, EndLine, Whole
<1> QED BY <1>1, <1>3 DEF WholeInv, EndWhole

(* A message that was neither stopped nor paused, and whose synthesizer    *)
(* did not fail, ends plainly when all of its parts were spoken, whatever  *)
(* was ordered for the messages before it; generic, whose flag of an old   *)
(* pause stays set, is excepted once a PAUSE was ordered.                  *)
THEOREM SpokenWholeCorrect == Spec => SpokenWhole
<1>1. Spec => [](ModuleInv /\ StopInv /\ WholeInv)
  <2>1. ModuleInv /\ StopInv /\ WholeInv /\ [Next]_vars => ModuleInv' /\ StopInv' /\ WholeInv'
    BY ModuleStep, StopStep, WholeStep
  <2> QED BY <2>1, ModuleInit, StopInit, WholeInit, PTL DEF Spec
<1>2. ModuleInv /\ StopInv /\ WholeInv /\ [Next]_vars
        => [ /\ ServerHears /\ session = "accepted" /\ session' = "none" /\ orders = {}
             /\ ~(kind = "generic" /\ everPaused)
             => Head(replies) = "702" /\ said = text.parts ]_vars
  BY SpokenStep DEF Whole
<1> QED BY <1>1, <1>2, PTL DEF Spec, SpokenWhole
=============================================================================
