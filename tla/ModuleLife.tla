----------------------------- MODULE ModuleLife -----------------------------
(***************************************************************************)
(* The life of the server and of its output modules: the main loop of      *)
(* main() with its sources (clients, signals, the shutdown timer), the     *)
(* processes of the modules, their crash and reload, and the descriptors   *)
(* of the server.                                                          *)
(*                                                                         *)
(* GLib dispatches every source that was ready when it polled; a source    *)
(* that a callback removes is not dispatched any more.  A reload or a new  *)
(* configuration keeps the main loop busy for many steps, one per module,  *)
(* while modules crash and the other threads notice it.                    *)
(*                                                                         *)
(* A module's two pipes are one descriptor here; the lowest free one is    *)
(* taken, as POSIX demands.  Every module answers INIT, well or badly.     *)
(***************************************************************************)
EXTENDS ModuleLoad, FiniteSets

CONSTANTS
  Configurations, \* what the configuration file may say when it is read
  Descriptors,    \* the descriptors the server may open
  Timeout,        \* SpeechdOptions.server_timeout > 0
  MaxTroubles,    \* crashes and failed loads in a behaviour
  MaxSignals,     \* signals in a behaviour
  MaxConnects     \* clients in a behaviour

ASSUME LifeAssumption ==
  /\ Descriptors \subseteq Nat /\ IsFiniteSet(Descriptors)
  /\ Timeout \in BOOLEAN
  /\ \A conf \in Configurations : conf.modules \in Seq(Requests)
  /\ {MaxTroubles, MaxSignals, MaxConnects} \subseteq Nat

VARIABLES
  modules,   \* output_modules: [name, works, fd, pid]
  default,   \* GlobalFDSet.output_module: the name, and the pid of the module
             \* whose name it points to (0: a string of its own)
  todo,      \* requested_modules
  owner,     \* who has each descriptor open
  running,   \* the module processes that run
  lingering, \* those that were never recorded: their answer to INIT was garbled
  starts,    \* processes started, which numbers them
  main,      \* what the main thread is doing
  at,        \* the reload: how many modules were looked at
  ready,     \* the sources that were ready, not yet dispatched
  arrived,   \* those that will be ready
  clients,   \* connected clients: [id, fd]
  timer,     \* server_timeout_source
  quitting,  \* g_main_loop_quit() was called
  reason,    \* quit_reason
  connects, signals, troubles, \* bounds
  crossed    \* history: a descriptor in use was closed by another than its owner

load     == <<modules, default, todo, owner, running, lingering, starts>>
loop     == <<ready, clients, timer, quitting, reason>>
bounds   == <<connects, signals, troubles>>
vars     == <<load, main, at, loop, arrived, bounds, crossed>>

(* Owners of descriptors; clients are sources of the main loop as well. *)
Tag(kind, n)     == [is |-> kind, n |-> n]
Nobody           == Tag("nobody", 0)
Leaked           == Tag("leaked", 0)
ModuleOwner(pid) == Tag("module", pid)
Client(id)       == Tag("client", id)
Source(name)     == Tag(name, 0)

NoDefault == [name |-> NoName, of |-> 0]

Init ==
  /\ \E conf \in Configurations :
       /\ todo = Requested(conf)
       /\ default = [name |-> conf.default, of |-> 0]
  /\ modules = <<>> /\ owner = [d \in Descriptors |-> Nobody]
  /\ running = {} /\ lingering = {} /\ starts = 0
  /\ main = "start" /\ at = 0
  /\ ready = {} /\ arrived = {} /\ clients = {} /\ timer = "off"
  /\ quitting = FALSE /\ reason = "timeout"
  /\ connects = 0 /\ signals = 0 /\ troubles = 0 /\ crossed = FALSE

-----------------------------------------------------------------------------
(* Descriptors. *)

Free        == {d \in Descriptors : owner[d] = Nobody}
LowestFree  == FirstOf(Free)

(* close(d), by code that takes it for its own. *)
Closes(S, own) ==
  /\ owner' = [d \in Descriptors |-> IF d \in S THEN Nobody ELSE owner[d]]
  /\ crossed' = (crossed \/ \E d \in S : owner[d] \notin own \cup {Nobody, Leaked})

-----------------------------------------------------------------------------
(* The module processes. *)

Pids == {modules[i].pid : i \in DOMAIN modules}

Crash ==
  /\ troubles < MaxTroubles /\ troubles' = troubles + 1
  /\ \E pid \in running : running' = running \ {pid}
  /\ UNCHANGED <<modules, default, todo, owner, lingering, starts, main, at, loop, arrived,
                 connects, signals, crossed>>

(* A module may close its end of the pipes and still run for a while.      *)
HangUp(i) ==
  /\ i \in DOMAIN modules /\ modules[i].works /\ modules[i].pid \in running
  /\ troubles < MaxTroubles /\ troubles' = troubles + 1
  /\ modules' = [modules EXCEPT ![i].works = FALSE]
  /\ UNCHANGED <<default, todo, owner, running, lingering, starts, main, at, loop, arrived,
                 connects, signals, crossed>>

(* Whoever writes to the module or reads from it marks it as not working:  *)
(* output_send_data(), output_read_message().                              *)
Notice(i) ==
  /\ i \in DOMAIN modules /\ modules[i].works /\ modules[i].pid \notin running
  /\ modules' = [modules EXCEPT ![i].works = FALSE]
  /\ UNCHANGED <<default, todo, owner, running, lingering, starts, main, at, loop, arrived,
                 bounds, crossed>>

(* load_output_module() once its pipes are open: the module starts; or the *)
(* server kills it, because it refuses INIT, the audio settings or the     *)
(* list of voices; or its answer is garbled, and it is neither killed nor  *)
(* recorded.  Failed, the two descriptors are never closed.                *)
Starts ==
  /\ starts' = starts + 1 /\ running' = running \cup {starts + 1}
  /\ UNCHANGED <<lingering, troubles>>

Fails ==
  /\ troubles < MaxTroubles /\ troubles' = troubles + 1
  /\ starts' = starts + 1
  /\ \/ UNCHANGED <<running, lingering>>
     \/ running' = running \cup {starts + 1} /\ lingering' = lingering \cup {starts + 1}

Loaded(name) == [name |-> name, works |-> TRUE, fd |-> LowestFree, pid |-> starts + 1]

(* Without descriptors pipe() fails, and nothing is left behind. *)
NoPipe == Free = {} /\ UNCHANGED <<owner, running, lingering, starts, troubles>>

-----------------------------------------------------------------------------
(* module_load_requested_modules(): at the start and for SIGHUP.           *)

Loading == main \in {"start", "load"}

unchangedByLoad == <<default, main, at, loop, arrived, connects, signals, crossed>>

LoadNext ==
  /\ Loading /\ todo # <<>> /\ todo' = Tail(todo)
  /\ \/ /\ Free # {} /\ Starts
        /\ modules' = Append(modules, Loaded(Head(todo).name))
        /\ owner' = [owner EXCEPT ![LowestFree] = ModuleOwner(starts + 1)]
     \/ /\ Free # {} /\ Fails
        /\ owner' = [owner EXCEPT ![LowestFree] = Leaked] /\ UNCHANGED modules
     \/ NoPipe /\ UNCHANGED modules
  /\ UNCHANGED unchangedByLoad

(* The default becomes the first module, by a pointer to its name.  At the *)
(* start the server gives up without any module, or else arms the timer.   *)
LoadDone ==
  /\ Loading /\ todo = <<>>
  /\ default' = IF modules # <<>> /\ default = NoDefault
                THEN [name |-> modules[1].name, of |-> modules[1].pid] ELSE default
  /\ main' = IF main = "start" /\ modules = <<>> THEN "done" ELSE "loop"
  /\ timer' = IF main = "start" /\ Timeout THEN "armed" ELSE timer
  /\ UNCHANGED <<modules, todo, owner, running, lingering, starts, at, ready, clients,
                 quitting, reason, arrived, bounds, crossed>>

(* unload_output_module() of all: QUIT, or SIGKILL after a second.         *)
BuggyUnloadAll ==
  /\ running' = running \ {modules[i].pid : i \in {j \in DOMAIN modules : modules[j].works}}
  /\ Closes({modules[i].fd : i \in DOMAIN modules}, {ModuleOwner(pid) : pid \in Pids})
  /\ modules' = <<>>

UnloadAll ==
  /\ running' = running \ Pids
  /\ Closes({modules[i].fd : i \in DOMAIN modules}, {ModuleOwner(pid) : pid \in Pids})
  /\ modules' = <<>>

-----------------------------------------------------------------------------
(* The main loop. *)

Dispatches(source) ==
  /\ main = "loop" /\ source \in ready

(* What has arrived is ready; GLib dispatches it all before it polls again. *)
Poll ==
  /\ main = "loop" /\ ready = {} /\ ~quitting
  /\ ready' = arrived \cup (IF timer = "due" THEN {Source("timer")} ELSE {}) /\ ready' # {}
  /\ UNCHANGED <<load, main, at, clients, timer, quitting, reason, arrived, bounds, crossed>>

(* SIGUSR1: speechd_reload_dead_modules(), one module at a time. *)
Usr1 ==
  /\ Dispatches(Source("usr1"))
  /\ ready' = ready \ {Source("usr1")} /\ arrived' = arrived \ {Source("usr1")}
  /\ main' = "reload" /\ at' = 0
  /\ UNCHANGED <<load, clients, timer, quitting, reason, bounds, crossed>>

Put(i, m) == [modules EXCEPT ![i] = m]

(* reload_output_module().  The descriptor is closed before it is known    *)
(* whether the new process works; if not, the old module stays in the list *)
(* and has it closed again by the next reload.                             *)
Reload(i) ==
  LET old  == modules[i]
      free == Free \cup {old.fd}
      fd   == FirstOf(free)
      closed(o) == [owner EXCEPT ![old.fd] = Nobody, ![fd] = o]
      rest == running \ {old.pid}
      new  == starts + 1
  IN  /\ crossed' = (crossed \/ owner[old.fd] \notin {Nobody, Leaked, ModuleOwner(old.pid)})
      /\ starts' = new
      /\ \/ /\ modules' = Put(i, [name |-> old.name, works |-> TRUE, fd |-> fd, pid |-> new])
            /\ owner' = closed(ModuleOwner(new)) /\ running' = rest \cup {new}
            /\ UNCHANGED <<lingering, troubles>>
         \/ /\ troubles < MaxTroubles /\ troubles' = troubles + 1
            /\ owner' = closed(Leaked)
            /\ \/ running' = rest /\ UNCHANGED lingering
               \/ running' = rest \cup {new} /\ lingering' = lingering \cup {new}
            /\ UNCHANGED modules
      /\ UNCHANGED <<default, todo>>

(* A module that works is left alone. *)
BuggySpared(i) == /\ owner' = [owner EXCEPT ![modules[i].fd] = Nobody]
                  /\ UNCHANGED <<modules, default, todo, running, lingering, starts,
                                 crossed, troubles>>
Spared(i) == UNCHANGED <<load, crossed, troubles>>

ReloadNext ==
  /\ main = "reload" /\ at < Len(modules) /\ at' = at + 1
  /\ IF modules[at + 1].works THEN Spared(at + 1) ELSE Reload(at + 1)
  /\ UNCHANGED <<main, loop, arrived, connects, signals>>

ReloadDone ==
  /\ main = "reload" /\ at = Len(modules) /\ main' = "loop"
  /\ UNCHANGED <<load, at, loop, arrived, bounds, crossed>>

(* SIGHUP: speechd_load_configuration() terminates every module, reads the *)
(* file, then the requested modules are loaded.                            *)
Hup ==
  /\ Dispatches(Source("hup"))
  /\ ready' = ready \ {Source("hup")} /\ arrived' = arrived \ {Source("hup")}
  /\ main' = "load" /\ UnloadAll
  /\ \E conf \in Configurations :
       /\ todo' = Requested(conf)
       /\ default' = [name |-> IF conf.readable THEN conf.default ELSE NoName, of |-> 0]
  /\ UNCHANGED <<lingering, starts, at, clients, timer, quitting, reason, bounds>>

(* speechd_quit() for a signal keeps the first reason that is no timeout.  *)
Term ==
  /\ Dispatches(Source("term"))
  /\ ready' = ready \ {Source("term")} /\ arrived' = arrived \ {Source("term")}
  /\ quitting' = TRUE /\ reason' = "signal"
  /\ UNCHANGED <<load, main, at, clients, timer, bounds, crossed>>

TimedOut ==
  /\ Dispatches(Source("timer"))
  /\ ready' = ready \ {Source("timer")} /\ timer' = "off"
  /\ quitting' = TRUE
  /\ UNCHANGED <<load, main, at, clients, reason, arrived, bounds, crossed>>

(* speechd_connection_new(): the timer's source is removed, also when it   *)
(* was ready in this round.  Without a descriptor accept() fails, and the  *)
(* listening socket stays ready.                                           *)
Disarmed ==
  /\ timer' = "off" /\ ready' = ready \ {Source("accept"), Source("timer")}

Accept ==
  /\ Dispatches(Source("accept")) /\ Free # {}
  /\ arrived' = arrived \ {Source("accept")} /\ Disarmed
  /\ clients' = clients \cup {[id |-> connects, fd |-> LowestFree]}
  /\ owner' = [owner EXCEPT ![LowestFree] = Client(connects)]
  /\ UNCHANGED <<modules, default, todo, running, lingering, starts, main, at, quitting,
                 reason, bounds, crossed>>

AcceptFails ==
  /\ Dispatches(Source("accept")) /\ Free = {}
  /\ ready' = ready \ {Source("accept")}
  /\ UNCHANGED <<load, main, at, clients, timer, quitting, reason, arrived, bounds, crossed>>

(* speechd_connection_destroy(), check_client_count(): the last client to  *)
(* leave arms the timer.                                                   *)
BuggyArmed(left) == timer
Armed(left) == IF left = {} /\ Timeout THEN "armed" ELSE timer

Leave(c) ==
  /\ Dispatches(Client(c.id))
  /\ ready' = ready \ {Client(c.id)} /\ arrived' = arrived \ {Client(c.id)}
  /\ clients' = clients \ {c} /\ Closes({c.fd}, {Client(c.id)})
  /\ timer' = Armed(clients \ {c})
  /\ UNCHANGED <<modules, default, todo, running, lingering, starts, main, at, quitting,
                 reason, bounds>>

(* g_main_loop_run() returns: main() looks at the clients once more.       *)
RunsAgain == reason = "timeout" /\ clients # {}

LoopEnds ==
  /\ main = "loop" /\ ready = {} /\ quitting
  /\ quitting' = FALSE /\ main' = IF RunsAgain THEN "loop" ELSE "exit"
  /\ UNCHANGED <<load, at, ready, clients, timer, reason, arrived, bounds, crossed>>

Exit ==
  /\ main = "exit" /\ main' = "done"
  /\ UnloadAll /\ clients' = {}
  /\ UNCHANGED <<default, todo, lingering, starts, at, ready, timer, quitting, reason,
                 arrived, bounds>>

-----------------------------------------------------------------------------
(* The world.  Only Poll sees what arrives, so it arrives just before one. *)

Arrives(source) ==
  /\ main = "loop" /\ ready = {} /\ source \notin arrived /\ arrived' = arrived \cup {source}
  /\ UNCHANGED <<load, main, at, loop, troubles, crossed>>

Connects == connects < MaxConnects /\ Arrives(Source("accept"))
            /\ connects' = connects + 1 /\ UNCHANGED signals

Leaves(c) == c \in clients /\ Arrives(Client(c.id)) /\ UNCHANGED <<connects, signals>>

Signal(s) == signals < MaxSignals /\ Arrives(Source(s))
             /\ signals' = signals + 1 /\ UNCHANGED connects

Elapses ==
  /\ main = "loop" /\ ready = {} /\ timer = "armed" /\ timer' = "due"
  /\ UNCHANGED <<load, main, at, ready, clients, quitting, reason, arrived, bounds, crossed>>

MainStep ==
  \/ LoadNext \/ LoadDone \/ Poll \/ Usr1 \/ ReloadNext \/ ReloadDone \/ Hup \/ Term
  \/ TimedOut \/ Accept \/ AcceptFails \/ (\E c \in clients : Leave(c))
  \/ LoopEnds \/ Exit

Next ==
  /\ ~crossed
  /\ \/ MainStep \/ Crash \/ (\E i \in DOMAIN modules : Notice(i) \/ HangUp(i))
     \/ Connects \/ (\E c \in clients : Leaves(c))
     \/ (\E s \in {"usr1", "hup", "term"} : Signal(s)) \/ Elapses

Spec == Init /\ [][Next]_vars
FairSpec == Spec /\ WF_vars(MainStep) /\ WF_vars(Elapses)

-----------------------------------------------------------------------------
(* Properties. *)

(* A dangling pointer may read as any name. *)
Default == IF default.of \in Pids \cup {0} THEN {default.name}
           ELSE {modules[i].name : i \in DOMAIN modules} \cup {NoName}

Names == {NoName} \cup {modules[i].name : i \in DOMAIN modules}

(* A message is spoken by the module it asks for if that works; by one     *)
(* that works as long as one does; and by dummy, unasked, only when no     *)
(* other works: get_some_output_module_by_name() in every state that       *)
(* crashes, reloads and new configurations can lead to.                    *)
RightModule ==
  \A name \in Names, usual \in Default :
    LET i       == Chosen(modules, name, usual)
        working == {j \in DOMAIN modules : modules[j].works}
    IN  /\ i = 0 => working = {}
        /\ i # 0 => /\ i \in working
                    /\ \A j \in working : modules[j].name = name => i = j
                    /\ modules[i].name = "dummy" /\ "dummy" \notin {name, usual}
                         => working = {i}

(* Every client and every working module has the descriptor it was given,  *)
(* until a descriptor is closed twice (see crossed).                       *)
OwnDescriptors ==
  ~crossed => /\ \A c \in clients : owner[c.fd] = Client(c.id)
              /\ \A i \in DOMAIN modules :
                   modules[i].works => owner[modules[i].fd] = ModuleOwner(modules[i].pid)

(* No module process runs that the server does not know, save those whose  *)
(* answer to INIT was garbled: not after a reload, nor a new               *)
(* configuration, nor the exit, even when the server took it for dead.     *)
NoOrphans == running \subseteq Pids \cup lingering

(* A server with a timeout that has no clients for ever comes to its end:  *)
(* the timer is armed whenever the last one leaves.                        *)
IdleQuits ==
  Timeout => (   <>[](clients = {} /\ Source("accept") \notin arrived)
              => <>(main = "done" \/ crossed))
=============================================================================
