--------------------------- MODULE ClientsProofs ---------------------------
(***************************************************************************)
(* Proofs about the two client libraries, for any number of threads of the *)
(* program, of calls and of events, and a server that may die.             *)
(***************************************************************************)
EXTENDS Clients, TLAPS

Line  == {"priority", "speak", "text", "dot", "data", "key", "command", "setting", "notification",
          "query", "list", "none"}
Wire  == [call : Nat, line : Line]
Item  == [kind : {"reply", "event"}, call : Nat, line : Line, ok : BOOLEAN, n : Nat]
Slot  == Item \cup {NoItem}

CTodos  == {SayLines, <<"speak", "text", "dot">>, <<"text", "dot">>, <<"dot">>,
            KeyLines, <<"key">>, CommandLines, SettingLines, NotificationLines,
            <<"notification">>, QueryLines, ListLines}
PyTodos == {<<"priority", "speak", "data">>, <<"speak", "data">>, <<"data">>,
            <<"priority", "key">>, <<"key">>, <<"command">>, <<"query">>}

CallerStates ==
  [Callers -> [at : {"idle", "check", "write", "alive", "wait"}, call : Nat,
               kind : Kinds \cup {"none"}, todo : CTodos \cup PyTodos \cup {<<>>}]]

(* What the variables hold, and what a busy caller has still to send.      *)
Typed ==
  /\ library \in {"c", "python"}
  /\ {link, inData, overlap, socket} \subseteq BOOLEAN
  /\ toServer \in Seq(Wire) /\ text \in Seq(Wire)
  /\ texts \in Seq([call : Nat, text : Seq(Wire), told : Nat])
  /\ fromServer \in Seq(Item) /\ reply \in Slot /\ replies \in Seq(Item)
  /\ {written, handled, calls} \subseteq Nat
  /\ handler \in [at : {"read", "callback", "deliver", "ack", "broken", "gone"}, item : Slot]
  /\ caller \in CallerStates
  /\ \A c \in Callers : Busy(c) =>
       /\ caller[c].kind \in Kinds
       /\ library = "c" => caller[c].todo \in CTodos /\ caller[c].at # "alive"
       /\ library = "python" => caller[c].todo \in PyTodos /\ caller[c].at # "check"

(* libspeechd: the item in the hands of the events thread, or put down for *)
(* a caller, is the one after those that were handled, and those in the    *)
(* socket follow it.                                                       *)
InHand == IF handler.at \in {"callback", "deliver"} \/ reply # NoItem THEN 1 ELSE 0
OrderInv ==
  library = "c" =>
    /\ reply # NoItem => handler.at = "ack" /\ reply.n = handled + 1
    /\ handler.at \in {"callback", "deliver"} => handler.item.n = handled + 1
    /\ \A i \in DOMAIN fromServer : fromServer[i].n = handled + InHand + i
    /\ written = handled + InHand + Len(fromServer)
    /\ handler.at \in {"broken", "gone"} <=> ~socket
    /\ ~socket => ~link /\ fromServer = <<>>
    /\ replies = <<>>

(* The Python library keeps nothing in the fields of the other one. *)
PythonInv ==
  library = "python" =>
    /\ reply = NoItem /\ handler.at \in {"read", "callback", "gone"}
    /\ handler.at = "gone" => ~link /\ fromServer = <<>>

(* The caller in a call that takes the mutex holds it. *)
MutexInv ==
  library = "c" =>
    /\ \A c \in Callers : Busy(c) /\ TakesMutex(caller[c].kind) <=> ssipMutex = c
    /\ ssipMutex \in Callers \cup {Nobody}

-----------------------------------------------------------------------------
(* While no calls met that nothing keeps apart. *)

Want(c) == IF Head(caller[c].todo) = "data" THEN "dot" ELSE Head(caller[c].todo)
Told(c, line) == [call |-> caller[c].call, line |-> line]
Waiting(c) == caller[c].at \in {"alive", "wait"}

(* A reply to the line the caller waits for.  One that accepts SPEAK means *)
(* that the server collects a text.                                        *)
MineOf(c, item) ==
  /\ Waiting(c) /\ item.call = caller[c].call /\ item.line = Want(c)
  /\ item.ok /\ link /\ Want(c) = "speak" => inData
Mine(item) == \E c \in Callers : MineOf(c, item)

(* What a caller may have on its way to the server. *)
OnWire(c) ==
  \/ Waiting(c) /\ Want(c) # "text" /\ toServer = <<Told(c, Want(c))>>
  \/ Waiting(c) /\ Want(c) = "dot" /\ inData /\ toServer = <<Told(c, "text"), Told(c, "dot")>>
  \/ /\ Busy(c) /\ ~Waiting(c) /\ Head(caller[c].todo) = "dot" /\ inData
     /\ toServer = <<Told(c, "text")>>

RepliesIn == {i \in DOMAIN fromServer : fromServer[i].kind = "reply"}
Held      == \/ handler.at = "deliver" \/ reply # NoItem
             \/ replies # <<>> /\ handler.at # "gone"

(* One caller is busy, with one line that is on its way, or one reply.     *)
CallInv ==
  /\ \A c, d \in Callers : Busy(c) /\ Busy(d) => c = d
  /\ toServer # <<>> => link /\ RepliesIn = {} /\ ~Held /\ \E c \in Callers : OnWire(c)
  /\ RepliesIn # {} => ~Held
  /\ \A i, j \in RepliesIn : i = j
  /\ \A i \in RepliesIn : Mine(fromServer[i])
  /\ handler.at = "deliver" => Mine(handler.item)
  /\ reply # NoItem => Mine(reply)
  /\ replies # <<>> => /\ Len(replies) = 1
                       /\ handler.at # "gone" => Mine(Head(replies))
                       /\ \A c \in Callers : caller[c].at = "wait" => MineOf(c, Head(replies))
  /\ \A c \in Callers :
       caller[c].at \in {"check", "write"} /\ Head(caller[c].todo) \in {"text", "data"} /\ link =>
         inData /\ toServer = <<>>
  /\ library = "c" => \A c \in Callers :
       caller[c].at = "wait" /\ c \notin asleep /\ reply = NoItem => handler.at = "gone"

ClientInv == Typed /\ OrderInv /\ PythonInv /\ MutexInv /\ (~overlap => CallInv)

-----------------------------------------------------------------------------
(* Tuples.                                                                 *)
LEMMA Tuples ==
  ASSUME NEW a, NEW b, NEW c, NEW d
  PROVE  /\ Tail(<<a, b, c, d>>) = <<b, c, d>> /\ Tail(<<a, b, c>>) = <<b, c>>
         /\ Tail(<<a, b>>) = <<b>> /\ Tail(<<a>>) = <<>>
         /\ Head(<<a, b, c, d>>) = a /\ Head(<<a, b, c>>) = a /\ Head(<<a, b>>) = a /\ Head(<<a>>) = a
         /\ Len(<<a, b, c, d>>) = 4 /\ Len(<<a, b, c>>) = 3 /\ Len(<<a, b>>) = 2 /\ Len(<<a>>) = 1
         /\ <<a, b>> # <<>> /\ <<a>> # <<>> /\ <<a, b>> # <<c>>
OBVIOUS

(* A second element behind a single one.                                   *)
LEMMA AppendPair ==
  ASSUME NEW S, NEW a \in S, NEW b \in S
  PROVE  Append(<<a>>, b) = <<a, b>>
<1> DEFINE s == Append(<<a>>, b)
<1>1. <<a>> \in Seq(S) /\ <<a, b>> \in Seq(S)
  OBVIOUS
<1>2. s \in Seq(S) /\ Len(s) = 2 /\ s[1] = a /\ s[2] = b
  BY <1>1
<1> HIDE DEF s
<1>3. s = <<a, b>>
  BY <1>2
<1> QED BY <1>3 DEF s

(* What Head, Tail and Append do to a sequence.                            *)
LEMMA SequenceOps ==
  ASSUME NEW S, NEW s \in Seq(S)
  PROVE  /\ s # <<>> => /\ Head(s) \in S /\ Tail(s) \in Seq(S) /\ Head(s) = s[1] /\ Len(s) \in Nat \ {0}
                        /\ Len(Tail(s)) = Len(s) - 1 /\ DOMAIN Tail(s) = 1 .. Len(s) - 1
                        /\ \A i \in 1 .. Len(s) - 1 : Tail(s)[i] = s[i + 1]
         /\ Len(s) \in Nat /\ DOMAIN s = 1 .. Len(s)
         /\ \A x \in S : /\ Append(s, x) \in Seq(S) /\ Len(Append(s, x)) = Len(s) + 1
                         /\ DOMAIN Append(s, x) = 1 .. Len(s) + 1
                         /\ Append(s, x)[Len(s) + 1] = x
                         /\ \A i \in 1 .. Len(s) : Append(s, x)[i] = s[i]
OBVIOUS

(* What is left of a call: text comes after SPEAK and before the dot.      *)
LEMMA TodoFacts ==
  ASSUME NEW t \in CTodos
  PROVE  /\ t # <<>> /\ Head(t) \in Line \ {"data", "none"}
         /\ Len(t) # 1 => Tail(t) \in CTodos
         /\ Head(t) = "text" => Len(t) # 1 /\ Head(Tail(t)) = "dot"
         /\ Len(t) # 1 /\ Head(t) # "speak" => Head(Tail(t)) # "text"
<1> DEFINE P(u) == /\ u # <<>> /\ Head(u) \in Line \ {"data", "none"}
                   /\ Len(u) # 1 => Tail(u) \in CTodos
                   /\ Head(u) = "text" => Len(u) # 1 /\ Head(Tail(u)) = "dot"
                   /\ Len(u) # 1 /\ Head(u) # "speak" => Head(Tail(u)) # "text"
<1>1. P(<<"priority", "speak", "text", "dot">>)
  BY Tuples DEF CTodos, Line
<1>2. P(<<"speak", "text", "dot">>)
  BY Tuples DEF CTodos, Line
<1>3. P(<<"text", "dot">>)
  BY Tuples DEF CTodos, Line
<1>4. P(<<"dot">>) /\ P(<<"key">>) /\ P(<<"command">>) /\ P(<<"query">>)
  BY Tuples DEF CTodos, Line
<1>5. P(<<"priority", "key">>)
  BY Tuples DEF CTodos, Line, KeyLines
<1>6. P(<<"setting">>) /\ P(<<"notification">>) /\ P(<<"list">>)
  BY Tuples DEF CTodos, Line
<1>7. P(<<"notification", "notification">>)
  BY Tuples DEF CTodos, Line
<1>8. P(t)
  <2> HIDE DEF P
  <2> QED BY <1>1, <1>2, <1>3, <1>4, <1>5, <1>6, <1>7
          DEF CTodos, SayLines, KeyLines, CommandLines, SettingLines, NotificationLines,
              QueryLines, ListLines
<1> QED BY <1>8

(* What is left of a Python call's lines when one was sent.                *)
LEMMA PyTodoFacts ==
  ASSUME NEW t \in PyTodos
  PROVE  /\ t # <<>> /\ Head(t) \in Line \ {"text", "dot", "none"}
         /\ Len(t) # 1 => Tail(t) \in PyTodos
         /\ Len(t) # 1 /\ Head(t) # "speak" => Head(Tail(t)) # "data"
<1> DEFINE P(u) == /\ u # <<>> /\ Head(u) \in Line \ {"text", "dot", "none"}
                   /\ Len(u) # 1 => Tail(u) \in PyTodos
                   /\ Len(u) # 1 /\ Head(u) # "speak" => Head(Tail(u)) # "data"
<1>1. P(<<"priority", "speak", "data">>)
  BY Tuples DEF PyTodos, Line
<1>2. P(<<"speak", "data">>)
  BY Tuples DEF PyTodos, Line
<1>4. P(<<"data">>) /\ P(<<"key">>) /\ P(<<"command">>) /\ P(<<"query">>)
  BY Tuples DEF PyTodos, Line
<1>5. P(<<"priority", "key">>)
  BY Tuples DEF PyTodos, Line
<1>6. P(t)
  <2> HIDE DEF P
  <2> QED BY <1>1, <1>2, <1>4, <1>5 DEF PyTodos
<1> QED BY <1>6

(* The calls begin with lines that are no text. *)
LEMMA Begins ==
  ASSUME NEW kind \in Kinds
  PROVE  /\ Lines(kind) \in CTodos /\ Head(Lines(kind)) \notin {"text", "dot"}
         /\ PyLines(kind) \in PyTodos /\ Head(PyLines(kind)) # "data"
<1>1. kind \in {"say", "key", "command", "setting", "notification", "query", "list"}
  BY LibAssumption
<1>2. /\ Head(SayLines) = "priority" /\ Head(KeyLines) = "priority"
      /\ Head(CommandLines) = "command" /\ Head(SettingLines) = "setting"
      /\ Head(NotificationLines) = "notification"
      /\ Head(QueryLines) = "query" /\ Head(ListLines) = "list"
  BY Tuples DEF SayLines, KeyLines, CommandLines, SettingLines, NotificationLines, QueryLines,
                ListLines
<1>3. Lines(kind) \in CTodos /\ Head(Lines(kind)) \notin {"text", "dot"}
  BY <1>1, <1>2 DEF Lines, CTodos
<1>4. PyLines(kind) \in PyTodos /\ Head(PyLines(kind)) # "data"
  <2>1. /\ Head(<<"priority", "speak", "data">>) = "priority" /\ Head(<<"priority", "key">>) = "priority"
        /\ Head(<<"command">>) = "command" /\ Head(<<"query">>) = "query"
    BY Tuples
  <2>2. PyLines(kind) \in {<<"priority", "speak", "data">>, <<"priority", "key">>, <<"command">>, <<"query">>}
    BY <1>1 DEF PyLines
  <2> QED BY <2>1, <2>2 DEF PyTodos
<1> QED BY <1>3, <1>4

-----------------------------------------------------------------------------
(* What a step does to the caller that takes it, in place of the EXCEPT.   *)
Others(c) == caller' \in CallerStates /\ \A d \in Callers \ {c} : caller'[d] = caller[d]
Ended(c)  == caller'[c] = Idle /\ Others(c)
Turned(c, a, td) ==
  /\ caller'[c].at = a /\ caller'[c].todo = td
  /\ caller'[c].call = caller[c].call /\ caller'[c].kind = caller[c].kind /\ Others(c)

(* A caller that becomes idle ends, and no other caller moves.             *)
LEMMA Ends ==
  ASSUME Typed, NEW c \in Callers, caller' = [caller EXCEPT ![c] = Idle]
  PROVE  Ended(c)
BY DEF Typed, CallerStates, Ended, Others, Idle

(* A caller that moves on within a call goes on with the same lines.       *)
LEMMA Turns ==
  ASSUME Typed, NEW c \in Callers, NEW a \in {"idle", "check", "write", "alive", "wait"},
         caller' = [caller EXCEPT ![c].at = a]
  PROVE  Turned(c, a, caller[c].todo)
BY DEF Typed, CallerStates, Turned, Others

(* A caller that got its reply goes on with the lines that are left.       *)
LEMMA TurnsOn ==
  ASSUME Typed, NEW c \in Callers, NEW a \in {"idle", "check", "write", "alive", "wait"},
         Tail(caller[c].todo) \in CTodos \cup PyTodos,
         caller' = [caller EXCEPT ![c].at = a, ![c].todo = Tail(@)]
  PROVE  Turned(c, a, Tail(caller[c].todo))
<1> DEFINE td == Tail(caller[c].todo)
<1>1. caller' = [caller EXCEPT ![c].at = a, ![c].todo = td]
  BY DEF Typed, CallerStates
<1> HIDE DEF td
<1>2. td \in CTodos \cup PyTodos
  BY DEF td
<1>3. caller'[c] = [caller[c] EXCEPT !.at = a, !.todo = td] /\ DOMAIN caller' = Callers
      /\ \A d \in Callers \ {c} : caller'[d] = caller[d]
  BY <1>1 DEF Typed, CallerStates
<1>4. caller[c] \in [at : {"idle", "check", "write", "alive", "wait"}, call : Nat,
                    kind : Kinds \cup {"none"}, todo : CTodos \cup PyTodos \cup {<<>>}]
  BY DEF Typed, CallerStates
<1>5. caller'[c] \in [at : {"idle", "check", "write", "alive", "wait"}, call : Nat,
                     kind : Kinds \cup {"none"}, todo : CTodos \cup PyTodos \cup {<<>>}]
  BY <1>2, <1>3, <1>4
<1>6. caller' \in CallerStates
  BY <1>1, <1>3, <1>5 DEF Typed, CallerStates
<1>7. Turned(c, a, td)
  BY <1>3, <1>4, <1>6 DEF Turned, Others
<1> QED BY <1>7 DEF td

(* A caller ends its call, or stays with its line, or goes on to the next. *)
CTurn(c) ==
  \/ Ended(c)
  \/ Turned(c, "write", caller[c].todo)
  \/ Turned(c, "wait", caller[c].todo)
  \/ Tail(caller[c].todo) \in CTodos /\ Turned(c, "check", Tail(caller[c].todo))
PyTurn(c) ==
  \/ Ended(c)
  \/ Turned(c, "alive", caller[c].todo)
  \/ Turned(c, "wait", caller[c].todo)
  \/ Tail(caller[c].todo) \in PyTodos /\ Turned(c, "write", Tail(caller[c].todo))

(* The steps of the callers. *)
LEMMA CallEffect ==
  ASSUME Typed, NEW c \in Callers, library = "c", Call(c)
  PROVE  /\ ~Busy(c) /\ caller'[c].at = "check" /\ caller'[c].kind \in Kinds
         /\ caller'[c].todo \in CTodos /\ Head(caller'[c].todo) \notin {"text", "dot"}
         /\ MayCall(caller'[c].kind) /\ Others(c)
         /\ ssipMutex' = IF TakesMutex(caller'[c].kind) THEN c ELSE ssipMutex
         /\ overlap' = (overlap \/ \E d \in Callers \ {c} :
                          Busy(d) /\ ~(TakesMutex(caller'[c].kind) /\ TakesMutex(caller[d].kind)))
<1>1. PICK kind \in Kinds :
        /\ MayCall(kind)
        /\ caller' = [caller EXCEPT ![c] = [at |-> "check", call |-> calls + 1,
                                            kind |-> kind, todo |-> Lines(kind)]]
        /\ ssipMutex' = IF TakesMutex(kind) THEN c ELSE ssipMutex
        /\ overlap' = (overlap \/ \E d \in Callers \ {c} :
                          Busy(d) /\ ~(TakesMutex(kind) /\ TakesMutex(caller[d].kind)))
  BY DEF Call
<1>2. Lines(kind) \in CTodos /\ Head(Lines(kind)) \notin {"text", "dot"}
  BY Begins
<1>3. [at |-> "check", call |-> calls + 1, kind |-> kind, todo |-> Lines(kind)]
        \in [at : {"idle", "check", "write", "alive", "wait"}, call : Nat,
             kind : Kinds \cup {"none"}, todo : CTodos \cup PyTodos \cup {<<>>}]
  BY <1>2 DEF Typed
<1>4. caller'[c] = [at |-> "check", call |-> calls + 1, kind |-> kind, todo |-> Lines(kind)] /\ Others(c)
  BY <1>1, <1>3 DEF Typed, CallerStates, Others
<1> QED BY <1>1, <1>2, <1>4 DEF Call

(* Behind its reply a caller of libspeechd returns or sends the next line. *)
LEMMA ContinuesEffect ==
  ASSUME Typed, NEW c \in Callers, library = "c", Busy(c), Continues(c)
  PROVE  /\ Len(caller[c].todo) = 1 => Ended(c) /\ Returns(c)
         /\ Len(caller[c].todo) # 1 => /\ Turned(c, "check", Tail(caller[c].todo)) /\ ssipMutex' = ssipMutex
                                       /\ Tail(caller[c].todo) \in CTodos
<1>1. caller[c].todo \in CTodos
  BY DEF Typed
<1>2. Len(caller[c].todo) # 1 => Tail(caller[c].todo) \in CTodos
  BY <1>1, TodoFacts
<1> QED BY <1>2, Ends, TurnsOn DEF Continues, Returns

(* A Python call starts when no other is under way, with its own lines.    *)
LEMMA PyCallEffect ==
  ASSUME Typed, NEW c \in Callers, library = "python", PyCall(c)
  PROVE  /\ \A d \in Callers : ~Busy(d)
         /\ caller'[c].at = "write" /\ caller'[c].kind \in Kinds
         /\ caller'[c].todo \in PyTodos /\ Head(caller'[c].todo) # "data" /\ Others(c)
<1>1. PICK kind \in Kinds :
        caller' = [caller EXCEPT ![c] = [at |-> "write", call |-> calls + 1,
                                         kind |-> kind, todo |-> PyLines(kind)]]
  BY DEF PyCall
<1>2. PyLines(kind) \in PyTodos /\ Head(PyLines(kind)) # "data"
  BY Begins
<1>3. [at |-> "write", call |-> calls + 1, kind |-> kind, todo |-> PyLines(kind)]
        \in [at : {"idle", "check", "write", "alive", "wait"}, call : Nat,
             kind : Kinds \cup {"none"}, todo : CTodos \cup PyTodos \cup {<<>>}]
  BY <1>2 DEF Typed
<1>4. caller'[c] = [at |-> "write", call |-> calls + 1, kind |-> kind, todo |-> PyLines(kind)] /\ Others(c)
  BY <1>1, <1>3 DEF Typed, CallerStates, Others
<1> QED BY <1>1, <1>2, <1>4 DEF PyCall

(* Every variable keeps its type, and every caller the form of its call.   *)
LEMMA CallerTyped ==
  ASSUME Typed, library' = library, NEW c \in Callers, Others(c),
         Busy(c)' => /\ caller'[c].kind \in Kinds
                     /\ library = "c" => caller'[c].todo \in CTodos /\ caller'[c].at # "alive"
                     /\ library = "python" => caller'[c].todo \in PyTodos /\ caller'[c].at # "check"
  PROVE  /\ caller' \in CallerStates
         /\ (\A d \in Callers : Busy(d) =>
               /\ caller[d].kind \in Kinds
               /\ library = "c" => caller[d].todo \in CTodos /\ caller[d].at # "alive"
               /\ library = "python" => caller[d].todo \in PyTodos /\ caller[d].at # "check")'
BY DEF Typed, Others, Busy

(* An item the server sends comes last and has the next number.            *)
LEMMA SendsEffect ==
  ASSUME Typed, NEW item \in Item, Sends(item)
  PROVE  /\ fromServer' \in Seq(Item) /\ written' \in Nat /\ written' = written + 1
         /\ DOMAIN fromServer = 1 .. Len(fromServer) /\ DOMAIN fromServer' = 1 .. Len(fromServer) + 1
         /\ Len(fromServer) \in Nat /\ Len(fromServer') = Len(fromServer) + 1
         /\ \A i \in DOMAIN fromServer : fromServer'[i] = fromServer[i]
         /\ \A i : i = Len(fromServer) + 1 =>
              /\ fromServer'[i] \in Item /\ fromServer'[i].n = written + 1
              /\ fromServer'[i].kind = item.kind /\ fromServer'[i].call = item.call
              /\ fromServer'[i].line = item.line /\ fromServer'[i].ok = item.ok
<1> DEFINE x == [item EXCEPT !.n = written + 1]
<1>1. written \in Nat /\ fromServer \in Seq(Item)
  BY DEF Typed
<1>2. x \in Item /\ x.n = written + 1 /\ x.kind = item.kind /\ x.call = item.call /\ x.line = item.line
      /\ x.ok = item.ok
  <2>1. item \in [kind : {"reply", "event"}, call : Nat, line : Line, ok : BOOLEAN, n : Nat]
        /\ written + 1 \in Nat
    BY <1>1 DEF Item
  <2>2. /\ x.kind = item.kind /\ x.call = item.call /\ x.line = item.line /\ x.ok = item.ok
        /\ x.n = written + 1
    BY <2>1
  <2>3. x \in [kind : {"reply", "event"}, call : Nat, line : Line, ok : BOOLEAN, n : Nat]
    BY <2>1
  <2> QED BY <2>2, <2>3 DEF Item
<1>3. fromServer' = Append(fromServer, x) /\ written' = written + 1
  BY DEF Sends
<1> HIDE DEF x
<1>4. /\ fromServer' \in Seq(Item)
      /\ Len(fromServer) \in Nat /\ DOMAIN fromServer = 1 .. Len(fromServer)
      /\ Len(fromServer') = Len(fromServer) + 1
      /\ DOMAIN fromServer' = 1 .. Len(fromServer) + 1
      /\ fromServer'[Len(fromServer) + 1] = x
      /\ \A i \in 1 .. Len(fromServer) : fromServer'[i] = fromServer[i]
  <2> HIDE DEF Item
  <2> QED BY <1>1, <1>2, <1>3, SequenceOps
<1> QED BY <1>1, <1>2, <1>3, <1>4

(* What the server does with a line. *)
LEMMA ReadsEffect ==
  ASSUME Typed, ServerReads, NEW l, l = Head(toServer)
  PROVE  /\ l \in Wire /\ toServer # <<>> /\ toServer' = Tail(toServer) /\ toServer' \in Seq(Wire)
         /\ link /\ link' = link /\ text' \in Seq(Wire) /\ inData' \in BOOLEAN
         /\ texts' \in Seq([call : Nat, text : Seq(Wire), told : Nat])
         /\ \/ \E item \in Item :
                  /\ Sends(item)
                  /\ item.kind = "reply" /\ item.call = l.call /\ item.line = l.line
                  /\ ~inData => inData' = (l.line = "speak" /\ item.ok)
                  /\ inData => l.line = "dot" /\ ~inData'
            \/ inData /\ l.line # "dot" /\ UNCHANGED <<inData, fromServer, written>>
<1>1. /\ l \in Wire /\ toServer # <<>> /\ toServer' = Tail(toServer) /\ toServer' \in Seq(Wire)
      /\ link /\ link' = link
  <2> HIDE DEF Wire
  <2> QED BY SequenceOps DEF ServerReads, Typed
<1>2. \A ok \in BOOLEAN : [kind |-> "reply", call |-> l.call, line |-> l.line, ok |-> ok, n |-> 0] \in Item
  BY <1>1 DEF Wire, Item
<1>3. CASE \E ok \in BOOLEAN : ~inData /\ Answer(l, ok) /\ inData' = (l.line = "speak" /\ ok) /\ text' = <<>> /\ UNCHANGED texts
  <2>1. PICK ok \in BOOLEAN : ~inData /\ Answer(l, ok) /\ inData' = (l.line = "speak" /\ ok)
    BY <1>3
  <2> DEFINE item == [kind |-> "reply", call |-> l.call, line |-> l.line, ok |-> ok, n |-> 0]
  <2>2. /\ item \in Item /\ Sends(item) /\ item.kind = "reply" /\ item.call = l.call /\ item.line = l.line
        /\ item.ok = ok
    BY <1>2, <2>1 DEF Answer
  <2>3. /\ text' \in Seq(Wire) /\ inData' \in BOOLEAN
        /\ texts' \in Seq([call : Nat, text : Seq(Wire), told : Nat])
    BY <1>3 DEF Typed
  <2> HIDE DEF item
  <2> QED BY <1>1, <2>1, <2>2, <2>3
<1>4. CASE inData /\ l.line # "dot" /\ text' = Append(text, l) /\ UNCHANGED <<inData, texts, fromServer, written>>
  <2>1. text' \in Seq(Wire)
    BY <1>1, <1>4, SequenceOps DEF Typed
  <2> QED BY <1>1, <1>4, <2>1 DEF Typed
<1>5. CASE /\ inData /\ l.line = "dot" /\ Answer(l, TRUE) /\ inData' = FALSE /\ text' = <<>>
           /\ texts' = Append(texts, [call |-> l.call, text |-> text, told |-> 0])
  <2>1. [call |-> l.call, text |-> text, told |-> 0] \in [call : Nat, text : Seq(Wire), told : Nat]
    BY <1>1 DEF Wire, Typed
  <2>2. texts' \in Seq([call : Nat, text : Seq(Wire), told : Nat])
    BY <1>5, <2>1, SequenceOps DEF Typed
  <2> DEFINE item == [kind |-> "reply", call |-> l.call, line |-> l.line, ok |-> TRUE, n |-> 0]
  <2>3. item \in Item /\ Sends(item) /\ item.kind = "reply" /\ item.call = l.call /\ item.line = l.line
    BY <1>2, <1>5 DEF Answer
  <2>4. inData /\ ~inData' /\ l.line = "dot" /\ text' = <<>>
    BY <1>5
  <2>5. text' \in Seq(Wire)
    BY <2>4
  <2>6. inData' \in BOOLEAN
    BY <1>5
  <2> HIDE DEF item
  <2> QED BY <1>1, <2>2, <2>3, <2>4, <2>5, <2>6
<1>6. \/ \E ok \in BOOLEAN : ~inData /\ Answer(l, ok) /\ inData' = (l.line = "speak" /\ ok) /\ text' = <<>> /\ UNCHANGED texts
      \/ inData /\ l.line # "dot" /\ text' = Append(text, l) /\ UNCHANGED <<inData, texts, fromServer, written>>
      \/ /\ inData /\ l.line = "dot" /\ Answer(l, TRUE) /\ inData' = FALSE /\ text' = <<>>
         /\ texts' = Append(texts, [call |-> l.call, text |-> text, told |-> 0])
  BY DEF ServerReads
<1> QED BY <1>3, <1>4, <1>5, <1>6

(* ... and what it says by itself.                                         *)
LEMMA ReportsEffect ==
  ASSUME Typed, ServerReports
  PROVE  /\ link /\ UNCHANGED <<link, toServer, inData, text>>
         /\ texts' \in Seq([call : Nat, text : Seq(Wire), told : Nat])
         /\ \E item \in Item : Sends(item) /\ item.kind = "event"
<1>1. PICK i \in DOMAIN texts :
        /\ texts' = [texts EXCEPT ![i].told = @ + 1]
        /\ Sends([kind |-> "event", call |-> texts[i].call, line |-> "none", ok |-> TRUE, n |-> 0])
  BY DEF ServerReports
<1>2. texts \in Seq([call : Nat, text : Seq(Wire), told : Nat])
  BY DEF Typed
<1>3. texts[i] \in [call : Nat, text : Seq(Wire), told : Nat]
  <2> DEFINE S == [call : Nat, text : Seq(Wire), told : Nat]
  <2>1. texts \in Seq(S)
    BY <1>2
  <2> HIDE DEF S
  <2>2. texts[i] \in S
    BY <2>1
  <2> QED BY <2>2 DEF S
<1>4. texts' = [texts EXCEPT ![i] = [texts[i] EXCEPT !.told = texts[i].told + 1]]
  BY <1>1
<1>5. [texts[i] EXCEPT !.told = texts[i].told + 1] \in [call : Nat, text : Seq(Wire), told : Nat]
  BY <1>3
<1>6. texts' \in Seq([call : Nat, text : Seq(Wire), told : Nat])
  <2> DEFINE S == [call : Nat, text : Seq(Wire), told : Nat]
             x == [texts[i] EXCEPT !.told = texts[i].told + 1]
  <2>1. texts \in Seq(S) /\ x \in S /\ texts' = [texts EXCEPT ![i] = x]
    BY <1>2, <1>4, <1>5
  <2> HIDE DEF S, x
  <2>2. texts' \in Seq(S)
    BY <2>1
  <2> QED BY <2>2 DEF S
<1>7. [kind |-> "event", call |-> texts[i].call, line |-> "none", ok |-> TRUE, n |-> 0] \in Item
  BY <1>3 DEF Item, Line
<1> QED BY <1>1, <1>6, <1>7 DEF ServerReports

(* Every step keeps the types.                                             *)
LEMMA TypedStep ==
  ASSUME Typed, OrderInv, PythonInv, [Next]_vars
  PROVE  Typed'
<1> DEFINE Texts == Seq([call : Nat, text : Seq(Wire), told : Nat])
           Server == /\ {link, inData} \subseteq BOOLEAN
                     /\ toServer \in Seq(Wire) /\ text \in Seq(Wire) /\ texts \in Texts
                     /\ fromServer \in Seq(Item) /\ written \in Nat
           Hands  == /\ library \in {"c", "python"} /\ {overlap, socket} \subseteq BOOLEAN
                     /\ reply \in Slot /\ replies \in Seq(Item) /\ {handled, calls} \subseteq Nat
                     /\ handler \in [at : {"read", "callback", "deliver", "ack", "broken", "gone"}, item : Slot]
           Form   == \A d \in Callers : Busy(d) =>
                       /\ caller[d].kind \in Kinds
                       /\ library = "c" => caller[d].todo \in CTodos /\ caller[d].at # "alive"
                       /\ library = "python" => caller[d].todo \in PyTodos /\ caller[d].at # "check"
<1>0. Server /\ Hands /\ caller \in CallerStates /\ Form
  BY DEF Typed
<1>00. SUFFICES Server' /\ Hands' /\ (caller \in CallerStates)' /\ Form'
  BY DEF Typed
<1> HIDE DEF Texts
<1>01. NoItem \in Slot /\ Item \subseteq Slot /\ \A x \in Slot : x.n \in Nat
  BY DEF NoItem, Slot, Item
<1>1. ASSUME UNCHANGED server PROVE Server'
  BY <1>0, <1>1 DEF server
<1>2. ASSUME UNCHANGED <<library, overlap, socket, reply, replies, handled, calls, handler>> PROVE Hands'
  BY <1>0, <1>2
<1>3. ASSUME UNCHANGED <<library, caller>> PROVE (caller \in CallerStates)' /\ Form'
  BY <1>0, <1>3 DEF Busy
<1>4. CASE ServerAnswers
  <2>1. Server'
    <3>1. /\ toServer' \in Seq(Wire) /\ text' \in Seq(Wire) /\ inData' \in BOOLEAN /\ link' = link
          /\ texts' \in Texts
      BY <1>4, ReadsEffect DEF ServerAnswers, Texts
    <3>2. fromServer' \in Seq(Item) /\ written' \in Nat
      BY <1>0, <1>4, ReadsEffect, SendsEffect DEF ServerAnswers
    <3> QED BY <1>0, <3>1, <3>2
  <2> QED BY <1>2, <1>3, <1>4, <2>1 DEF ServerAnswers, program, local
<1>5. CASE ServerSays
  <2>1. Server'
    <3>1. CASE ServerReports
      <4>1. fromServer' \in Seq(Item) /\ written' \in Nat
        BY <3>1, ReportsEffect, SendsEffect
      <4> QED BY <1>0, <3>1, <4>1, ReportsEffect DEF Texts
    <3>2. CASE ServerDies
      <4>1. toServer' \in Seq(Wire)
        BY <3>2 DEF ServerDies
      <4>2. link' = FALSE /\ UNCHANGED <<inData, text, texts, fromServer, written>>
        BY <3>2 DEF ServerDies
      <4> QED BY <1>0, <4>1, <4>2
    <3> QED BY <1>5, <3>1, <3>2 DEF ServerSays
  <2> QED BY <1>2, <1>3, <1>5, <2>1 DEF ServerSays, program, local
<1>6. ASSUME NEW c \in Callers, library = "c", Call(c), UNCHANGED replies
      PROVE  Server' /\ Hands' /\ (caller \in CallerStates)' /\ Form'
  <2>1. Hands' /\ library' = library
    BY <1>0, <1>6, CallEffect DEF Call
  <2>2. (caller \in CallerStates)' /\ Form'
    BY <1>0, <1>6, <2>1, CallEffect, CallerTyped DEF Busy
  <2> QED BY <1>1, <1>6, <2>1, <2>2 DEF Call
<1>7. ASSUME NEW c \in Callers, library = "c", CTurn(c), library' = library, Busy(c)
      PROVE  (caller \in CallerStates)' /\ Form'
  <2>1. Others(c) /\ (Busy(c)' => /\ caller'[c].kind \in Kinds
                                  /\ caller'[c].todo \in CTodos /\ caller'[c].at # "alive")
    BY <1>0, <1>7 DEF Busy, Ended, Idle, Turned, CTurn
  <2> QED BY <1>0, <1>7, <2>1, CallerTyped
<1>8. ASSUME NEW c \in Callers, library = "c", CallerSteps(c), UNCHANGED replies
      PROVE  Server' /\ Hands' /\ (caller \in CallerStates)' /\ Form'
  <2>0. Busy(c) /\ caller[c].todo \in CTodos /\ library' = library
    BY <1>0, <1>8 DEF CallerSteps, Check, Write, Take, Busy
  <2>1. CASE Check(c)
    <3>1. CTurn(c)
      BY <2>1, Ends, Turns DEF Check, Returns, CTurn
    <3> QED BY <1>1, <1>2, <1>7, <1>8, <2>0, <2>1, <3>1 DEF Check
  <2>2. CASE Write(c)
    <3> DEFINE line == Head(caller[c].todo)
    <3>1. line \in Line /\ caller[c].call \in Nat
      BY <1>0, <2>0, TodoFacts DEF CallerStates
    <3>2. [call |-> caller[c].call, line |-> line] \in Wire
      BY <3>1 DEF Wire
    <3>3. Append(toServer, [call |-> caller[c].call, line |-> line]) \in Seq(Wire)
      BY <1>0, <3>2, SequenceOps
    <3>4. Server'
      BY <1>0, <2>2, <3>3 DEF Write
    <3>5. Hands'
      BY <1>2, <1>8, <2>2 DEF Write
    <3>6. Turned(c, "wait", caller[c].todo) \/ Continues(c)
      BY <2>2, Turns DEF Write
    <3>7. CTurn(c)
      BY <1>8, <2>0, <3>6, ContinuesEffect DEF CTurn
    <3> QED BY <1>7, <1>8, <2>0, <3>4, <3>5, <3>7
  <2>3. CASE Take(c)
    <3>1. Ended(c) \/ Continues(c)
      BY <2>3, Ends DEF Take, Returns
    <3>2. CTurn(c)
      BY <1>8, <2>0, <3>1, ContinuesEffect DEF CTurn
    <3>3. reply.n \in Nat
      BY <1>0, <1>01
    <3>4. Hands'
      BY <1>0, <1>01, <1>8, <2>3, <3>3 DEF Take
    <3> QED BY <1>1, <1>7, <1>8, <2>0, <2>3, <3>2, <3>4 DEF Take
  <2> QED BY <1>8, <2>1, <2>2, <2>3 DEF CallerSteps
<1>9. ASSUME library = "c", HandlerSteps, UNCHANGED replies
      PROVE  Server' /\ Hands' /\ (caller \in CallerStates)' /\ Form'
  <2>1. fromServer # <<>> => Head(fromServer) \in Item /\ Tail(fromServer) \in Seq(Item)
    BY <1>0, SequenceOps
  <2>2. handler.item \in Slot /\ handler.item.n \in Nat
    BY <1>0, <1>01
  <2>3. Server'
    BY <1>0, <1>9, <2>1 DEF HandlerSteps, HandlerReads, HandlerCalls, HandlerDelivers, HandlerGoesOn,
          HandlerFails, HandlerGivesUp, server
  <2>4. /\ handler' \in [at : {"read", "callback", "deliver", "ack", "broken", "gone"}, item : Slot]
        /\ reply' \in Slot /\ handled' \in Nat /\ socket' \in BOOLEAN
        /\ UNCHANGED <<library, caller, overlap, calls>>
    <3>1. CASE HandlerReads
      BY <1>0, <1>01, <2>1, <3>1 DEF HandlerReads
    <3>2. CASE HandlerCalls
      BY <1>0, <1>01, <2>2, <3>2 DEF HandlerCalls
    <3>3. CASE HandlerDelivers
      BY <1>0, <1>01, <2>2, <3>3 DEF HandlerDelivers
    <3>4. CASE HandlerGoesOn \/ HandlerFails \/ HandlerGivesUp
      <4>1. /\ handler' = handler \/ \E a \in {"read", "broken", "gone"} : handler' = [at |-> a, item |-> NoItem]
            /\ socket' = socket \/ socket' = FALSE
            /\ UNCHANGED <<reply, handled, library, caller, overlap, calls>>
        BY <3>4 DEF HandlerGoesOn, HandlerFails, HandlerGivesUp
      <4>2. handler' \in [at : {"read", "callback", "deliver", "ack", "broken", "gone"}, item : Slot]
        BY <1>0, <1>01, <4>1
      <4>3. reply' \in Slot /\ handled' \in Nat /\ socket' \in BOOLEAN
        BY <1>0, <4>1
      <4> QED BY <4>1, <4>2, <4>3
    <3> QED BY <1>9, <3>1, <3>2, <3>3, <3>4 DEF HandlerSteps
  <2> QED BY <1>0, <1>3, <1>9, <2>3, <2>4
<1>10. ASSUME NEW c \in Callers, library = "python", PyCall(c), UNCHANGED local
       PROVE  Server' /\ Hands' /\ (caller \in CallerStates)' /\ Form'
  <2>1. Hands' /\ library' = library
    BY <1>0, <1>10 DEF PyCall, local
  <2>2. (caller \in CallerStates)' /\ Form'
    BY <1>0, <1>10, <2>1, PyCallEffect, CallerTyped DEF Busy
  <2> QED BY <1>1, <1>10, <2>1, <2>2 DEF PyCall
<1>11. ASSUME NEW c \in Callers, library = "python", PyTurn(c), library' = library, Busy(c)
      PROVE  (caller \in CallerStates)' /\ Form'
  <2>1. Others(c) /\ (Busy(c)' => /\ caller'[c].kind \in Kinds
                                  /\ caller'[c].todo \in PyTodos /\ caller'[c].at # "check")
    BY <1>0, <1>11 DEF Busy, Ended, Idle, Turned, PyTurn
  <2> QED BY <1>0, <1>11, <2>1, CallerTyped
<1>12. ASSUME NEW c \in Callers, library = "python", PyCallerSteps(c), UNCHANGED local
       PROVE  Server' /\ Hands' /\ (caller \in CallerStates)' /\ Form'
  <2>0. Busy(c) /\ caller[c].todo \in PyTodos /\ library' = library
    BY <1>0, <1>12 DEF PyCallerSteps, PyWrite, PyAlive, PyTake, Busy
  <2>1. CASE PyWrite(c)
    <3>1. PyTurn(c)
      BY <2>1, Ends, Turns DEF PyWrite, PyReturns, Moves, PyTurn
    <3>2. Head(caller[c].todo) \in Line /\ caller[c].call \in Nat
      BY <1>0, <2>0, PyTodoFacts DEF CallerStates
    <3>3. Sent(caller[c].call, Head(caller[c].todo)) \in Seq(Wire)
      <4>1. /\ [call |-> caller[c].call, line |-> "text"] \in Wire
            /\ [call |-> caller[c].call, line |-> "dot"] \in Wire
            /\ [call |-> caller[c].call, line |-> Head(caller[c].todo)] \in Wire
        BY <3>2 DEF Wire, Line
      <4>2. \A x, y \in Wire : <<x, y>> \in Seq(Wire) /\ <<x>> \in Seq(Wire)
        <5> HIDE DEF Wire
        <5> QED OBVIOUS
      <4> QED BY <4>1, <4>2 DEF Sent
    <3>4. toServer \o Sent(caller[c].call, Head(caller[c].todo)) \in Seq(Wire)
      <4> HIDE DEF Wire
      <4> QED BY <1>0, <3>3
    <3>5. Server'
      BY <1>0, <2>1, <3>4 DEF PyWrite
    <3> QED BY <1>2, <1>11, <1>12, <2>0, <2>1, <3>1, <3>5 DEF PyWrite, local
  <2>2. CASE PyAlive(c)
    <3>1. PyTurn(c)
      BY <2>2, Ends, Turns DEF PyAlive, PyReturns, Moves, PyTurn
    <3> QED BY <1>1, <1>2, <1>11, <1>12, <2>0, <2>2, <3>1 DEF PyAlive, local
  <2>3. CASE PyTake(c)
    <3>1. PyTurn(c)
      <4>1. Len(caller[c].todo) # 1 => Tail(caller[c].todo) \in PyTodos
        BY <2>0, PyTodoFacts
      <4> QED BY <2>3, <4>1, Ends, TurnsOn DEF PyTake, PyReturns, PyTurn
    <3>2. replies' \in Seq(Item)
      BY <1>0, <2>3, SequenceOps DEF PyTake
    <3>3. Hands'
      BY <1>0, <1>12, <2>3, <3>2 DEF PyTake, local
    <3> QED BY <1>1, <1>11, <1>12, <2>0, <2>3, <3>1, <3>3 DEF PyTake
  <2> QED BY <1>12, <2>1, <2>2, <2>3 DEF PyCallerSteps
<1>13. ASSUME library = "python", PyHandlerSteps, UNCHANGED local
       PROVE  Server' /\ Hands' /\ (caller \in CallerStates)' /\ Form'
  <2>1. fromServer # <<>> => /\ Head(fromServer) \in Item /\ Tail(fromServer) \in Seq(Item)
                             /\ Append(replies, Head(fromServer)) \in Seq(Item)
    BY <1>0, SequenceOps
  <2>2. Server'
    BY <1>0, <1>13, <2>1 DEF PyHandlerSteps, PyReads, PyCallback, PyFails, server
  <2>3. Hands' /\ UNCHANGED <<library, caller>>
    <3>1. CASE PyReads
      <4>1. /\ handler' = handler \/ handler' = [at |-> "callback", item |-> Head(fromServer)]
            /\ replies' = replies \/ replies' = Append(replies, Head(fromServer))
            /\ UNCHANGED <<library, caller, overlap, calls>> /\ fromServer # <<>>
            /\ UNCHANGED <<socket, reply, handled>>
        BY <1>13, <3>1 DEF PyReads, local
      <4>2. handler' \in [at : {"read", "callback", "deliver", "ack", "broken", "gone"}, item : Slot]
        BY <1>0, <1>01, <2>1, <4>1
      <4>3. replies' \in Seq(Item)
        BY <1>0, <2>1, <4>1
      <4> QED BY <1>0, <4>1, <4>2, <4>3
    <3>2. CASE PyCallback \/ PyFails
      <4>1. /\ \E a \in {"read", "gone"} : handler' = [at |-> a, item |-> NoItem]
            /\ UNCHANGED <<library, caller, overlap, calls, replies>>
            /\ UNCHANGED <<socket, reply, handled>>
        BY <1>13, <3>2 DEF PyCallback, PyFails, local
      <4>2. handler' \in [at : {"read", "callback", "deliver", "ack", "broken", "gone"}, item : Slot]
        BY <1>01, <4>1
      <4> QED BY <1>0, <4>1, <4>2
    <3> QED BY <1>13, <3>1, <3>2 DEF PyHandlerSteps
  <2> QED BY <1>3, <2>2, <2>3
<1>14. CASE UNCHANGED vars
  BY <1>1, <1>2, <1>3, <1>14 DEF vars, program, local
<1> QED BY <1>4, <1>5, <1>6, <1>8, <1>9, <1>10, <1>12, <1>13, <1>14
        DEF Next, Calls, Proceeds, Dispatches

-----------------------------------------------------------------------------
(* The order of replies and events.                                        *)

LEMMA Sizes ==
  ASSUME Typed
  PROVE  /\ handled \in Nat /\ written \in Nat /\ InHand \in {0, 1} /\ NoItem.n = 0
         /\ Len(fromServer) \in Nat /\ DOMAIN fromServer = 1 .. Len(fromServer)
         /\ \A i \in DOMAIN fromServer : fromServer[i] \in Item
         /\ fromServer # <<>> =>
              /\ Head(fromServer) = fromServer[1] /\ Head(fromServer) \in Item
              /\ 1 \in DOMAIN fromServer
              /\ Len(Tail(fromServer)) = Len(fromServer) - 1
              /\ DOMAIN Tail(fromServer) = 1 .. Len(fromServer) - 1
              /\ \A i \in 1 .. Len(fromServer) - 1 : Tail(fromServer)[i] = fromServer[i + 1]
         /\ fromServer = <<>> <=> Len(fromServer) = 0
<1>1. fromServer \in Seq(Item)
  BY DEF Typed
<1>2. /\ Len(fromServer) \in Nat /\ DOMAIN fromServer = 1 .. Len(fromServer)
      /\ \A i \in DOMAIN fromServer : fromServer[i] \in Item
      /\ fromServer = <<>> <=> Len(fromServer) = 0
  <2> HIDE DEF Item
  <2> QED BY <1>1
<1>3. fromServer # <<>> =>
         /\ Head(fromServer) = fromServer[1] /\ Head(fromServer) \in Item
         /\ Len(Tail(fromServer)) = Len(fromServer) - 1
         /\ DOMAIN Tail(fromServer) = 1 .. Len(fromServer) - 1
         /\ \A i \in 1 .. Len(fromServer) - 1 : Tail(fromServer)[i] = fromServer[i + 1]
  <2> HIDE DEF Item
  <2> QED BY <1>1, SequenceOps
<1> QED BY <1>2, <1>3 DEF Typed, InHand, NoItem

(* A step that leaves the events and the library alone keeps their order.  *)
LEMMA OrderFrame ==
  ASSUME OrderInv, UNCHANGED <<library, reply, handler, handled, fromServer, written, socket, replies>>,
         link' => link
  PROVE  OrderInv'
BY DEF OrderInv, InHand

(* Whatever the server sends goes behind what it sent before.              *)
LEMMA OrderSends ==
  ASSUME Typed, OrderInv, NEW item \in Item, Sends(item), link,
         UNCHANGED <<library, reply, handler, handled, socket, replies, link>>
  PROVE  OrderInv'
<1> SUFFICES ASSUME library = "c" PROVE OrderInv'
  BY DEF OrderInv
<1>1. InHand' = InHand
  BY DEF InHand
<1>2. \A i \in DOMAIN fromServer' : fromServer'[i].n = handled + InHand + i
  <2> TAKE i \in DOMAIN fromServer'
  <2>1. CASE i \in DOMAIN fromServer
    BY <2>1, SendsEffect DEF OrderInv
  <2>2. CASE i = Len(fromServer) + 1
    <3>1. fromServer'[i].n = written + 1
      BY <2>2, SendsEffect
    <3>2. written = handled + InHand + Len(fromServer)
      BY DEF OrderInv
    <3>3. {handled, InHand, Len(fromServer)} \subseteq Nat
      BY Sizes
    <3> QED BY <2>2, <3>1, <3>2, <3>3
  <2>3. i \in DOMAIN fromServer \/ i = Len(fromServer) + 1
    BY SendsEffect
  <2> QED BY <2>1, <2>2, <2>3
<1>3. written' = handled + InHand + Len(fromServer')
  <2>1. written' = written + 1 /\ Len(fromServer') = Len(fromServer) + 1
    BY SendsEffect
  <2>2. written = handled + InHand + Len(fromServer)
    BY DEF OrderInv
  <2> QED BY <2>1, <2>2, Sizes
<1> QED BY <1>1, <1>2, <1>3 DEF OrderInv

(* Every step keeps the order of the events.                               *)
LEMMA OrderStep ==
  ASSUME Typed, OrderInv, PythonInv, [Next]_vars
  PROVE  OrderInv'
<1>0. library' = library
  BY DEF Next, ServerAnswers, ServerSays, Dispatches, Calls, Proceeds, Call, PyCall, CallerSteps,
         PyCallerSteps, HandlerSteps, PyHandlerSteps, program, Check, Write, Take, PyWrite, PyAlive,
         PyTake, HandlerReads, HandlerCalls, HandlerDelivers, HandlerGoesOn, HandlerFails,
         HandlerGivesUp, PyReads, PyCallback, PyFails, vars
<1> SUFFICES ASSUME library = "c" PROVE OrderInv'
  BY <1>0 DEF OrderInv
<1>1. CASE ServerAnswers
  <2> PICK l : l = Head(toServer)
    OBVIOUS
  <2>1. UNCHANGED <<library, reply, handler, handled, socket, replies, link>> /\ link
    BY <1>1, ReadsEffect DEF ServerAnswers, program, local
  <2>2. CASE \E item \in Item : Sends(item)
    BY <2>1, <2>2, OrderSends
  <2>3. CASE UNCHANGED <<fromServer, written>>
    BY <2>1, <2>3, OrderFrame
  <2> QED BY <1>1, <2>2, <2>3, ReadsEffect DEF ServerAnswers
<1>2. CASE ServerSays
  <2>1. UNCHANGED <<library, reply, handler, handled, socket, replies>>
    BY <1>2 DEF ServerSays, program, local
  <2>2. CASE ServerReports
    BY <2>1, <2>2, ReportsEffect, OrderSends
  <2>3. CASE ServerDies
    BY <2>1, <2>3, OrderFrame DEF ServerDies
  <2> QED BY <1>2, <2>2, <2>3 DEF ServerSays
<1>3. ASSUME NEW c \in Callers, UNCHANGED replies, Call(c) \/ Check(c) \/ Write(c)
      PROVE  OrderInv'
  <2>1. /\ UNCHANGED <<library, reply, handler, handled, fromServer, written, socket, replies>>
        /\ UNCHANGED link
    BY <1>3 DEF Call, Check, Write, server
  <2> QED BY <2>1, OrderFrame
<1>4. ASSUME NEW c \in Callers, UNCHANGED replies, Take(c)
      PROVE  OrderInv'
  <2>1. /\ UNCHANGED <<library, handler, fromServer, written, socket, link, replies>> /\ reply' = NoItem
        /\ handled' = IF reply = NoItem THEN handled ELSE reply.n
    BY <1>4 DEF Take, server
  <2>2. CASE reply = NoItem
    BY <2>1, <2>2, OrderFrame
  <2>3. CASE reply # NoItem
    <3>1. /\ handled' = handled + 1 /\ handler.at = "ack" /\ InHand = 1 /\ InHand' = 0
      BY <2>1, <2>3 DEF OrderInv, InHand
    <3>2. \A i \in DOMAIN fromServer : fromServer[i].n = handled + 1 + i
      BY <3>1 DEF OrderInv
    <3>3. \A i \in DOMAIN fromServer : fromServer[i].n = handled' + InHand' + i
      BY <3>1, <3>2, Sizes
    <3>4. written = handled' + InHand' + Len(fromServer)
      BY <3>1, Sizes DEF OrderInv
    <3> QED BY <2>1, <3>1, <3>3, <3>4 DEF OrderInv
  <2> QED BY <2>2, <2>3
<1>5. CASE HandlerReads /\ UNCHANGED replies
  <2>1. /\ UNCHANGED <<library, written, socket, link, reply, handled, replies>>
        /\ handler.at = "read" /\ fromServer # <<>> /\ fromServer' = Tail(fromServer)
        /\ handler'.at \in {"callback", "deliver"} /\ handler'.item = Head(fromServer) /\ socket
    BY <1>5 DEF HandlerReads
  <2>2. InHand = 0 /\ InHand' = 1 /\ reply = NoItem
    BY <2>1 DEF OrderInv, InHand
  <2>3. Head(fromServer).n = handled + 1
    <3>1. fromServer[1].n = handled + InHand + 1
      BY <2>1, Sizes DEF OrderInv
    <3> QED BY <2>1, <2>2, <3>1, Sizes
  <2>4. \A i \in DOMAIN fromServer' : fromServer'[i].n = handled + InHand' + i
    <3> TAKE i \in DOMAIN fromServer'
    <3>1. i + 1 \in DOMAIN fromServer /\ fromServer'[i] = fromServer[i + 1] /\ i \in Nat
      BY <2>1, Sizes
    <3>2. fromServer[i + 1].n = handled + InHand + (i + 1)
      BY <3>1 DEF OrderInv
    <3> QED BY <2>2, <3>1, <3>2, Sizes
  <2>5. written = handled + InHand' + Len(fromServer')
    BY <2>1, <2>2, Sizes DEF OrderInv
  <2> QED BY <2>1, <2>2, <2>3, <2>4, <2>5 DEF OrderInv
<1>6. CASE HandlerCalls /\ UNCHANGED replies
  <2>1. /\ UNCHANGED <<library, fromServer, written, socket, link, reply, replies>>
        /\ handler.at = "callback" /\ handler'.at = "read" /\ handled' = handled + 1
    BY <1>6 DEF HandlerCalls, server, OrderInv
  <2>2. InHand = 1 /\ InHand' = 0 /\ reply = NoItem
    BY <2>1 DEF OrderInv, InHand
  <2>3. \A i \in DOMAIN fromServer : fromServer[i].n = handled' + InHand' + i
    <3>1. \A i \in DOMAIN fromServer : fromServer[i].n = handled + 1 + i
      BY <2>2 DEF OrderInv
    <3> QED BY <2>1, <2>2, <3>1, Sizes
  <2>4. written = handled' + InHand' + Len(fromServer)
    BY <2>1, <2>2, Sizes DEF OrderInv
  <2> QED BY <2>1, <2>2, <2>3, <2>4 DEF OrderInv
<1>7. CASE HandlerDelivers /\ UNCHANGED replies
  <2>1. /\ UNCHANGED <<library, fromServer, written, socket, link, handled, replies>>
        /\ handler.at = "deliver" /\ handler'.at = "ack" /\ reply' = handler.item
    BY <1>7 DEF HandlerDelivers, server
  <2>2. reply'.n = handled + 1 /\ reply' # NoItem
    BY <2>1, Sizes DEF OrderInv
  <2>3. InHand = 1 /\ InHand' = 1
    BY <2>1, <2>2 DEF InHand
  <2> QED BY <2>1, <2>2, <2>3 DEF OrderInv
<1>8. CASE (HandlerGoesOn \/ HandlerFails \/ HandlerGivesUp) /\ UNCHANGED replies
  <2>1. /\ UNCHANGED <<library, fromServer, written, link, reply, handled, replies>>
        /\ handler.at \notin {"callback", "deliver"} /\ handler'.at \notin {"callback", "deliver"}
    BY <1>8 DEF HandlerGoesOn, HandlerFails, HandlerGivesUp, server
  <2>2. reply # NoItem => handler'.at = "ack"
    BY <1>8 DEF HandlerGoesOn, HandlerFails, HandlerGivesUp, OrderInv
  <2>3. /\ handler'.at \in {"broken", "gone"} <=> ~socket'
        /\ ~socket' => ~link /\ fromServer = <<>>
    BY <1>8 DEF HandlerGoesOn, HandlerFails, HandlerGivesUp, OrderInv, server
  <2>4. InHand' = InHand
    BY <2>1 DEF InHand
  <2> QED BY <2>1, <2>2, <2>3, <2>4 DEF OrderInv
<1>9. CASE UNCHANGED vars
  BY <1>9, OrderFrame DEF vars, server, program, local
<1> QED BY <1>1, <1>2, <1>3, <1>4, <1>5, <1>6, <1>7, <1>8, <1>9
        DEF Next, Calls, Proceeds, Dispatches, CallerSteps, HandlerSteps

(* Every step keeps what the Python library knows of its connection.       *)
LEMMA PythonStep ==
  ASSUME Typed, PythonInv, [Next]_vars
  PROVE  PythonInv'
<1> SUFFICES ASSUME library = "python" PROVE PythonInv'
  BY DEF PythonInv, Next, ServerAnswers, ServerSays, Dispatches, Calls, Proceeds, Call, PyCall, CallerSteps,
         PyCallerSteps, HandlerSteps, PyHandlerSteps, program, Check, Write, Take, PyWrite, PyAlive,
         PyTake, HandlerReads, HandlerCalls, HandlerDelivers, HandlerGoesOn, HandlerFails,
         HandlerGivesUp, PyReads, PyCallback, PyFails, vars
<1>1. CASE ServerAnswers
  <2> PICK l : l = Head(toServer)
    OBVIOUS
  <2>1. link /\ UNCHANGED <<reply, handler>>
    BY <1>1, ReadsEffect DEF ServerAnswers, program, local
  <2> QED BY <2>1 DEF PythonInv
<1>2. CASE ServerSays
  BY <1>2, ReportsEffect DEF ServerSays, ServerDies, program, local, PythonInv
<1>3. CASE \E c \in Callers : Calls(c) \/ Proceeds(c)
  <2>1. UNCHANGED <<reply, handler, link, fromServer>>
    BY <1>3 DEF Calls, Proceeds, PyCall, PyCallerSteps, PyWrite, PyAlive, PyTake, server, local
  <2> QED BY <2>1 DEF PythonInv
<1>4. CASE Dispatches
  BY <1>4 DEF Dispatches, PyHandlerSteps, PyReads, PyCallback, PyFails, PythonInv, local, server
<1>5. CASE UNCHANGED vars
  BY <1>5 DEF vars, program, local, server, PythonInv
<1> QED BY <1>1, <1>2, <1>3, <1>4, <1>5 DEF Next

-----------------------------------------------------------------------------
(* ssip_mutex: it is held by the caller whose call takes it.               *)
LEMMA MutexStep ==
  ASSUME Typed, MutexInv, [Next]_vars
  PROVE  MutexInv'
<1>0. library' = library
  BY DEF Next, ServerAnswers, ServerSays, Dispatches, Calls, Proceeds, Call, PyCall, CallerSteps,
         PyCallerSteps, HandlerSteps, PyHandlerSteps, program, Check, Write, Take, PyWrite, PyAlive,
         PyTake, HandlerReads, HandlerCalls, HandlerDelivers, HandlerGoesOn, HandlerFails,
         HandlerGivesUp, PyReads, PyCallback, PyFails, vars
<1> SUFFICES ASSUME library = "c" PROVE MutexInv'
  BY <1>0 DEF MutexInv
<1>00. Nobody \notin Callers
  BY LibAssumption
<1>1. ASSUME NEW c \in Callers, Call(c) PROVE MutexInv'
  <2> DEFINE kind == caller'[c].kind
  <2>1. /\ ~Busy(c) /\ Busy(c)' /\ Others(c)
        /\ TakesMutex(kind) => ssipMutex = Nobody
        /\ ssipMutex' = IF TakesMutex(kind) THEN c ELSE ssipMutex
    BY <1>1, CallEffect DEF Busy, MayCall
  <2>2. \A d \in Callers \ {c} : caller'[d] = caller[d] /\ (Busy(d)' <=> Busy(d))
    BY <2>1 DEF Others, Busy
  <2>3. ssipMutex # c
    BY <2>1 DEF MutexInv
  <2>4. CASE TakesMutex(kind)
    BY <1>0, <1>00, <2>1, <2>2, <2>4 DEF MutexInv
  <2>5. CASE ~TakesMutex(kind)
    BY <1>0, <1>00, <2>1, <2>2, <2>3, <2>5 DEF MutexInv
  <2> QED BY <2>4, <2>5
<1>2. ASSUME NEW c \in Callers, Returns(c) PROVE MutexInv'
  <2>1. Ended(c) /\ ssipMutex' = IF ssipMutex = c THEN Nobody ELSE ssipMutex
    BY <1>2, Ends DEF Returns
  <2>2. ~Busy(c)' /\ \A d \in Callers \ {c} : caller'[d] = caller[d] /\ (Busy(d)' <=> Busy(d))
    BY <2>1 DEF Ended, Others, Busy, Idle
  <2> QED BY <1>0, <1>00, <2>1, <2>2 DEF MutexInv
<1>3. ASSUME NEW c \in Callers, NEW a \in {"check", "write", "wait"}, NEW td, Turned(c, a, td), Busy(c),
             ssipMutex' = ssipMutex
      PROVE  MutexInv'
  <2>1. /\ Busy(c)' /\ caller'[c].kind = caller[c].kind
        /\ \A d \in Callers \ {c} : caller'[d] = caller[d] /\ (Busy(d)' <=> Busy(d))
    BY <1>3 DEF Turned, Others, Busy
  <2> QED BY <1>0, <1>3, <2>1 DEF MutexInv
<1>4. ASSUME NEW c \in Callers, Continues(c), Busy(c) PROVE MutexInv'
  BY <1>2, <1>3, <1>4, ContinuesEffect
<1>5. ASSUME NEW c \in Callers, CallerSteps(c) PROVE MutexInv'
  <2>0. Busy(c)
    BY <1>5 DEF CallerSteps, Check, Write, Take, Busy
  <2>1. \/ Returns(c) \/ Continues(c)
        \/ /\ \E a \in {"write", "wait"} : Turned(c, a, caller[c].todo)
           /\ ssipMutex' = ssipMutex
    BY <1>5, Turns DEF CallerSteps, Check, Write, Take
  <2> QED BY <1>2, <1>3, <1>4, <2>0, <2>1
<1>6. CASE ServerAnswers \/ ServerSays \/ Dispatches \/ UNCHANGED vars
  <2>1. UNCHANGED <<caller, ssipMutex>>
    BY <1>6 DEF ServerAnswers, ServerSays, Dispatches, HandlerSteps, PyHandlerSteps, program, local,
          HandlerReads, HandlerCalls, HandlerDelivers, HandlerGoesOn, HandlerFails,
          HandlerGivesUp, PyReads, PyCallback, PyFails, vars
  <2> QED BY <1>0, <2>1 DEF MutexInv, Busy
<1> QED BY <1>1, <1>5, <1>6 DEF Next, Calls, Proceeds

-----------------------------------------------------------------------------
(* One line or one reply at a time.                                        *)

LEMMA RepliesAppend ==
  ASSUME Typed, NEW item \in Item, Sends(item)
  PROVE  /\ \A i \in RepliesIn : i \in RepliesIn' /\ fromServer'[i] = fromServer[i]
         /\ \A i \in RepliesIn' : i \in RepliesIn \/ (item.kind = "reply" /\ i = Len(fromServer) + 1)
         /\ \A i : i = Len(fromServer) + 1 =>
              /\ fromServer'[i].kind = item.kind /\ fromServer'[i].call = item.call
              /\ fromServer'[i].line = item.line /\ fromServer'[i].ok = item.ok
BY SendsEffect DEF RepliesIn

(* Reading one line from the socket moves the others up by one.            *)
LEMMA RepliesTail ==
  ASSUME Typed, CallInv, fromServer # <<>>, fromServer' = Tail(fromServer)
  PROVE  /\ \A i \in RepliesIn' : i + 1 \in RepliesIn /\ fromServer'[i] = fromServer[i + 1] /\ i \in Nat
         /\ 1 \in RepliesIn => RepliesIn' = {}
         /\ 1 \in RepliesIn <=> Head(fromServer).kind = "reply"
         /\ 1 \in RepliesIn => Mine(Head(fromServer))
<1>1. \A i \in RepliesIn' : i + 1 \in RepliesIn /\ fromServer'[i] = fromServer[i + 1] /\ i \in Nat \ {0}
  BY Sizes DEF RepliesIn
<1>2. 1 \in RepliesIn <=> Head(fromServer).kind = "reply"
  BY Sizes DEF RepliesIn
<1>3. 1 \in RepliesIn => RepliesIn' = {}
  <2> SUFFICES ASSUME 1 \in RepliesIn, NEW i \in RepliesIn' PROVE FALSE
    OBVIOUS
  <2>1. i + 1 \in RepliesIn /\ i \in Nat \ {0}
    BY <1>1
  <2>2. i + 1 = 1
    BY <2>1 DEF CallInv
  <2> QED BY <2>1, <2>2
<1>4. 1 \in RepliesIn => Mine(Head(fromServer))
  BY Sizes DEF CallInv
<1> QED BY <1>1, <1>2, <1>3, <1>4

NothingOut ==
  /\ toServer = <<>> /\ RepliesIn = {} /\ handler.at # "deliver" /\ reply = NoItem
  /\ replies # <<>> => handler.at = "gone" /\ Len(replies) = 1

(* With nothing on its way one caller at most may be anywhere but waiting. *)
LEMMA Resumes ==
  ASSUME NothingOut',
         (\A c, d \in Callers : Busy(c) /\ Busy(d) => c = d)',
         \A c \in Callers : caller'[c].at # "wait",
         \A c \in Callers :
           caller'[c].at \in {"check", "write"} /\ Head(caller'[c].todo) \in {"text", "data"} /\ link' => inData'
  PROVE  CallInv'
BY DEF NothingOut, CallInv, Held

(* What the server sends keeps the invariant of the calls.                 *)
LEMMA CallServer ==
  ASSUME Typed, CallInv, OrderInv, PythonInv, ServerAnswers \/ ServerSays
  PROVE  CallInv'
<1>0. UNCHANGED <<library, handler, caller, socket, reply, asleep, replies>>
  BY DEF ServerAnswers, ServerSays, program, local
<1>00. /\ \A c \in Callers : Busy(c)' <=> Busy(c)
       /\ \A c \in Callers : Waiting(c)' <=> Waiting(c)
       /\ \A c \in Callers : Want(c)' = Want(c)
       /\ Held' <=> Held
  BY <1>0 DEF Busy, Waiting, Want, Held
<1>1. CASE ServerAnswers
  <2> PICK l : l = Head(toServer)
    OBVIOUS
  <2>1. /\ l \in Wire /\ toServer # <<>> /\ toServer' = Tail(toServer) /\ link /\ link' = link /\ inData' \in BOOLEAN
    BY <1>1, ReadsEffect DEF ServerAnswers
  <2>2. RepliesIn = {} /\ ~Held
    BY <2>1 DEF CallInv
  <2>3. replies = <<>> /\ handler.at # "deliver" /\ reply = NoItem
    BY <2>1, <2>2 DEF Held, PythonInv, OrderInv, Typed
  <2>4. PICK c \in Callers : OnWire(c)
    BY <2>1 DEF CallInv
  <2>5. Busy(c) /\ \A d \in Callers : Busy(d) => d = c
    BY <2>4 DEF OnWire, Waiting, CallInv, Busy
  <2>6. CASE /\ Waiting(c) /\ Want(c) # "text" /\ toServer = <<Told(c, Want(c))>>
    <3>1. toServer' = <<>> /\ l.call = caller[c].call /\ l.line = Want(c)
      BY <2>1, <2>6, Tuples DEF Told
    <3>2. CASE UNCHANGED <<inData, fromServer, written>>
      <4>1. RepliesIn' = {}
        BY <2>2, <3>2 DEF RepliesIn
      <4> QED BY <1>0, <1>00, <2>1, <2>3, <2>5, <2>6, <3>1, <4>1 DEF CallInv, Busy, Waiting
    <3>3. CASE \E item \in Item :
                  /\ Sends(item)
                  /\ item.kind = "reply" /\ item.call = l.call /\ item.line = l.line
                  /\ ~inData => inData' = (l.line = "speak" /\ item.ok)
                  /\ inData => l.line = "dot" /\ ~inData'
      <4>1. PICK item \in Item :
                  /\ Sends(item)
                  /\ item.kind = "reply" /\ item.call = l.call /\ item.line = l.line
                  /\ ~inData => inData' = (l.line = "speak" /\ item.ok)
                  /\ inData => l.line = "dot" /\ ~inData'
        BY <3>3
      <4>2. \A i \in RepliesIn' : /\ i = Len(fromServer) + 1
                                  /\ fromServer'[i].call = caller[c].call /\ fromServer'[i].line = Want(c)
                                  /\ fromServer'[i].ok = item.ok
        BY <2>2, <3>1, <4>1, RepliesAppend
      <4>3. \A i \in RepliesIn' : MineOf(c, fromServer[i])'
        BY <1>0, <1>00, <2>6, <3>1, <4>1, <4>2 DEF MineOf
      <4>4. \A d \in Callers : caller[d].at \notin {"check", "write"}
        BY <2>5, <2>6 DEF Waiting, Busy
      <4>5. \A i \in RepliesIn' : Mine(fromServer[i])'
        BY <4>3 DEF Mine
      <4>6. \A i, j \in RepliesIn' : i = j
        BY <4>2
      <4> QED BY <1>0, <1>00, <2>2, <2>3, <2>5, <3>1, <4>4, <4>5, <4>6 DEF CallInv
    <3> QED BY <1>1, <3>2, <3>3, ReadsEffect DEF ServerAnswers
  <2>7. CASE Waiting(c) /\ Want(c) = "dot" /\ inData /\ toServer = <<Told(c, "text"), Told(c, "dot")>>
    <3>1. toServer' = <<Told(c, "dot")>> /\ l.line = "text"
      BY <2>1, <2>7, Tuples DEF Told
    <3>2. UNCHANGED <<inData, fromServer>>
      BY <1>1, <2>7, <3>1, ReadsEffect DEF ServerAnswers
    <3>3. OnWire(c)'
      BY <1>0, <1>00, <2>7, <3>1 DEF OnWire, Told
    <3>4. RepliesIn' = {}
      BY <2>2, <3>2 DEF RepliesIn
    <3>5. \A d \in Callers : caller[d].at \notin {"check", "write"}
      BY <2>5, <2>7 DEF Waiting, Busy
    <3> QED BY <1>0, <1>00, <2>1, <2>2, <2>3, <2>5, <3>3, <3>4, <3>5 DEF CallInv
  <2>8. CASE /\ Busy(c) /\ ~Waiting(c) /\ Head(caller[c].todo) = "dot" /\ inData
             /\ toServer = <<Told(c, "text")>>
    <3>1. toServer' = <<>> /\ l.line = "text"
      BY <2>1, <2>8, Tuples DEF Told
    <3>2. UNCHANGED <<inData, fromServer>>
      BY <1>1, <2>8, <3>1, ReadsEffect DEF ServerAnswers
    <3>3. RepliesIn' = {}
      BY <2>2, <3>2 DEF RepliesIn
    <3> QED BY <1>0, <1>00, <2>1, <2>2, <2>3, <2>5, <2>8, <3>1, <3>2, <3>3 DEF CallInv
  <2> QED BY <2>4, <2>6, <2>7, <2>8 DEF OnWire
<1>2. CASE ServerReports /\ UNCHANGED <<program, local, replies>>
  <2>1. UNCHANGED <<link, toServer, inData>>
    BY <1>2, ReportsEffect
  <2>2. PICK item \in Item : Sends(item) /\ item.kind = "event"
    BY <1>2, ReportsEffect
  <2>3. /\ \A i \in RepliesIn' : i \in RepliesIn /\ fromServer'[i] = fromServer[i]
        /\ RepliesIn' = RepliesIn
    BY <2>2, RepliesAppend
  <2>4. \A c \in Callers : OnWire(c)' <=> OnWire(c)
    BY <1>0, <1>00, <2>1 DEF OnWire, Told
  <2>5. \A c \in Callers : \A x : /\ MineOf(c, x) => /\ Waiting(c)' /\ x.call = caller'[c].call /\ x.line = Want(c)'
                                                     /\ x.ok /\ link' /\ Want(c)' = "speak" => inData'
    BY <1>0, <1>00, <2>1 DEF MineOf
  <2>6. \A i \in RepliesIn' : Mine(fromServer[i])'
    BY <2>3, <2>5 DEF CallInv, Mine, MineOf
  <2> QED BY <1>0, <1>00, <2>1, <2>3, <2>4, <2>5, <2>6 DEF CallInv, Mine, MineOf
<1>3. CASE ServerDies /\ UNCHANGED <<program, local, replies>>
  <2>1. toServer' = <<>> /\ ~link' /\ UNCHANGED <<inData, fromServer>>
    BY <1>3 DEF ServerDies
  <2>2. RepliesIn' = RepliesIn
    BY <2>1 DEF RepliesIn
  <2>5. \A c \in Callers : \A x : /\ MineOf(c, x) => /\ Waiting(c)' /\ x.call = caller'[c].call /\ x.line = Want(c)'
    BY <1>0, <1>00, <2>1 DEF MineOf
  <2>6. \A i \in RepliesIn' : Mine(fromServer[i])'
    BY <2>1, <2>2, <2>5 DEF CallInv, Mine, MineOf
  <2> QED BY <1>0, <1>00, <2>1, <2>2, <2>5, <2>6 DEF CallInv, Mine, MineOf
<1> QED BY <1>1, <1>2, <1>3 DEF ServerSays

(* Of two calls that take the mutex one waits for the other to end, so     *)
(* while no calls overlapped a new one finds nobody busy.                  *)
LEMMA AloneInCall ==
  ASSUME Typed, MutexInv, library = "c", NEW c \in Callers, Call(c), ~overlap'
  PROVE  \A d \in Callers : ~Busy(d)
<1> SUFFICES ASSUME NEW d \in Callers, Busy(d) PROVE FALSE
  OBVIOUS
<1>1. d # c /\ ~Busy(c)
  BY CallEffect
<1>2. TakesMutex(caller'[c].kind) /\ TakesMutex(caller[d].kind)
  BY <1>1, CallEffect
<1>3. ssipMutex = Nobody
  BY <1>2, CallEffect DEF MayCall
<1>4. ssipMutex = d
  BY <1>2 DEF MutexInv
<1> QED BY <1>3, <1>4, LibAssumption

(* Nobody waits: nothing is on its way back. *)
LEMMA NobodyWaits ==
  ASSUME CallInv, \A c \in Callers : ~Waiting(c)
  PROVE  /\ RepliesIn = {} /\ handler.at # "deliver" /\ reply = NoItem
         /\ replies # <<>> => handler.at = "gone" /\ Len(replies) = 1
BY DEF CallInv, Mine, MineOf

(* When the only busy caller moves, no second one is busy.                 *)
LEMMA AfterCall ==
  ASSUME NEW c \in Callers, Others(c), \A d \in Callers \ {c} : ~Busy(d)
  PROVE  /\ (\A x, y \in Callers : Busy(x) /\ Busy(y) => x = y)'
         /\ \A d \in Callers \ {c} : caller'[d].at = "idle"
BY DEF Others, Busy

(* So does a thread that calls libspeechd,                                 *)
LEMMA CallC ==
  ASSUME ClientInv, CallInv, library = "c", NEW c \in Callers, Call(c), UNCHANGED replies, ~overlap'
  PROVE  CallInv'
<1> USE DEF ClientInv
<1>1. \A d \in Callers : ~Busy(d)
  BY AloneInCall
<1>2. UNCHANGED <<server, library, socket, reply, asleep, handler>>
  BY DEF Call
<1>3. /\ RepliesIn = {} /\ handler.at # "deliver" /\ reply = NoItem /\ toServer = <<>>
  BY <1>1, NobodyWaits DEF Busy, Waiting, CallInv, OnWire
<1>4. caller'[c].at = "check" /\ Head(caller'[c].todo) \notin {"text", "data"} /\ Others(c)
  BY CallEffect, TodoFacts
<1>5. RepliesIn' = {}
  BY <1>2, <1>3 DEF RepliesIn, server
<1>6. /\ (\A x, y \in Callers : Busy(x) /\ Busy(y) => x = y)'
      /\ \A d \in Callers \ {c} : caller'[d].at = "idle"
  BY <1>1, <1>4, AfterCall
<1>7. NothingOut'
  BY <1>2, <1>3, <1>5 DEF NothingOut, server, OrderInv
<1> QED BY <1>4, <1>6, <1>7, Resumes

(* one that looks at the connection before it writes,                      *)
LEMMA CheckC ==
  ASSUME ClientInv, CallInv, library = "c", NEW c \in Callers, Check(c), UNCHANGED replies
  PROVE  CallInv'
<1> USE DEF ClientInv
<1>1. Busy(c) /\ ~Waiting(c) /\ \A d \in Callers \ {c} : ~Busy(d)
  BY DEF Check, Busy, Waiting, CallInv
<1>2. \A d \in Callers : ~Waiting(d)
  BY <1>1 DEF Busy, Waiting
<1>3. UNCHANGED <<server, library, socket, reply, asleep, handler, overlap>>
  BY DEF Check
<1>4. RepliesIn' = RepliesIn
  BY <1>3 DEF RepliesIn, server
<1>5. CASE socket
  <2>1. Turned(c, "write", caller[c].todo)
    BY <1>5, Turns DEF Check
  <2>2. caller'[c].at = "write" /\ caller'[c].todo = caller[c].todo /\ caller'[c].call = caller[c].call
        /\ Others(c)
    BY <2>1 DEF Turned
  <2>3. /\ (\A x, y \in Callers : Busy(x) /\ Busy(y) => x = y)'
        /\ \A d \in Callers \ {c} : caller'[d].at = "idle"
    BY <1>1, <2>2, AfterCall
  <2>4. toServer # <<>> => OnWire(c)'
    BY <1>1, <1>2, <1>3, <2>2 DEF CallInv, OnWire, Told, server, Busy, Waiting
  <2>5. caller[c].at = "check"
    BY DEF Check
  <2> QED BY <1>2, <1>3, <1>4, <2>2, <2>3, <2>4, <2>5, NobodyWaits DEF CallInv, server, Held
<1>6. CASE ~socket
  <2>1. Ended(c)
    BY <1>6, Ends DEF Check, Returns
  <2>2. ~Busy(c)' /\ Others(c)
    BY <2>1 DEF Ended, Busy, Idle
  <2>3. /\ (\A x, y \in Callers : Busy(x) /\ Busy(y) => x = y)'
        /\ \A d \in Callers : caller'[d].at = "idle"
    BY <1>1, <2>2, AfterCall DEF Busy
  <2>4. ~link /\ toServer = <<>>
    BY <1>6 DEF OrderInv, CallInv
  <2>5. NothingOut'
    BY <1>2, <1>3, <1>4, <2>4, NobodyWaits DEF NothingOut, server
  <2> QED BY <2>3, <2>5, Resumes
<1> QED BY <1>5, <1>6

(* one that writes a line,                                                 *)
LEMMA WriteC ==
  ASSUME ClientInv, CallInv, library = "c", NEW c \in Callers, Write(c), UNCHANGED replies
  PROVE  CallInv'
<1> USE DEF ClientInv
<1> DEFINE line == Head(caller[c].todo)
<1>1. caller[c].at = "write" /\ Busy(c) /\ ~Waiting(c) /\ \A d \in Callers \ {c} : ~Busy(d)
  BY DEF Write, Busy, Waiting, CallInv
<1>2. \A d \in Callers : ~Waiting(d)
  BY <1>1 DEF Busy, Waiting
<1>3. /\ UNCHANGED <<library, link, inData, fromServer, socket, reply, handler>>
      /\ toServer' = IF socket /\ link THEN Append(toServer, Told(c, line)) ELSE toServer
  BY DEF Write, Told
<1>4. RepliesIn' = RepliesIn
  BY <1>3 DEF RepliesIn
<1>5. /\ RepliesIn = {} /\ handler.at # "deliver" /\ reply = NoItem /\ replies = <<>>
  BY <1>2, NobodyWaits DEF OrderInv
<1>6. toServer = <<>> \/ (line = "dot" /\ inData /\ toServer = <<Told(c, "text")>>)
  BY <1>1, <1>2 DEF CallInv, OnWire, Busy
<1>7. caller[c].todo \in CTodos /\ line \notin {"data", "none"}
  BY <1>1, TodoFacts DEF Typed
<1>8. CASE line # "text"
  <2>1. Turned(c, "wait", caller[c].todo) /\ c \in asleep'
    BY <1>8, Turns DEF Write, WaitsForReply
  <2>2. /\ caller'[c].at = "wait" /\ caller'[c].todo = caller[c].todo /\ caller'[c].call = caller[c].call
        /\ Others(c) /\ Waiting(c)'
    BY <2>1 DEF Turned, Waiting
  <2>3. /\ (\A x, y \in Callers : Busy(x) /\ Busy(y) => x = y)'
        /\ \A d \in Callers \ {c} : caller'[d].at = "idle"
    BY <1>1, <2>2, AfterCall
  <2>4. Want(c)' = line /\ \A x : Told(c, x)' = Told(c, x)
    BY <1>7, <2>2 DEF Want, Told
  <2>5. toServer' # <<>> => link' /\ OnWire(c)'
    <3>1. CASE ~link
      BY <1>3, <3>1 DEF CallInv
    <3>2. CASE link
      <4>1. socket
        BY <3>2 DEF OrderInv, Typed
      <4>2. toServer' = Append(toServer, Told(c, line))
        BY <1>3, <3>2, <4>1
      <4>3. CASE toServer = <<>>
        <5>1. toServer' = <<Told(c, line)>>
          BY <4>2, <4>3
        <5> QED BY <1>3, <1>8, <2>2, <2>4, <3>2, <5>1 DEF OnWire
      <4>4. CASE line = "dot" /\ inData /\ toServer = <<Told(c, "text")>>
        <5>1. toServer' = <<Told(c, "text"), Told(c, "dot")>>
          <6>1. Told(c, "text") \in Wire /\ Told(c, "dot") \in Wire
            BY DEF Told, Wire, Line, Typed, CallerStates
          <6> QED BY <4>2, <4>4, <6>1, AppendPair
        <5>2. Want(c)' = "dot" /\ inData' /\ link'
          BY <1>3, <2>4, <3>2, <4>4
        <5>3. toServer' = <<Told(c, "text")', Told(c, "dot")'>>
          BY <2>4, <5>1
        <5> QED BY <2>2, <5>2, <5>3 DEF OnWire
      <4> QED BY <1>6, <4>3, <4>4
    <3> QED BY <3>1, <3>2
  <2> QED BY <1>3, <1>4, <1>5, <2>1, <2>2, <2>3, <2>5 DEF CallInv, Held
<1>9. CASE line = "text"
  <2>1. Continues(c) /\ Len(caller[c].todo) # 1 /\ Head(Tail(caller[c].todo)) = "dot"
    BY <1>7, <1>9, TodoFacts DEF Write, WaitsForReply
  <2>2. Turned(c, "check", Tail(caller[c].todo)) /\ asleep' = asleep
    BY <1>1, <1>9, <2>1, ContinuesEffect DEF Write, WaitsForReply
  <2>3. /\ caller'[c].at = "check" /\ Head(caller'[c].todo) = "dot" /\ caller'[c].call = caller[c].call
        /\ Others(c) /\ ~Waiting(c)' /\ Busy(c)'
    BY <2>1, <2>2 DEF Turned, Waiting, Busy
  <2>4. /\ (\A x, y \in Callers : Busy(x) /\ Busy(y) => x = y)'
        /\ \A d \in Callers \ {c} : caller'[d].at = "idle"
    BY <1>1, <2>3, AfterCall
  <2>5. toServer = <<>> /\ (link => inData)
    BY <1>1, <1>6, <1>9 DEF CallInv
  <2>6. toServer' # <<>> => link' /\ OnWire(c)'
    <3>1. CASE socket /\ link
      <4>1. toServer' = <<Told(c, "text")>>
        BY <1>3, <1>9, <2>5, <3>1
      <4> QED BY <1>3, <2>3, <2>5, <3>1, <4>1 DEF OnWire, Told
    <3>2. CASE ~(socket /\ link)
      BY <1>3, <2>5, <3>2
    <3> QED BY <3>1, <3>2
  <2> QED BY <1>3, <1>4, <1>5, <2>3, <2>4, <2>6 DEF CallInv, Held
<1> QED BY <1>8, <1>9

(* one that takes its reply,                                               *)
LEMMA TakeC ==
  ASSUME ClientInv, CallInv, library = "c", NEW c \in Callers, Take(c), UNCHANGED replies
  PROVE  CallInv'
<1> USE DEF ClientInv
<1>1. /\ caller[c].at = "wait" /\ c \notin asleep /\ Busy(c) /\ Waiting(c)
      /\ \A d \in Callers \ {c} : ~Busy(d) /\ ~Waiting(d)
  BY DEF Take, Busy, Waiting, CallInv
<1>2. UNCHANGED <<library, link, toServer, inData, fromServer, socket, handler>> /\ reply' = NoItem
  BY DEF Take, server
<1>3. RepliesIn' = RepliesIn
  BY <1>2 DEF RepliesIn
<1>4. caller[c].todo \in CTodos /\ replies = <<>>
  BY <1>1 DEF Typed, OrderInv
<1>5. CASE reply = NoItem
  <2>1. handler.at = "gone"
    BY <1>1, <1>5 DEF CallInv
  <2>2. ~link /\ fromServer = <<>> /\ toServer = <<>>
    BY <2>1 DEF OrderInv, CallInv
  <2>3. RepliesIn = {}
    BY <2>2 DEF RepliesIn
  <2>4. Ended(c)
    BY <1>5, Ends DEF Take, StopsAt, Returns
  <2>5. Others(c) /\ caller'[c].at = "idle"
    BY <2>4 DEF Ended, Idle
  <2>6. /\ (\A x, y \in Callers : Busy(x) /\ Busy(y) => x = y)'
        /\ \A d \in Callers \ {c} : caller'[d].at = "idle"
    BY <1>1, <2>5, AfterCall
  <2>7. NothingOut'
    BY <1>2, <1>3, <1>4, <2>1, <2>2, <2>3 DEF NothingOut
  <2> QED BY <2>5, <2>6, <2>7, Resumes
<1>6. CASE reply # NoItem
  <2>1. MineOf(c, reply)
    BY <1>1, <1>6 DEF CallInv, Mine, MineOf
  <2>2. Held /\ toServer = <<>> /\ RepliesIn = {} /\ handler.at = "ack"
    BY <1>6 DEF Held, CallInv, OrderInv
  <2>3. NothingOut'
    BY <1>2, <1>3, <1>4, <2>2 DEF NothingOut
  <2>4. Want(c) = Head(caller[c].todo)
    BY <1>4, TodoFacts DEF Want
  <2>5. CASE Ended(c)
    <3>1. Others(c) /\ caller'[c].at = "idle"
      BY <2>5 DEF Ended, Idle
    <3>2. /\ (\A x, y \in Callers : Busy(x) /\ Busy(y) => x = y)'
          /\ \A d \in Callers \ {c} : caller'[d].at = "idle"
      BY <1>1, <3>1, AfterCall
    <3> QED BY <2>3, <3>1, <3>2, Resumes
  <2>6. CASE Turned(c, "check", Tail(caller[c].todo)) /\ Len(caller[c].todo) # 1 /\ reply.ok
    <3>1. Others(c) /\ caller'[c].at = "check" /\ caller'[c].todo = Tail(caller[c].todo)
      BY <2>6 DEF Turned
    <3>2. /\ (\A x, y \in Callers : Busy(x) /\ Busy(y) => x = y)'
          /\ \A d \in Callers \ {c} : caller'[d].at = "idle"
      BY <1>1, <3>1, AfterCall
    <3>3. Head(caller'[c].todo) = "text" /\ link => inData
      BY <1>4, <2>1, <2>4, <2>6, <3>1, TodoFacts DEF MineOf
    <3>4. Head(caller'[c].todo) # "data"
      BY <1>4, <2>6, <3>1, TodoFacts
    <3> QED BY <1>2, <2>3, <3>1, <3>2, <3>3, <3>4, Resumes
  <2>7. Returns(c) \/ (Continues(c) /\ reply.ok)
    BY <1>6 DEF Take, StopsAt
  <2>8. Ended(c) \/ (Turned(c, "check", Tail(caller[c].todo)) /\ Len(caller[c].todo) # 1 /\ reply.ok)
    BY <1>1, <2>7, Ends, ContinuesEffect DEF Returns
  <2> QED BY <2>5, <2>6, <2>8
<1> QED BY <1>5, <1>6

(* and the events thread that reads, hands over a reply, or gives up.      *)
LEMMA HandlerC ==
  ASSUME ClientInv, CallInv, library = "c", HandlerSteps, UNCHANGED replies
  PROVE  CallInv'
<1> USE DEF ClientInv
<1>1. UNCHANGED <<library, caller, link, toServer, inData>>
  BY DEF HandlerSteps, HandlerReads, HandlerCalls, HandlerDelivers, HandlerGoesOn, HandlerFails,
         HandlerGivesUp, server
<1>2. /\ \A c \in Callers : (Busy(c)' <=> Busy(c)) /\ (Waiting(c)' <=> Waiting(c))
      /\ \A c \in Callers : Want(c)' = Want(c)
      /\ \A c \in Callers : OnWire(c)' <=> OnWire(c)
      /\ replies = <<>>
  BY <1>1 DEF Busy, Waiting, Want, OnWire, Told, OrderInv
<1>3. ASSUME NEW x, NEW y, Mine(x), y = x
      PROVE  /\ \E c \in Callers : /\ Waiting(c)' /\ y.call = caller'[c].call /\ y.line = Want(c)'
                                   /\ y.ok /\ link' /\ Want(c)' = "speak" => inData'
  BY <1>1, <1>2, <1>3 DEF Mine, MineOf
<1>4. CASE HandlerReads
  <2>1. /\ handler.at = "read" /\ fromServer # <<>> /\ fromServer' = Tail(fromServer)
        /\ UNCHANGED <<reply, asleep>> /\ handler'.item = Head(fromServer)
        /\ handler'.at = IF Head(fromServer).kind = "event" THEN "callback" ELSE "deliver"
        /\ reply = NoItem
    BY <1>4 DEF HandlerReads, OrderInv
  <2>2. \A c \in Callers : ~(caller[c].at = "wait" /\ c \notin asleep)
    BY <2>1 DEF CallInv
  <2>3. CASE Head(fromServer).kind = "reply"
    <3>1. RepliesIn' = {} /\ RepliesIn # {} /\ Mine(Head(fromServer))
      BY <2>1, <2>3, RepliesTail
    <3>2. Mine(handler.item)'
      BY <1>3, <2>1, <3>1 DEF Mine, MineOf
    <3>3. toServer = <<>>
      BY <3>1 DEF CallInv
    <3> QED BY <1>1, <1>2, <2>1, <2>2, <3>1, <3>2, <3>3 DEF CallInv
  <2>4. CASE Head(fromServer).kind = "event"
    <3>1. /\ \A i \in RepliesIn' : i + 1 \in RepliesIn /\ fromServer'[i] = fromServer[i + 1] /\ i \in Nat
      BY <2>1, <2>4, RepliesTail
    <3>2. \A i \in RepliesIn' : Mine(fromServer[i])'
      <4> TAKE i \in RepliesIn'
      <4>1. Mine(fromServer[i + 1]) /\ fromServer'[i] = fromServer[i + 1]
        BY <3>1 DEF CallInv
      <4> QED BY <1>3, <4>1 DEF Mine, MineOf
    <3>3. \A i, j \in RepliesIn' : i = j
      <4> TAKE i, j \in RepliesIn'
      <4>1. i + 1 = j + 1 /\ i \in Nat /\ j \in Nat
        BY <3>1 DEF CallInv
      <4> QED BY <4>1
    <3>4. ~Held' /\ handler'.at = "callback"
      BY <1>2, <2>1, <2>4 DEF Held
    <3> QED BY <1>1, <1>2, <2>1, <2>2, <3>1, <3>2, <3>3, <3>4 DEF CallInv
  <2>5. Head(fromServer).kind \in {"reply", "event"}
    BY <2>1, Sizes DEF Item
  <2> QED BY <2>3, <2>4, <2>5
<1>5. CASE HandlerCalls
  <2>1. /\ handler.at = "callback" /\ handler'.at = "read" /\ UNCHANGED <<fromServer, reply, asleep>>
        /\ reply = NoItem
    BY <1>5 DEF HandlerCalls, server, OrderInv
  <2>2. RepliesIn' = RepliesIn
    BY <2>1 DEF RepliesIn
  <2>3. \A i \in RepliesIn' : Mine(fromServer[i])'
    <3> TAKE i \in RepliesIn'
    <3>1. Mine(fromServer[i]) /\ fromServer'[i] = fromServer[i]
      BY <2>1, <2>2 DEF CallInv
    <3> QED BY <1>3, <3>1 DEF Mine, MineOf
  <2>4. \A c \in Callers : ~(caller[c].at = "wait" /\ c \notin asleep)
    BY <2>1 DEF CallInv
  <2>5. ~Held'
    BY <1>2, <2>1 DEF Held
  <2> QED BY <1>1, <1>2, <2>1, <2>2, <2>3, <2>4, <2>5 DEF CallInv
<1>6. CASE HandlerDelivers
  <2>1. /\ handler.at = "deliver" /\ handler'.at = "ack" /\ UNCHANGED fromServer
        /\ reply' = handler.item
    BY <1>6 DEF HandlerDelivers, server
  <2>2. reply' # NoItem
    BY <2>1, Sizes DEF OrderInv
  <2>3. Held /\ toServer = <<>> /\ RepliesIn = {} /\ Mine(handler.item)
    BY <2>1 DEF Held, CallInv
  <2>4. RepliesIn' = {}
    BY <2>1, <2>3 DEF RepliesIn
  <2>5. Mine(reply)'
    BY <1>3, <2>1, <2>3 DEF Mine, MineOf
  <2> QED BY <1>1, <1>2, <2>1, <2>2, <2>3, <2>4, <2>5 DEF CallInv
<1>7. CASE HandlerGoesOn \/ HandlerFails \/ HandlerGivesUp
  <2>1. /\ UNCHANGED <<fromServer, reply>>
        /\ handler.at \in {"ack", "read", "broken"} /\ handler'.at \in {"ack", "read", "broken", "gone"}
        /\ handler.at = "broken" => handler'.at = "gone"
    BY <1>7 DEF HandlerGoesOn, HandlerFails, HandlerGivesUp, server
  <2>2. RepliesIn' = RepliesIn
    BY <2>1 DEF RepliesIn
  <2>3. \A i \in RepliesIn' : Mine(fromServer[i])'
    <3> TAKE i \in RepliesIn'
    <3>1. Mine(fromServer[i]) /\ fromServer'[i] = fromServer[i]
      BY <2>1, <2>2 DEF CallInv
    <3> QED BY <1>3, <3>1 DEF Mine, MineOf
  <2>4. \A c \in Callers :
          caller[c].at = "wait" /\ c \notin asleep' /\ reply = NoItem => handler'.at = "gone"
    <3>1. CASE handler.at = "broken"
      BY <2>1, <3>1
    <3>2. CASE handler.at # "broken"
      <4>1. \A c \in Callers : c \notin asleep' => c \notin asleep
        BY <1>7, <3>2, LibAssumption DEF HandlerGoesOn, HandlerFails, HandlerGivesUp
      <4> QED BY <2>1, <4>1 DEF CallInv
    <3> QED BY <3>1, <3>2
  <2>5. Held' <=> Held
    BY <1>2, <2>1 DEF Held
  <2>6. reply' # NoItem => Mine(reply)'
    BY <1>3, <2>1 DEF CallInv, Mine, MineOf
  <2> QED BY <1>1, <1>2, <2>1, <2>2, <2>3, <2>4, <2>5, <2>6 DEF CallInv
<1> QED BY <1>4, <1>5, <1>6, <1>7 DEF HandlerSteps

-----------------------------------------------------------------------------
(* The same for the Python library.                                        *)
LEMMA CallPy ==
  ASSUME ClientInv, CallInv, library = "python", NEW c \in Callers, PyCall(c), UNCHANGED local
  PROVE  CallInv'
<1> USE DEF ClientInv
<1>1. \A d \in Callers : ~Busy(d)
  BY DEF PyCall
<1>2. UNCHANGED <<server, library, socket, reply, asleep, handler, replies>>
  BY DEF PyCall, local
<1>3. NothingOut
  BY <1>1, NobodyWaits DEF Busy, Waiting, CallInv, OnWire, NothingOut
<1>4. caller'[c].at = "write" /\ Head(caller'[c].todo) \notin {"text", "data"} /\ Others(c)
  BY PyCallEffect, PyTodoFacts
<1>5. NothingOut'
  BY <1>2, <1>3 DEF NothingOut, RepliesIn, server
<1>6. /\ (\A x, y \in Callers : Busy(x) /\ Busy(y) => x = y)'
      /\ \A d \in Callers \ {c} : caller'[d].at = "idle"
  BY <1>1, <1>4, AfterCall
<1> QED BY <1>4, <1>5, <1>6, Resumes

(* A Python caller that writes a line keeps the invariant of the calls,    *)
LEMMA WritePy ==
  ASSUME ClientInv, CallInv, library = "python", NEW c \in Callers, PyWrite(c), UNCHANGED local
  PROVE  CallInv'
<1> USE DEF ClientInv
<1> DEFINE line == Head(caller[c].todo)
<1>1. caller[c].at = "write" /\ Busy(c) /\ ~Waiting(c) /\ \A d \in Callers \ {c} : ~Busy(d)
  BY DEF PyWrite, Busy, Waiting, CallInv
<1>2. \A d \in Callers : ~Waiting(d)
  BY <1>1 DEF Busy, Waiting
<1>3. UNCHANGED <<library, link, inData, fromServer, socket, reply, asleep, handler, replies>>
  BY DEF PyWrite, local
<1>4. RepliesIn' = RepliesIn
  BY <1>3 DEF RepliesIn
<1>5. /\ RepliesIn = {} /\ handler.at # "deliver" /\ reply = NoItem
      /\ replies # <<>> => handler.at = "gone" /\ Len(replies) = 1
  BY <1>2, NobodyWaits
<1>6. caller[c].todo \in PyTodos /\ line \notin {"text", "dot", "none"}
  BY <1>1, PyTodoFacts DEF Typed
<1>7. toServer = <<>>
  BY <1>1, <1>2, <1>6 DEF CallInv, OnWire, Busy
<1>8. ASSUME Turned(c, "alive", caller[c].todo), toServer' # <<>> => link /\ toServer' = Sent(caller[c].call, line)
      PROVE  CallInv'
  <2>1. /\ caller'[c].at = "alive" /\ caller'[c].todo = caller[c].todo /\ caller'[c].call = caller[c].call
        /\ Others(c) /\ Waiting(c)'
    BY <1>8 DEF Turned, Waiting
  <2>2. /\ (\A x, y \in Callers : Busy(x) /\ Busy(y) => x = y)'
        /\ \A d \in Callers \ {c} : caller'[d].at = "idle"
    BY <1>1, <2>1, AfterCall
  <2>3. Want(c)' = Want(c) /\ \A x : Told(c, x)' = Told(c, x)
    BY <2>1 DEF Want, Told
  <2>4. toServer' # <<>> => link' /\ ~Held' /\ OnWire(c)'
    <3> SUFFICES ASSUME toServer' # <<>> PROVE link' /\ ~Held' /\ OnWire(c)'
      OBVIOUS
    <3>1. link /\ toServer' = Sent(caller[c].call, line)
      BY <1>8
    <3>2. ~Held'
      BY <1>3, <1>5, <3>1 DEF Held, PythonInv
    <3>3. CASE line = "data"
      <4>1. inData /\ Want(c) = "dot"
        BY <1>1, <3>1, <3>3 DEF CallInv, Want
      <4>2. toServer' = <<Told(c, "text"), Told(c, "dot")>>
        BY <3>1, <3>3 DEF Sent, Told
      <4>3. Want(c)' = "dot" /\ inData' /\ toServer' = <<Told(c, "text")', Told(c, "dot")'>>
        BY <1>3, <2>3, <4>1, <4>2
      <4> QED BY <1>3, <2>1, <3>1, <3>2, <4>3 DEF OnWire
    <3>4. CASE line # "data"
      <4>1. Want(c) = line /\ toServer' = <<Told(c, line)>>
        BY <3>1, <3>4 DEF Sent, Told, Want
      <4>2. Want(c)' # "text" /\ toServer' = <<Told(c, Want(c))'>>
        <5>1. Told(c, line)' = Told(c, line) /\ Want(c)' = line
          BY <2>1, <2>3, <4>1 DEF Told
        <5>2. Told(c, Want(c))' = Told(c, line)
          BY <2>1, <5>1 DEF Told
        <5> QED BY <1>6, <4>1, <5>1, <5>2
      <4> QED BY <1>3, <2>1, <3>1, <3>2, <4>2 DEF OnWire
    <3> QED BY <3>3, <3>4
  <2> QED BY <1>3, <1>4, <1>5, <2>1, <2>2, <2>4 DEF CallInv
<1>9. ASSUME Ended(c), toServer' = toServer
      PROVE  CallInv'
  <2>1. Others(c) /\ caller'[c].at = "idle"
    BY <1>9 DEF Ended, Idle
  <2>2. /\ (\A x, y \in Callers : Busy(x) /\ Busy(y) => x = y)'
        /\ \A d \in Callers \ {c} : caller'[d].at = "idle"
    BY <1>1, <2>1, AfterCall
  <2>3. NothingOut'
    BY <1>3, <1>4, <1>5, <1>7, <1>9 DEF NothingOut
  <2> QED BY <2>1, <2>2, <2>3, Resumes
<1>10. CASE link
  <2>1. Turned(c, "alive", caller[c].todo) /\ toServer' = toServer \o Sent(caller[c].call, line)
    BY <1>10, Turns DEF PyWrite, Moves
  <2>2. Sent(caller[c].call, line) \in Seq(Wire)
    <3>1. /\ [call |-> caller[c].call, line |-> "text"] \in Wire
          /\ [call |-> caller[c].call, line |-> "dot"] \in Wire
          /\ [call |-> caller[c].call, line |-> line] \in Wire
      BY <1>6, PyTodoFacts DEF Wire, Line, Typed, CallerStates
    <3>2. \A x, y \in Wire : <<x, y>> \in Seq(Wire) /\ <<x>> \in Seq(Wire)
      <4> HIDE DEF Wire
      <4> QED OBVIOUS
    <3> QED BY <3>1, <3>2 DEF Sent
  <2>3. toServer' = Sent(caller[c].call, line)
    <3> HIDE DEF Wire
    <3> QED BY <1>7, <2>1, <2>2
  <2> QED BY <1>8, <1>10, <2>1, <2>3
<1>11. CASE ~link
  <2>1. (Turned(c, "alive", caller[c].todo) \/ Ended(c)) /\ toServer' = toServer
    BY <1>11, Turns, Ends DEF PyWrite, Moves, PyReturns
  <2> QED BY <1>7, <1>8, <1>9, <2>1
<1> QED BY <1>10, <1>11

(* one that looks whether the communication thread is alive,               *)
LEMMA AlivePy ==
  ASSUME ClientInv, CallInv, library = "python", NEW c \in Callers, PyAlive(c), UNCHANGED local
  PROVE  CallInv'
<1> USE DEF ClientInv
<1>1. caller[c].at = "alive" /\ Waiting(c) /\ Busy(c) /\ \A d \in Callers \ {c} : ~Busy(d) /\ ~Waiting(d)
  BY DEF PyAlive, Busy, Waiting, CallInv
<1>2. UNCHANGED <<library, link, toServer, inData, fromServer, socket, reply, asleep, handler, replies>>
  BY DEF PyAlive, local, server
<1>3. RepliesIn' = RepliesIn
  BY <1>2 DEF RepliesIn
<1>4. CASE handler.at = "gone"
  <2>1. Ended(c)
    BY <1>4, Ends DEF PyAlive, PyReturns
  <2>2. Others(c) /\ caller'[c].at = "idle"
    BY <2>1 DEF Ended, Idle
  <2>3. /\ (\A x, y \in Callers : Busy(x) /\ Busy(y) => x = y)'
        /\ \A d \in Callers \ {c} : caller'[d].at = "idle"
    BY <1>1, <2>2, AfterCall
  <2>4. ~link /\ fromServer = <<>> /\ toServer = <<>> /\ reply = NoItem
    BY <1>4 DEF PythonInv, CallInv
  <2>5. RepliesIn = {}
    BY <2>4 DEF RepliesIn
  <2>6. NothingOut'
    BY <1>2, <1>3, <1>4, <2>4, <2>5 DEF NothingOut, CallInv
  <2> QED BY <2>2, <2>3, <2>6, Resumes
<1>5. CASE handler.at # "gone"
  <2>1. Turned(c, "wait", caller[c].todo)
    BY <1>5, Turns DEF PyAlive, Moves
  <2>2. /\ caller'[c].at = "wait" /\ caller'[c].todo = caller[c].todo /\ caller'[c].call = caller[c].call
        /\ Others(c) /\ Waiting(c)'
    BY <2>1 DEF Turned, Waiting
  <2>3. /\ (\A x, y \in Callers : Busy(x) /\ Busy(y) => x = y)'
        /\ \A d \in Callers \ {c} : caller'[d].at = "idle"
    BY <1>1, <2>2, AfterCall
  <2>4. Want(c)' = Want(c) /\ \A x : Told(c, x)' = Told(c, x)
    BY <2>2 DEF Want, Told
  <2>5. ASSUME NEW x, NEW y, Mine(x), y = x
        PROVE  /\ Waiting(c)' /\ y.call = caller'[c].call /\ y.line = Want(c)'
               /\ y.ok /\ link' /\ Want(c)' = "speak" => inData'
    BY <1>1, <1>2, <2>2, <2>4, <2>5 DEF Mine, MineOf
  <2>6. \A i \in RepliesIn' : Mine(fromServer[i])'
    <3> TAKE i \in RepliesIn'
    <3>1. Mine(fromServer[i]) /\ fromServer'[i] = fromServer[i]
      BY <1>2, <1>3 DEF CallInv
    <3> QED BY <2>5, <3>1 DEF Mine, MineOf
  <2>7. replies' # <<>> => MineOf(c, Head(replies))'
    <3> SUFFICES ASSUME replies # <<>> PROVE MineOf(c, Head(replies))'
      BY <1>2
    <3>1. Mine(Head(replies)) /\ Head(replies') = Head(replies)
      BY <1>2, <1>5 DEF CallInv
    <3> QED BY <2>5, <3>1 DEF MineOf
  <2>8. toServer # <<>> => OnWire(c)'
    <3> SUFFICES ASSUME toServer # <<>> PROVE OnWire(c)'
      OBVIOUS
    <3>1. OnWire(c)
      BY <1>1 DEF CallInv, OnWire
    <3>2. Told(c, Want(c))' = Told(c, Want(c))
      BY <2>2, <2>4 DEF Told
    <3> QED BY <1>1, <1>2, <2>2, <2>4, <3>1, <3>2 DEF OnWire
  <2>9. Held' <=> Held
    BY <1>2 DEF Held
  <2>10. handler.at # "deliver" /\ reply = NoItem
    BY DEF PythonInv
  <2>11. \A d \in Callers : caller'[d].at = "wait" => d = c
    BY <2>3
  <2>12. replies' # <<>> => Len(replies') = 1 /\ Mine(Head(replies))'
    BY <1>2, <2>7 DEF CallInv, Mine
  <2>13. replies' # <<>> => \A d \in Callers : caller'[d].at = "wait" => MineOf(d, Head(replies))'
    BY <2>7, <2>11
  <2> QED BY <1>2, <1>3, <2>2, <2>3, <2>6, <2>8, <2>9, <2>10, <2>12, <2>13 DEF CallInv
<1> QED BY <1>4, <1>5

(* one that takes its reply,                                               *)
LEMMA TakePy ==
  ASSUME ClientInv, CallInv, library = "python", NEW c \in Callers, PyTake(c), UNCHANGED local
  PROVE  CallInv'
<1> USE DEF ClientInv
<1> DEFINE r == Head(replies)
<1>1. /\ caller[c].at = "wait" /\ Waiting(c) /\ Busy(c) /\ replies # <<>>
      /\ \A d \in Callers \ {c} : ~Busy(d) /\ ~Waiting(d)
  BY DEF PyTake, Busy, Waiting, CallInv
<1>2. UNCHANGED <<library, link, toServer, inData, fromServer, socket, reply, asleep, handler>>
      /\ replies' = Tail(replies)
  BY DEF PyTake, local, server
<1>3. RepliesIn' = RepliesIn
  BY <1>2 DEF RepliesIn
<1>4. MineOf(c, r) /\ Len(replies) = 1
  BY <1>1 DEF CallInv
<1>5. replies' = <<>>
  <2>1. replies \in Seq(Item)
    BY DEF Typed
  <2> HIDE DEF Item
  <2> QED BY <1>2, <1>4, <2>1
<1>6. toServer = <<>> /\ RepliesIn = {}
  <2>1. CASE handler.at = "gone"
    BY <2>1 DEF PythonInv, CallInv, RepliesIn
  <2>2. CASE handler.at # "gone"
    BY <1>1, <2>2 DEF CallInv, Held
  <2> QED BY <2>1, <2>2
<1>7. NothingOut'
  BY <1>2, <1>3, <1>5, <1>6 DEF NothingOut, PythonInv
<1>8. caller[c].todo \in PyTodos
  BY <1>1 DEF Typed
<1>9. CASE Ended(c)
  <2>1. Others(c) /\ caller'[c].at = "idle"
    BY <1>9 DEF Ended, Idle
  <2>2. /\ (\A x, y \in Callers : Busy(x) /\ Busy(y) => x = y)'
        /\ \A d \in Callers \ {c} : caller'[d].at = "idle"
    BY <1>1, <2>1, AfterCall
  <2> QED BY <1>7, <2>1, <2>2, Resumes
<1>10. CASE Turned(c, "write", Tail(caller[c].todo)) /\ Len(caller[c].todo) # 1 /\ r.ok
  <2>1. Others(c) /\ caller'[c].at = "write" /\ caller'[c].todo = Tail(caller[c].todo)
    BY <1>10 DEF Turned
  <2>2. /\ (\A x, y \in Callers : Busy(x) /\ Busy(y) => x = y)'
        /\ \A d \in Callers \ {c} : caller'[d].at = "idle"
    BY <1>1, <2>1, AfterCall
  <2>3. Head(caller'[c].todo) = "data" /\ link => inData
    <3>1. Head(caller'[c].todo) = "data" => Head(caller[c].todo) = "speak"
      BY <1>8, <1>10, <2>1, PyTodoFacts
    <3> QED BY <1>4, <1>10, <3>1 DEF MineOf, Want
  <2>4. Head(caller'[c].todo) # "text"
    BY <1>8, <1>10, <2>1, PyTodoFacts
  <2> QED BY <1>2, <1>7, <2>1, <2>2, <2>3, <2>4, Resumes
<1>11. Ended(c) \/ (Turned(c, "write", Tail(caller[c].todo)) /\ Len(caller[c].todo) # 1 /\ r.ok)
  <2>1. CASE PyStopsAt(r) \/ Len(caller[c].todo) = 1
    BY <2>1, Ends DEF PyTake, PyReturns
  <2>2. CASE ~(PyStopsAt(r) \/ Len(caller[c].todo) = 1)
    <3>1. Tail(caller[c].todo) \in PyTodos
      BY <1>8, <2>2, PyTodoFacts
    <3> QED BY <2>2, <3>1, TurnsOn DEF PyTake, PyStopsAt
  <2> QED BY <2>1, <2>2
<1> QED BY <1>9, <1>10, <1>11

(* and the communication thread that reads, hands over a reply, or gives   *)
(* up.                                                                     *)
LEMMA HandlerPy ==
  ASSUME ClientInv, CallInv, library = "python", PyHandlerSteps, UNCHANGED local
  PROVE  CallInv'
<1> USE DEF ClientInv
<1>1. UNCHANGED <<library, caller, link, toServer, inData, socket, reply, asleep>>
  BY DEF PyHandlerSteps, PyReads, PyCallback, PyFails, server, local
<1>2. /\ \A c \in Callers : (Busy(c)' <=> Busy(c)) /\ (Waiting(c)' <=> Waiting(c))
      /\ \A c \in Callers : Want(c)' = Want(c)
      /\ \A c \in Callers : OnWire(c)' <=> OnWire(c)
      /\ handler.at # "deliver" /\ handler'.at # "deliver" /\ reply = NoItem
  BY <1>1 DEF Busy, Waiting, Want, OnWire, Told, PythonInv, PyHandlerSteps, PyReads, PyCallback, PyFails
<1>3. ASSUME NEW c \in Callers, NEW x, NEW y, MineOf(c, x), y = x
      PROVE  /\ Waiting(c)' /\ y.call = caller'[c].call /\ y.line = Want(c)'
             /\ y.ok /\ link' /\ Want(c)' = "speak" => inData'
  BY <1>1, <1>2, <1>3 DEF MineOf
<1>4. ASSUME UNCHANGED replies, handler.at # "gone"
      PROVE  replies' # <<>> => /\ Len(replies') = 1 /\ Mine(Head(replies))'
                                /\ \A c \in Callers : caller'[c].at = "wait" => MineOf(c, Head(replies))'
  <2> SUFFICES ASSUME replies # <<>>
               PROVE  /\ Len(replies') = 1 /\ Mine(Head(replies))'
                      /\ \A c \in Callers : caller'[c].at = "wait" => MineOf(c, Head(replies))'
    BY <1>4
  <2>1. /\ Len(replies) = 1 /\ Mine(Head(replies)) /\ Head(replies') = Head(replies)
        /\ \A c \in Callers : caller'[c].at = "wait" => MineOf(c, Head(replies))
    BY <1>1, <1>4 DEF CallInv
  <2>2. Mine(Head(replies))'
    BY <1>3, <2>1 DEF Mine, MineOf
  <2>3. \A c \in Callers : caller'[c].at = "wait" => MineOf(c, Head(replies))'
    BY <1>3, <2>1 DEF MineOf
  <2> QED BY <1>4, <2>1, <2>2, <2>3
<1>5. CASE PyReads
  <2>1. handler.at = "read" /\ fromServer # <<>> /\ fromServer' = Tail(fromServer)
    BY <1>5 DEF PyReads
  <2>2. CASE Head(fromServer).kind = "reply"
    <3>1. RepliesIn' = {} /\ RepliesIn # {} /\ Mine(Head(fromServer))
      BY <2>1, <2>2, RepliesTail
    <3>2. toServer = <<>> /\ replies = <<>>
      BY <2>1, <3>1 DEF CallInv, Held
    <3>3. replies' = Append(replies, Head(fromServer)) /\ handler' = handler
      BY <1>5, <2>2 DEF PyReads
    <3>4. Head(fromServer) \in Item
      BY <2>1, Sizes
    <3>5. Len(replies') = 1 /\ Head(replies') = Head(fromServer)
      <4>1. \A x \in Item : Append(<<>>, x) = <<x>> /\ Head(<<x>>) = x /\ Len(<<x>>) = 1
        <5> HIDE DEF Item
        <5> QED OBVIOUS
      <4> QED BY <3>2, <3>3, <3>4, <4>1
    <3>6. PICK c \in Callers : MineOf(c, Head(fromServer))
      BY <3>1 DEF Mine
    <3>7. MineOf(c, Head(replies))'
      BY <1>3, <3>5, <3>6 DEF MineOf
    <3>8. \A d \in Callers : caller'[d].at = "wait" => d = c
      BY <1>1, <3>6 DEF MineOf, CallInv, Busy, Waiting
    <3>9. Mine(Head(replies))' /\ \A d \in Callers : caller'[d].at = "wait" => MineOf(d, Head(replies))'
      BY <3>7, <3>8 DEF Mine
    <3> QED BY <1>1, <1>2, <3>1, <3>2, <3>3, <3>5, <3>9 DEF CallInv
  <2>3. CASE Head(fromServer).kind = "event"
    <3>1. /\ \A i \in RepliesIn' : i + 1 \in RepliesIn /\ fromServer'[i] = fromServer[i + 1] /\ i \in Nat
      BY <2>1, <2>3, RepliesTail
    <3>2. \A i \in RepliesIn' : Mine(fromServer[i])'
      <4> TAKE i \in RepliesIn'
      <4>1. Mine(fromServer[i + 1]) /\ fromServer'[i] = fromServer[i + 1]
        BY <3>1 DEF CallInv
      <4> QED BY <1>3, <4>1 DEF Mine, MineOf
    <3>3. \A i, j \in RepliesIn' : i = j
      <4> TAKE i, j \in RepliesIn'
      <4>1. i + 1 = j + 1 /\ i \in Nat /\ j \in Nat
        BY <3>1 DEF CallInv
      <4> QED BY <4>1
    <3>4. handler'.at = "callback" /\ replies' = replies
      BY <1>5, <2>3 DEF PyReads
    <3>5. /\ Held' <=> Held
          /\ RepliesIn' # {} => RepliesIn # {}
      <4>1. Held <=> replies # <<>>
        BY <1>2, <2>1 DEF Held
      <4>2. Held' <=> replies' # <<>>
        BY <1>1, <1>2, <3>4 DEF Held
      <4> QED BY <3>1, <3>4, <4>1, <4>2
    <3> QED BY <1>1, <1>2, <1>4, <2>1, <3>1, <3>2, <3>3, <3>4, <3>5 DEF CallInv
  <2>4. Head(fromServer).kind \in {"reply", "event"}
    BY <2>1, Sizes DEF Item
  <2> QED BY <2>2, <2>3, <2>4
<1>6. CASE PyCallback \/ PyFails
  <2>1. /\ UNCHANGED <<fromServer, replies>> /\ handler.at \in {"callback", "read"}
        /\ handler'.at \in {"read", "gone"} /\ handler'.at = "gone" => fromServer = <<>> /\ ~link
    BY <1>6 DEF PyCallback, PyFails, server
  <2>2. RepliesIn' = RepliesIn
    BY <2>1 DEF RepliesIn
  <2>3. \A i \in RepliesIn' : Mine(fromServer[i])'
    <3> TAKE i \in RepliesIn'
    <3>1. Mine(fromServer[i]) /\ fromServer'[i] = fromServer[i]
      BY <2>1, <2>2 DEF CallInv
    <3> QED BY <1>3, <3>1 DEF Mine, MineOf
  <2>4. Held' => Held
    BY <1>1, <1>2, <2>1 DEF Held
  <2> QED BY <1>1, <1>2, <1>4, <2>1, <2>2, <2>3, <2>4 DEF CallInv
<1> QED BY <1>5, <1>6 DEF PyHandlerSteps

-----------------------------------------------------------------------------
(* Every step keeps the invariant of the calls, unless calls that no mutex *)
(* keeps apart meet.                                                       *)
LEMMA CallStep ==
  ASSUME ClientInv, [Next]_vars, ~overlap'
  PROVE  CallInv'
<1>0. ~overlap
  BY DEF Next, ServerAnswers, ServerSays, Dispatches, Calls, Proceeds, Call, PyCall, CallerSteps,
         PyCallerSteps, HandlerSteps, PyHandlerSteps, program, Check, Write, Take, PyWrite, PyAlive,
         PyTake, HandlerReads, HandlerCalls, HandlerDelivers, HandlerGoesOn, HandlerFails,
         HandlerGivesUp, PyReads, PyCallback, PyFails, vars
<1>1. CallInv
  BY <1>0 DEF ClientInv
<1>2. CASE ServerAnswers \/ ServerSays
  BY <1>1, <1>2, CallServer DEF ClientInv
<1>3. CASE Dispatches
  BY <1>1, <1>3, HandlerC, HandlerPy DEF Dispatches
<1>4. ASSUME NEW c \in Callers, Calls(c) PROVE CallInv'
  BY <1>1, <1>4, CallC, CallPy DEF Calls
<1>5. ASSUME NEW c \in Callers, Proceeds(c) PROVE CallInv'
  BY <1>1, <1>5, CheckC, WriteC, TakeC, WritePy, AlivePy, TakePy DEF Proceeds, CallerSteps, PyCallerSteps
<1>6. CASE UNCHANGED vars
  BY <1>1, <1>6 DEF vars, server, program, local, CallInv, Busy, Waiting, OnWire, Told, Want, Mine, MineOf,
                    RepliesIn, Held
<1> QED BY <1>2, <1>3, <1>4, <1>5, <1>6 DEF Next

(* The invariant holds at first, with either library.                      *)
LEMMA ClientInit == Init => ClientInv
<1> SUFFICES ASSUME Init PROVE ClientInv
  OBVIOUS
<1> USE DEF Init, LibraryInit, LibSpeechdInit, PythonInit
<1>1. Idle \in [at : {"idle", "check", "write", "alive", "wait"}, call : Nat,
               kind : Kinds \cup {"none"}, todo : CTodos \cup PyTodos \cup {<<>>}]
  BY DEF Idle
<1>2. caller \in CallerStates /\ \A c \in Callers : caller[c].at = "idle"
  BY <1>1 DEF CallerStates, Idle
<1>3. Typed
  <2>1. /\ link \in BOOLEAN /\ inData \in BOOLEAN /\ overlap \in BOOLEAN /\ socket \in BOOLEAN
        /\ library \in {"c", "python"} /\ written = 0 /\ handled = 0 /\ calls = 0
    OBVIOUS
  <2>2. /\ toServer \in Seq(Wire) /\ text \in Seq(Wire) /\ fromServer \in Seq(Item) /\ replies \in Seq(Item)
        /\ texts \in Seq([call : Nat, text : Seq(Wire), told : Nat])
    OBVIOUS
  <2>3. /\ reply \in Slot
        /\ handler \in [at : {"read", "callback", "deliver", "ack", "broken", "gone"}, item : Slot]
    BY DEF Slot
  <2> QED BY <1>2, <2>1, <2>2, <2>3 DEF Typed, Busy
<1>4. OrderInv /\ PythonInv
  <2>1. DOMAIN fromServer = {} /\ Len(fromServer) = 0 /\ InHand = 0
    BY DEF InHand
  <2> QED BY <2>1 DEF OrderInv, PythonInv
<1>5. MutexInv
  BY <1>2, LibAssumption DEF MutexInv, Busy
<1>6. CallInv
  <2>1. RepliesIn = {}
    BY DEF RepliesIn
  <2> QED BY <1>2, <2>1 DEF CallInv, Busy
<1> QED BY <1>3, <1>4, <1>5, <1>6 DEF ClientInv

(* Replies and events are where the two libraries expect them, and while   *)
(* calls do not overlap there is one line, or one reply, on its way.       *)
THEOREM ClientInvariant == Spec => []ClientInv
<1>1. ClientInv /\ [Next]_vars => ClientInv'
  <2> SUFFICES ASSUME ClientInv, [Next]_vars PROVE ClientInv'
    OBVIOUS
  <2>1. Typed' /\ OrderInv' /\ PythonInv' /\ MutexInv'
    BY TypedStep, OrderStep, PythonStep, MutexStep DEF ClientInv
  <2>2. ~overlap' => CallInv'
    BY CallStep
  <2> QED BY <2>1, <2>2 DEF ClientInv
<1> QED BY <1>1, ClientInit, PTL DEF Spec

(* spd_say(), speak() and the other calls take the reply to the line they  *)
(* sent, as long as no calls met that the library does not keep apart.     *)
THEOREM OwnReplyCorrect == Spec => []OwnReply
<1>1. ClientInv => OwnReply
  <2> SUFFICES ASSUME ClientInv, ~overlap, NEW c \in Callers, caller[c].at = "wait"
               PROVE  /\ library = "c" /\ c \notin asleep /\ reply # NoItem => Answers(reply, c)
                      /\ library = "python" /\ replies # <<>> => Answers(Head(replies), c)
    BY DEF OwnReply
  <2>1. CallInv /\ Busy(c)
    BY DEF ClientInv, Busy
  <2>2. Head(caller[c].todo) = "data" <=> Want(c) # Head(caller[c].todo)
    BY DEF Want
  <2>3. CASE library = "c" /\ reply # NoItem
    <3>1. MineOf(c, reply)
      BY <2>1, <2>3 DEF CallInv, Mine, MineOf, Waiting, Busy
    <3> QED BY <2>3, <3>1 DEF Answers, MineOf, Want
  <2>4. CASE library = "python" /\ replies # <<>>
    <3>1. MineOf(c, Head(replies))
      BY <2>1, <2>4 DEF CallInv
    <3> QED BY <2>4, <3>1 DEF Answers, MineOf, Want
  <2> QED BY <2>3, <2>4
<1> QED BY <1>1, ClientInvariant, PTL

(* libspeechd hands over replies and runs callbacks in the order in which  *)
(* the server wrote them, and leaves none out.                             *)
THEOREM InOrderCorrect == Spec => InOrder
<1>1. ClientInv /\ [Next]_vars => [handled' # handled => handled' = handled + 1]_vars
  <2> SUFFICES ASSUME ClientInv, [Next]_vars, handled' # handled PROVE handled' = handled + 1
    OBVIOUS
  <2>1. CASE library = "c" /\ HandlerCalls
    BY <2>1 DEF HandlerCalls, ClientInv, OrderInv
  <2>2. ASSUME NEW c \in Callers, library = "c", Take(c) PROVE handled' = handled + 1
    BY <2>2 DEF Take, ClientInv, OrderInv
  <2> QED BY <2>1, <2>2
          DEF Next, ServerAnswers, ServerSays, Dispatches, Calls, Proceeds, Call, CallerSteps, HandlerSteps,
              local, Check, Write, HandlerReads, HandlerDelivers, HandlerGoesOn, HandlerFails,
              HandlerGivesUp, vars
<1> QED BY <1>1, ClientInvariant, PTL DEF Spec, InOrder
=============================================================================
