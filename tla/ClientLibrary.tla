--------------------------- MODULE ClientLibrary ---------------------------
(***************************************************************************)
(* What the two client libraries (libspeechd.c and client.py) have in      *)
(* common: threads of a program that make calls on one connection, a       *)
(* thread of the library that reads everything the server sends, and the   *)
(* server at the other end.                                                *)
(*                                                                         *)
(* A call is a list of lines; a line is checked, written, and answered.    *)
(* The server is the environment: it answers lines in order, may refuse    *)
(* one, and sends the events of the messages it accepted.                  *)
(***************************************************************************)
EXTENDS Naturals, Sequences, FiniteSets

CONSTANTS
  Callers,  \* threads of the program
  Nobody,   \* no thread
  Kinds,    \* calls the program makes
  MaxCalls, \* calls in a behaviour
  MaxEvents, \* events of a message
  MayBreak  \* the server may die

ASSUME LibAssumption ==
  /\ {Nobody, "handler"} \cap Callers = {}
  /\ Kinds \subseteq {"say", "key", "command", "setting", "notification", "query", "list"}
  /\ {MaxCalls, MaxEvents} \subseteq Nat /\ MayBreak \in BOOLEAN

VARIABLES
  library,    \* "c" or "python"
  running,    \* the program has not crashed
  link,       \* the server is alive
  toServer,   \* lines on their way
  inData,     \* the server collects the text of a message
  text,       \* the lines of that text
  texts,      \* history: the text of every message the server accepted
  fromServer, \* replies and events on their way
  written,    \* items the server has sent, which numbers them
  handler,    \* the library's thread: where it is, the item it has read
  caller,     \* the callers: where each is, its call, the lines still to send
  calls,      \* bound
  overlap     \* history: calls that no mutex keeps apart have met

server  == <<link, toServer, inData, text, texts, fromServer, written>>
program == <<library, running, handler, caller, calls, overlap>>

NoItem == [kind |-> "none", call |-> 0, line |-> "none", ok |-> TRUE, n |-> 0]

Idle == [at |-> "idle", call |-> 0, kind |-> "none", todo |-> <<>>]

LibraryInit ==
  /\ library \in {"c", "python"} /\ running = TRUE
  /\ link = TRUE
  /\ toServer = <<>> /\ inData = FALSE /\ text = <<>> /\ texts = <<>> /\ fromServer = <<>>
  /\ written = 0 /\ calls = 0 /\ overlap = FALSE
  /\ handler = [at |-> "read", item |-> NoItem]
  /\ caller = [c \in Callers |-> Idle]

Busy(c) == caller[c].at # "idle"

-----------------------------------------------------------------------------
(* The server. *)

Sends(item) ==
  /\ fromServer' = Append(fromServer, [item EXCEPT !.n = written + 1])
  /\ written' = written + 1

Answer(l, ok) ==
  Sends([kind |-> "reply", call |-> l.call, line |-> l.line, ok |-> ok, n |-> 0])

(* A line is a command, or text while a message is collected; "speak" is   *)
(* what starts the collection and the dot what ends it.                    *)
ServerReads ==
  /\ link /\ toServer # <<>>
  /\ toServer' = Tail(toServer)
  /\ LET l == Head(toServer)
     IN  \/ /\ ~inData
            /\ \E ok \in BOOLEAN :
                 /\ ok => l.line \notin {"text", "dot"}
                 /\ Answer(l, ok)
                 /\ inData' = (l.line = "speak" /\ ok)
            /\ text' = <<>> /\ UNCHANGED texts
         \/ /\ inData /\ l.line # "dot"
            /\ text' = Append(text, l)
            /\ UNCHANGED <<inData, texts, fromServer, written>>
         \/ /\ inData /\ l.line = "dot"
            /\ Answer(l, TRUE)
            /\ inData' = FALSE /\ text' = <<>>
            /\ texts' = Append(texts, [call |-> l.call, text |-> text, told |-> 0])
  /\ UNCHANGED link

(* An event of an accepted message, at any time after its reply. *)
ServerReports ==
  /\ link
  /\ \E i \in DOMAIN texts :
       /\ texts[i].told < MaxEvents
       /\ texts' = [texts EXCEPT ![i].told = @ + 1]
       /\ Sends([kind |-> "event", call |-> texts[i].call, line |-> "none", ok |-> TRUE,
                 n |-> 0])
  /\ UNCHANGED <<link, toServer, inData, text>>

ServerDies ==
  /\ MayBreak /\ link /\ link' = FALSE /\ toServer' = <<>>
  /\ UNCHANGED <<inData, text, texts, fromServer, written>>
=============================================================================
