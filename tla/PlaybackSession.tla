--------------------------- MODULE PlaybackSession ---------------------------
(***************************************************************************)
(* What the output layer promises to the speak() thread about one message  *)
(* (comments of src/src/server/output.c and module_main.h): BEGIN at most  *)
(* once and first, marks after it, one last event, STOPPED and PAUSED only *)
(* when somebody asked.  Once `mixed' is set (a message was refused, a     *)
(* pipe broke, or a stop met the END of a message) nothing is promised.    *)
(***************************************************************************)
EXTENDS FiniteSets

VARIABLES
  phase,  \* "silent", "open" (sent to the module) or "begun"
  asked,  \* what was asked since the message was sent
  last,   \* the type of the event delivered last
  mixed

vars == <<phase, asked, last, mixed>>

Asks   == {"stop", "pause"}
Events == {"none", "begin", "mark", "end", "stop", "pause", "broken"}
Phases == {"silent", "open", "begun"}

Init == phase = "silent" /\ asked = {} /\ last = "none" /\ mixed = FALSE

Open ==
  /\ phase = "silent" /\ phase' = "open" /\ asked' = {} /\ last' = "none"
  /\ UNCHANGED mixed

Ask ==
  /\ \E a \in Asks : asked' = asked \cup {a}
  /\ UNCHANGED <<phase, last, mixed>>

Begin ==
  /\ phase = "open" /\ phase' = "begun" /\ last' = "begin"
  /\ UNCHANGED <<asked, mixed>>

Mark == phase = "begun" /\ last' = "mark" /\ UNCHANGED <<phase, asked, mixed>>

Finish ==
  /\ phase # "silent" /\ phase' = "silent"
  /\ \/ last' = "end" /\ phase = "begun"
     \/ last' = "stop" /\ "stop" \in asked
     \/ last' = "pause" /\ "pause" \in asked /\ phase = "begun"
  /\ UNCHANGED <<asked, mixed>>

(* The server terminates. *)
Abandon == phase' = "silent" /\ UNCHANGED <<asked, last, mixed>>

Mix ==
  /\ mixed' = TRUE
  /\ phase' \in Phases /\ asked' \in SUBSET Asks /\ last' \in Events

Next == Open \/ Ask \/ Begin \/ Mark \/ Finish \/ Abandon \/ Mix

Spec == Init /\ [][Next]_vars
=============================================================================
