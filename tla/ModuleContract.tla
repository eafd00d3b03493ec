--------------------------- MODULE ModuleContract ---------------------------
(***************************************************************************)
(* What an output module promises to the server that uses it: a request to *)
(* speak is answered, an accepted one begins, reports its index marks and  *)
(* ends exactly once, and nothing is sent outside of a request.  A message *)
(* ends as stopped only when the server asked for it or the synthesizer    *)
(* failed, as paused only when the server asked for that; it may end       *)
(* before it began when it was stopped or the synthesizer failed.          *)
(***************************************************************************)
EXTENDS Naturals, Sequences

VARIABLES
  session,  \* the request of the server: "none", "asked", "accepted"
  orders,   \* the orders given to it since; "FAILURE" of its synthesizer
  heard     \* what the module sent for it

contractVars == <<session, orders, heard>>

Ends == {"702", "703", "704"}

Begun == \E i \in 1 .. Len(heard) : heard[i] = "701"

ContractInit == session = "none" /\ orders = {} /\ heard = <<>>

Ask == session = "none" /\ session' = "asked" /\ orders' = {} /\ heard' = <<>>

Order(o) ==
  /\ session = "accepted" /\ orders' = orders \cup {o}
  /\ UNCHANGED <<session, heard>>

Fails ==
  /\ session # "none" /\ orders' = orders \cup {"FAILURE"}
  /\ UNCHANGED <<session, heard>>

Answer ==
  /\ session = "asked" /\ UNCHANGED orders
  /\ \/ session' = "accepted" /\ heard' = <<"200">>
     \/ session' = "none" /\ heard' = <<"301">>

Begin ==
  /\ session = "accepted" /\ ~Begun /\ heard' = Append(heard, "701")
  /\ UNCHANGED <<session, orders>>

Mark ==
  /\ session = "accepted" /\ Begun /\ heard' = Append(heard, "700")
  /\ UNCHANGED <<session, orders>>

End(e) ==
  /\ session = "accepted" /\ heard' = Append(heard, e)
  /\ Begun \/ "STOP" \in orders \/ "FAILURE" \in orders
  /\ e = "703" => orders # {}
  /\ e = "704" => "PAUSE" \in orders
  /\ session' = "none" /\ UNCHANGED orders

ContractNext ==
  \/ Ask \/ Answer \/ Begin \/ Mark \/ Fails
  \/ \E o \in {"STOP", "PAUSE"} : Order(o)
  \/ \E e \in Ends : End(e)

ContractSpec == ContractInit /\ [][ContractNext]_contractVars
=============================================================================
