-------------------------- MODULE ModulePipeProofs --------------------------
(***************************************************************************)
(* Proofs about ModulePipe, for any number of queries, messages and events *)
(* and a module that may die at any moment.                                *)
(***************************************************************************)
EXTENDS ModulePipe, TLAPS

Replies == {i \in DOMAIN pipe : pipe[i].kind = "reply"}
Events  == {i \in DOMAIN pipe : pipe[i].kind # "reply"}

(* The replyer sent its command and has no answer yet. *)
Awaits == replyer.at \in {"look", "read", "handed"}
Busy   == replyer.at # "free"

-----------------------------------------------------------------------------
(* Who reads, and who has been handed something.                           *)
ReadersInv ==
  /\ readingMessage <=> (replyer.at = "read" \/ reader = "read")
  /\ ~(replyer.at = "read" /\ reader = "read")
  /\ reply # None => reader = "handed" /\ replyer.at # "read"
  /\ event # None => replyer.at = "handed" /\ reader # "read"
  /\ waitingForReply <=> Busy

(* A command has one answer, which is at one place only: still to be given *)
(* by the module, in its pipe, or in output->reply.                        *)
AnswerInv ==
  /\ Busy => replyer.cmd = queries + spoken /\ replyer.cmd > 0
  /\ commands # <<>> =>
       /\ commands = <<[n |-> replyer.cmd, speaks |-> replyer.speaks]>>
       /\ Replies = {} /\ reply = None
       /\ Awaits \/ broken
  /\ \A i, j \in Replies : i = j
  /\ \A i \in Replies : pipe[i].n = replyer.cmd
  /\ Replies # {} => reply = None /\ Awaits
  /\ reply # None => reply.n = replyer.cmd /\ Awaits
  /\ Awaits => commands # <<>> \/ Replies # {} \/ reply # None
  /\ OwnReply

(* The events on their way continue those that were handled: first the one *)
(* in output->event, then those in the pipe.                               *)
Handed    == IF event = None THEN 0 ELSE 1
RepliesBefore(i) == IF \E j \in Replies : j < i THEN 1 ELSE 0
NumberInv ==
  /\ event # None => event.n = taken + 1
  /\ \A i \in Events : pipe[i].n = taken + Handed + i - RepliesBefore(i)
  /\ sent = taken + Handed + Len(pipe) - (IF Replies = {} THEN 0 ELSE 1)

(* The module is silent, and nothing it said is on its way. *)
Quiet == sound = 0 /\ Events = {} /\ event = None

(* Events come only between the acceptance of a message and its last one.  *)
SpeechInv ==
  /\ reader # "none" <=> readingEvents
  /\ readingEvents => speaking /\ (Busy => ~replyer.speaks)
  /\ ~speaking => Quiet /\ (Busy => ~replyer.speaks)
  /\ speaking /\ ~readingEvents =>
       /\ Busy /\ replyer.speaks /\ event = None /\ replyer.at # "handed"
       /\ commands # <<>> \/ replyer.at = "send" \/ (replyer.at = "done" /\ answer.n = 0) => Quiet
       /\ \A i \in Events : RepliesBefore(i) = 1 \/ replyer.at = "done"
  /\ replyer.at = "done" => answer.cmd = replyer.cmd
  /\ reader = "done" => Quiet
  /\ event.kind = "last" => sound = 0 /\ Events = {}
  /\ \A i, j \in Events : pipe[i].kind = "last" => sound = 0 /\ j <= i
  /\ broken => sound = 0
  /\ ~dropped

PipeInv == ReadersInv /\ AnswerInv /\ NumberInv /\ SpeechInv
-----------------------------------------------------------------------------
(* Appending to the pipe and reading from it.                              *)
LEMMA PipeAppend ==
  ASSUME TypeOK, NEW m \in Message, pipe' = Append(pipe, m)
  PROVE  /\ pipe' \in Seq(Message) /\ Len(pipe) \in Nat /\ Len(pipe') = Len(pipe) + 1
         /\ DOMAIN pipe = 1 .. Len(pipe) /\ DOMAIN pipe' = 1 .. Len(pipe) + 1
         /\ pipe'[Len(pipe) + 1] = m
         /\ \A i \in 1 .. Len(pipe) : pipe'[i] = pipe[i]
BY DEF TypeOK

(* Reading one message from the pipe moves the others up by one.           *)
LEMMA PipeTail ==
  ASSUME TypeOK, pipe # <<>>, pipe' = Tail(pipe)
  PROVE  /\ pipe' \in Seq(Message) /\ Len(pipe) \in Nat \ {0} /\ Len(pipe') = Len(pipe) - 1
         /\ DOMAIN pipe = 1 .. Len(pipe) /\ DOMAIN pipe' = 1 .. Len(pipe) - 1
         /\ Head(pipe) = pipe[1] /\ Head(pipe) \in Message
         /\ \A i \in 1 .. Len(pipe) - 1 : pipe'[i] = pipe[i + 1]
BY DEF TypeOK

(* Every step keeps at most one reader on the pipe.                        *)
LEMMA ReadersStep ==
  ASSUME TypeOK, PipeInv, [Next]_vars
  PROVE  ReadersInv'
<1> USE DEF ReadersInv, PipeInv, None, Busy
<1>1. CASE ModuleSteps
  BY <1>1 DEF ModuleSteps
<1>2. CASE Dies
  BY <1>2 DEF Dies
<1>3. CASE Query
  BY <1>3 DEF Query, SendsReply, TypeOK
<1>4. CASE Speak
  BY <1>4 DEF Speak, SendsReply, TypeOK
<1>5. CASE ReplyerSends
  BY <1>5 DEF ReplyerSends, TypeOK
<1>6. CASE ReplyerWaits
  BY <1>6 DEF ReplyerWaits, TypeOK
<1>7. CASE ReplyerTakes
  BY <1>7 DEF ReplyerTakes, Returned, Awake, TypeOK
<1>8. CASE ReplyerReads
  BY <1>8 DEF ReplyerReads, TypeOK
<1>9. CASE ReplyerGets
  BY <1>9 DEF ReplyerGets, Returned, IsEvent, TypeOK
<1>10. CASE ReplyerBreaks
  BY <1>10 DEF ReplyerBreaks, Returned, TypeOK
<1>11. CASE ReplyerWaitsHanded
  BY <1>11 DEF ReplyerWaitsHanded, TypeOK
<1>12. CASE ReplyerGoesOn
  <2>1. /\ replyer.at = "handed" /\ replyer'.at = "look" /\ event' = None
        /\ UNCHANGED <<readingMessage, reply, reader, waitingForReply>>
    BY <1>12 DEF ReplyerGoesOn, TypeOK
  <2> QED BY <2>1
<1>13. CASE ReplyerDone
  <2>1. reply = None
    BY <1>13 DEF ReplyerDone, AnswerInv, Awaits
  <2>2. StartsReading => reader = "none"
    BY <1>13 DEF ReplyerDone, StartsReading, SpeechInv
  <2> QED BY <1>13, <2>1, <2>2 DEF ReplyerDone, TypeOK
<1>14. CASE ReaderWaits
  BY <1>14 DEF ReaderWaits, TypeOK
<1>15. CASE ReaderTakes
  BY <1>15 DEF ReaderTakes, Handles, TypeOK
<1>16. CASE ReaderReads
  BY <1>16 DEF ReaderReads, TypeOK
<1>17. CASE ReaderGets
  BY <1>17 DEF ReaderGets, Handles, IsEvent, SignalsReply, TypeOK
<1>18. CASE ReaderBreaks
  BY <1>18 DEF ReaderBreaks, SignalsReply, TypeOK
<1>19. CASE ReaderHanded
  BY <1>19 DEF ReaderHanded, TypeOK
<1>20. CASE StopReading
  BY <1>20 DEF StopReading, TypeOK
<1>21. CASE UNCHANGED vars
  BY <1>21 DEF vars
<1> QED BY <1>1, <1>2, <1>3, <1>4, <1>5, <1>6, <1>7, <1>8, <1>9, <1>10, <1>11, <1>12, <1>13, <1>14, <1>15, <1>16, <1>17, <1>18, <1>19, <1>20, <1>21 DEF Next, ReplyerSteps, ReaderSteps

(* What the answers rest on does not change. *)
LEMMA AnswerFrame ==
  ASSUME AnswerInv, UNCHANGED <<commands, pipe, broken, reply, replyer, queries, spoken, answer>>
  PROVE  AnswerInv'
BY DEF AnswerInv, Busy, Awaits, OwnReply, Replies

(* Every step keeps what is known of the answer that is on its way.        *)
LEMMA AnswerStep ==
  ASSUME TypeOK, PipeInv, [Next]_vars
  PROVE  AnswerInv'
<1> USE DEF PipeInv
<1> DEFINE own == [n |-> replyer.cmd, speaks |-> replyer.speaks]
<1>0. /\ queries \in Nat /\ spoken \in Nat /\ MaxQueries \in Nat /\ MaxSpeak \in Nat
      /\ replyer.cmd \in Nat /\ replyer.at \in {"free", "send", "look", "read", "handed", "done"}
  BY PipeAssumption DEF TypeOK, Command
<1>1. CASE ModuleSteps /\ ModuleAnswers
  <2> DEFINE m == [kind |-> "reply", n |-> replyer.cmd]
  <2>1. commands = <<own>> /\ Replies = {} /\ reply = None /\ Awaits
    BY <1>1 DEF ModuleAnswers, AnswerInv
  <2>2. m \in Message /\ m.kind = "reply" /\ m.n = replyer.cmd
    BY <1>0 DEF Message
  <2>3. pipe' = Append(pipe, m) /\ commands' = <<>>
    BY <1>1, <2>1 DEF ModuleAnswers
  <2> HIDE DEF m
  <2>4. Replies' = {Len(pipe) + 1} /\ pipe'[Len(pipe) + 1] = m
    BY <2>1, <2>2, <2>3, PipeAppend DEF Replies
  <2>5. UNCHANGED <<replyer, reply, broken, queries, spoken, answer>>
    BY <1>1 DEF ModuleSteps, ModuleAnswers, bounds
  <2> QED BY <2>1, <2>2, <2>3, <2>4, <2>5 DEF AnswerInv, Busy, Awaits, OwnReply
<1>2. CASE ModuleSteps /\ ModuleSends
  <2>0. PICK kind \in {"event", "last"} : pipe' = Append(pipe, [kind |-> kind, n |-> sent + 1])
    BY <1>2 DEF ModuleSends
  <2>1. PICK m \in Message : pipe' = Append(pipe, m) /\ m.kind # "reply"
    <3> DEFINE last == [kind |-> kind, n |-> sent + 1]
    <3>1. sent + 1 \in Nat
      BY DEF TypeOK
    <3>2. last \in Message /\ last.kind # "reply"
      BY <3>1 DEF Message
    <3> QED BY <2>0, <3>2
  <2>2. Replies' = Replies /\ \A i \in Replies : pipe'[i] = pipe[i]
    BY <2>1, PipeAppend DEF Replies
  <2>3. UNCHANGED <<commands, replyer, reply, broken, queries, spoken, answer>>
    BY <1>2 DEF ModuleSteps, ModuleSends, bounds
  <2> QED BY <2>2, <2>3 DEF AnswerInv, Busy, Awaits, OwnReply
<1>3. CASE Dies
  <2>1. broken' /\ UNCHANGED <<commands, pipe, reply, replyer, queries, spoken, answer>>
    BY <1>3 DEF Dies, ModuleDies, bounds
  <2>2. Replies' = Replies
    BY <2>1 DEF Replies
  <2> QED BY <2>1, <2>2 DEF AnswerInv, Busy, Awaits, OwnReply
<1>4. CASE Query \/ Speak
  <2>1. /\ replyer.at = "free" /\ replyer'.at = "send"
        /\ replyer'.cmd = queries + spoken + 1 /\ queries' + spoken' = queries + spoken + 1
        /\ UNCHANGED <<commands, pipe, broken, reply, answer>> /\ ~broken
    BY <1>0, <1>4 DEF Query, Speak, SendsReply, module, AnswerInv
  <2> QED BY <1>0, <2>1 DEF AnswerInv, Busy, Awaits, OwnReply, Replies
<1>5. CASE ReplyerSends
  <2>1. CASE broken
    <3>1. /\ replyer.at = "send" /\ replyer'.at = "done" /\ replyer'.cmd = replyer.cmd
          /\ answer'.cmd = replyer.cmd /\ answer'.n = 0 /\ broken'
          /\ replyer'.speaks = replyer.speaks
          /\ UNCHANGED <<commands, pipe, reply, queries, spoken>>
      BY <1>5, <2>1 DEF ReplyerSends, TypeOK, bounds
    <3> QED BY <3>1 DEF AnswerInv, Busy, Awaits, OwnReply, Replies
  <2>2. CASE ~broken
    <3>1. /\ replyer.at = "send" /\ replyer'.at = "look" /\ replyer'.cmd = replyer.cmd
          /\ replyer'.speaks = replyer.speaks
          /\ commands' = Append(commands, own)
          /\ UNCHANGED <<pipe, broken, reply, queries, spoken, answer>>
      BY <1>5, <2>2 DEF ReplyerSends, TypeOK, bounds
    <3>2. commands = <<>> /\ Replies = {} /\ reply = None
      BY <2>2, <3>1 DEF AnswerInv, Awaits
    <3>3. commands' = <<own>>
      BY <3>1, <3>2
    <3>4. replyer.cmd > 0
      BY <3>1 DEF AnswerInv, Busy
    <3> QED BY <3>1, <3>2, <3>3, <3>4 DEF AnswerInv, Busy, Awaits, OwnReply, Replies
  <2> QED BY <2>1, <2>2
<1>6. CASE ReplyerTakes
  BY <1>0, <1>6 DEF ReplyerTakes, Returned, TypeOK, module, bounds, AnswerInv, Busy, Awaits, OwnReply, Replies
<1>7. CASE ReplyerGets
  <2>1. replyer.at = "read" /\ pipe # <<>> /\ pipe' = Tail(pipe) /\ reply = None
        /\ UNCHANGED <<commands, broken, reply, queries, spoken>>
    BY <1>7 DEF ReplyerGets, bounds, ReadersInv
  <2>2. CASE ~IsEvent(Head(pipe))
    <3>1. 1 \in Replies /\ Replies = {1} /\ Head(pipe).n = replyer.cmd
      BY <2>1, <2>2, PipeTail DEF AnswerInv, Replies, IsEvent, Message
    <3>2. Replies' = {}
      BY <2>1, <3>1, PipeTail DEF Replies
    <3>3. /\ replyer'.at = "done" /\ replyer'.cmd = replyer.cmd
          /\ replyer'.speaks = replyer.speaks
          /\ answer' = [cmd |-> replyer.cmd, n |-> replyer.cmd]
      BY <1>7, <2>2, <3>1 DEF ReplyerGets, Returned, TypeOK
    <3>4. commands = <<>> /\ replyer.cmd > 0
      BY <2>1, <3>1 DEF AnswerInv, Busy
    <3> QED BY <2>1, <3>2, <3>3, <3>4 DEF AnswerInv, Busy, Awaits, OwnReply
  <2>3. CASE IsEvent(Head(pipe))
    <3>1. 1 \notin Replies
      BY <2>1, <2>3, PipeTail DEF Replies, IsEvent
    <3>2. /\ \A i \in Replies' : i \in Nat /\ i + 1 \in Replies /\ pipe'[i] = pipe[i + 1]
          /\ \A i \in Replies : i - 1 \in Replies'
      BY <2>1, <3>1, PipeTail DEF Replies
    <3>4. /\ Replies = {} <=> Replies' = {}
          /\ \A i, j \in Replies' : i = j
          /\ \A i \in Replies' : pipe'[i].n = replyer.cmd
      BY <3>2 DEF AnswerInv
    <3>3. /\ replyer'.at \in {"look", "handed"} /\ replyer'.cmd = replyer.cmd
          /\ replyer'.speaks = replyer.speaks /\ answer' = answer
      BY <1>7, <2>3 DEF ReplyerGets, Returned, TypeOK
    <3>5. Busy' /\ Busy /\ Awaits' /\ Awaits
      BY <2>1, <3>3 DEF Busy, Awaits
    <3>6. OwnReply'
      BY <2>1, <3>3 DEF AnswerInv, OwnReply
    <3>7. commands' # <<>> =>
             /\ commands' = <<[n |-> replyer'.cmd, speaks |-> replyer'.speaks]>>
             /\ Replies' = {} /\ reply' = None
      BY <2>1, <3>3, <3>4 DEF AnswerInv
    <3> QED BY <2>1, <3>3, <3>4, <3>5, <3>6, <3>7 DEF AnswerInv
  <2> QED BY <2>2, <2>3
<1>8. CASE ReplyerBreaks
  <2>1. /\ replyer.at = "read" /\ replyer'.at = "done" /\ replyer'.cmd = replyer.cmd
        /\ replyer'.speaks = replyer.speaks
        /\ answer' = [cmd |-> replyer.cmd, n |-> 0] /\ broken /\ pipe = <<>> /\ reply = None
        /\ UNCHANGED <<commands, pipe, broken, reply, queries, spoken>>
    BY <1>8 DEF ReplyerBreaks, Returned, TypeOK, module, bounds, ReadersInv
  <2> QED BY <2>1 DEF AnswerInv, Busy, Awaits, OwnReply, Replies
<1>9. CASE ReplyerReads \/ ReplyerGoesOn
  <2>1. /\ replyer.at \in {"look", "handed"} /\ replyer'.at \in {"read", "look"}
        /\ replyer'.cmd = replyer.cmd /\ replyer'.speaks = replyer.speaks
        /\ UNCHANGED <<commands, pipe, broken, reply, queries, spoken, answer>>
    BY <1>9 DEF ReplyerReads, ReplyerGoesOn, TypeOK, module, bounds
  <2> QED BY <2>1 DEF AnswerInv, Busy, Awaits, OwnReply, Replies
<1>10. CASE ReplyerDone
  <2>1. /\ replyer.at = "done" /\ replyer'.at = "free"
        /\ replyer'.cmd = replyer.cmd /\ replyer'.speaks = replyer.speaks
        /\ UNCHANGED <<commands, pipe, broken, reply, queries, spoken, answer>>
    BY <1>10 DEF ReplyerDone, TypeOK, module, bounds
  <2> QED BY <2>1 DEF AnswerInv, Busy, Awaits, OwnReply, Replies
<1>11. CASE ReaderGets
  <2>1. /\ reader = "read" /\ pipe # <<>> /\ pipe' = Tail(pipe) /\ reply = None
        /\ UNCHANGED <<commands, broken, replyer, queries, spoken, answer>>
    BY <1>11 DEF ReaderGets, bounds, ReadersInv
  <2>2. CASE ~IsEvent(Head(pipe))
    <3>1. 1 \in Replies /\ Replies = {1} /\ Head(pipe).n = replyer.cmd
      BY <2>1, <2>2, PipeTail DEF AnswerInv, Replies, IsEvent, Message
    <3>2. Replies' = {}
      BY <2>1, <3>1, PipeTail DEF Replies
    <3>3. waitingForReply /\ Awaits /\ commands = <<>>
      BY <3>1 DEF AnswerInv, ReadersInv, Busy, Awaits
    <3>4. reply' = Head(pipe) /\ reply' # None
      BY <1>11, <2>2, <3>3, <2>1, PipeTail DEF ReaderGets, Message, None
    <3> QED BY <2>1, <3>1, <3>2, <3>3, <3>4 DEF AnswerInv, Busy, Awaits, OwnReply
  <2>3. CASE IsEvent(Head(pipe))
    <3>1. 1 \notin Replies
      BY <2>1, <2>3, PipeTail DEF Replies, IsEvent
    <3>2. /\ \A i \in Replies' : i \in Nat /\ i + 1 \in Replies /\ pipe'[i] = pipe[i + 1]
          /\ \A i \in Replies : i - 1 \in Replies'
      BY <2>1, <3>1, PipeTail DEF Replies
    <3>4. /\ Replies = {} <=> Replies' = {}
          /\ \A i, j \in Replies' : i = j
          /\ \A i \in Replies' : pipe'[i].n = replyer.cmd
      BY <3>2 DEF AnswerInv
    <3>3. reply' = reply
      BY <1>11, <2>3 DEF ReaderGets
    <3> QED BY <2>1, <3>3, <3>4 DEF AnswerInv, Busy, Awaits, OwnReply
  <2> QED BY <2>2, <2>3
<1>12. CASE \/ ReplyerWaits \/ ReplyerWaitsHanded \/ ReaderWaits \/ ReaderTakes \/ ReaderReads
            \/ ReaderBreaks \/ ReaderHanded \/ StopReading \/ UNCHANGED vars
  <2>1. UNCHANGED <<commands, pipe, broken, reply, replyer, queries, spoken, answer>>
    BY <1>12 DEF ReplyerWaits, ReplyerWaitsHanded, ReaderWaits, ReaderTakes, ReaderReads,
                 ReaderBreaks, ReaderHanded, StopReading, vars, module, bounds
  <2> QED BY <2>1, AnswerFrame
<1> QED BY <1>1, <1>2, <1>3, <1>4, <1>5, <1>6, <1>7, <1>8, <1>9, <1>10, <1>11, <1>12
        DEF Next, ModuleSteps, ReplyerSteps, ReaderSteps

(* Head, Tail and Append keep a sequence over its set.                     *)
LEMMA SequenceOps ==
  ASSUME NEW S, NEW s \in Seq(S)
  PROVE  /\ s # <<>> => Head(s) \in S /\ Tail(s) \in Seq(S)
         /\ \A x \in S : Append(s, x) \in Seq(S)
OBVIOUS

(* Every variable keeps its type. *)
LEMMA TypeStep ==
  ASSUME TypeOK, PipeInv, [Next]_vars
  PROVE  TypeOK'
<1> USE PipeAssumption DEF TypeOK
<1> DEFINE DomReplyer == [at : {"free", "send", "look", "read", "handed", "done"},
                           cmd : Command, speaks : BOOLEAN]
<1>00. 0 \in Command
  BY DEF Command
<1>0. answer' = answer \/ answer'.n \in {0, answer'.cmd}
  BY AnswerStep DEF AnswerInv, OwnReply
<1>1. CASE ModuleSteps /\ ModuleAnswers
  <2>1. Head(commands) \in [n : Command, speaks : BOOLEAN]
        /\ Tail(commands) \in Seq([n : Command, speaks : BOOLEAN])
    BY <1>1, SequenceOps DEF ModuleAnswers
  <2>2. [kind |-> "reply", n |-> Head(commands).n] \in Message
    <3> HIDE DEF TypeOK
    <3>1. Head(commands).n \in Nat
      BY <2>1 DEF Command
    <3> QED BY <3>1 DEF Message
  <2>3. pipe' \in Seq(Message)
    BY <1>1, <2>2 DEF ModuleAnswers
  <2>4. sound' \in 0 .. MaxEvents + 1
    <3>1. sound \in 0 .. MaxEvents + 1 /\ MaxEvents \in Nat
      OBVIOUS
    <3> HIDE DEF TypeOK
    <3> QED BY <1>1, <3>1 DEF ModuleAnswers
  <2> QED BY <1>1, <2>1, <2>3, <2>4 DEF ModuleSteps, ModuleAnswers, bounds
<1>2. CASE ModuleSteps /\ ModuleSends
  BY <1>2 DEF ModuleSteps, ModuleSends, bounds, Message
<1>3. CASE Dies
  BY <1>3 DEF Dies, ModuleDies, bounds
<1>4. CASE Query
  <2>1. replyer' \in DomReplyer
    <3>1. queries + spoken + 1 \in Command /\ TRUE \in BOOLEAN /\ FALSE \in BOOLEAN
      BY <1>4 DEF Query, Command
    <3> QED BY <1>4, <3>1 DEF Query, SendsReply
  <2> QED BY <1>4, <1>0, <2>1 DEF Query, SendsReply, module, bounds
<1>5. CASE Speak
  <2>1. replyer' \in DomReplyer
    <3>1. queries + spoken + 1 \in Command /\ TRUE \in BOOLEAN /\ FALSE \in BOOLEAN
      BY <1>5 DEF Speak, Command
    <3> QED BY <1>5, <3>1 DEF Speak, SendsReply
  <2> QED BY <1>5, <1>0, <2>1 DEF Speak, SendsReply, module, bounds
<1>6. CASE ReplyerSends
  <2>1. [n |-> replyer.cmd, speaks |-> replyer.speaks] \in [n : Command, speaks : BOOLEAN]
        /\ 0 \in Command
    BY DEF Command
  <2>2. commands' \in Seq([n : Command, speaks : BOOLEAN])
    <3>1. Append(commands, [n |-> replyer.cmd, speaks |-> replyer.speaks])
            \in Seq([n : Command, speaks : BOOLEAN])
      BY <2>1, SequenceOps
    <3> QED BY <1>6, <3>1 DEF ReplyerSends
  <2>3. answer' \in [cmd : Command, n : Command] /\ replyer' \in DomReplyer
    BY <1>6, <2>1 DEF ReplyerSends
  <2> QED BY <1>6, <2>2, <2>3 DEF ReplyerSends, bounds
<1>7. CASE ReplyerWaits
  BY <1>7, <1>0 DEF ReplyerWaits, module, bounds, Message, Command
<1>8. CASE ReplyerTakes
  <2>1. answer' \in [cmd : Command, n : Command]
    BY <1>8, <1>0, <1>00 DEF ReplyerTakes, Returned
  <2> QED BY <1>8, <2>1 DEF ReplyerTakes, Returned, module, bounds
<1>9. CASE ReplyerReads
  BY <1>9, <1>0 DEF ReplyerReads, module, bounds, Message, Command
<1>10. CASE ReplyerGets
  <2>1. /\ pipe' \in Seq(Message) /\ Head(pipe) \in Message
    BY <1>10 DEF ReplyerGets
  <2>2. event' = None \/ (event' \in Message /\ event'.kind \in {"event", "last"})
    BY <1>10, <2>1 DEF ReplyerGets, IsEvent
  <2>3. answer' \in [cmd : Command, n : Command]
    BY <1>10, <1>0, <1>00 DEF ReplyerGets, Returned
  <2>4. replyer' \in DomReplyer /\ asleep' \subseteq {"replyer", "reader"}
        /\ dropped' \in BOOLEAN /\ readingMessage' \in BOOLEAN
    BY <1>10 DEF ReplyerGets, Returned
  <2> QED BY <1>10, <2>1, <2>2, <2>3, <2>4 DEF ReplyerGets, bounds
<1>11. CASE ReplyerBreaks
  <2>1. answer' \in [cmd : Command, n : Command]
    BY <1>11, <1>00 DEF ReplyerBreaks, Returned
  <2> QED BY <1>11, <2>1 DEF ReplyerBreaks, Returned, module, bounds
<1>12. CASE ReplyerWaitsHanded
  BY <1>12, <1>0 DEF ReplyerWaitsHanded, module, bounds, Message, Command
<1>13. CASE ReplyerGoesOn
  BY <1>13, <1>0 DEF ReplyerGoesOn, module, bounds, Message, Command
<1>14. CASE ReplyerDone
  BY <1>14, <1>0 DEF ReplyerDone, StartsReading, module, bounds, Message, Command
<1>15. CASE ReaderWaits
  BY <1>15, <1>0 DEF ReaderWaits, module, bounds, Message, Command
<1>16. CASE ReaderTakes
  BY <1>16, <1>0 DEF ReaderTakes, Handles, module, bounds, Message, Command
<1>17. CASE ReaderReads
  BY <1>17, <1>0 DEF ReaderReads, module, bounds, Message, Command
<1>18. CASE ReaderGets
  <2>1. /\ pipe' \in Seq(Message) /\ Head(pipe) \in Message
    BY <1>18 DEF ReaderGets
  <2>2. reply' = None \/ (reply' \in Message /\ reply'.kind = "reply")
    <3>1. reply' \in {reply, Head(pipe)} /\ (IsEvent(Head(pipe)) => reply' = reply)
      BY <1>18 DEF ReaderGets
    <3>2. ~IsEvent(Head(pipe)) => Head(pipe).kind = "reply"
      BY <2>1 DEF IsEvent, Message
    <3> QED BY <2>1, <3>1, <3>2
  <2>3. taken' \in Nat /\ reader' \in {"none", "look", "read", "handed", "done"}
        /\ asleep' \subseteq {"replyer", "reader"}
        /\ dropped' \in BOOLEAN /\ readingMessage' \in BOOLEAN
    BY <1>18, <2>1 DEF ReaderGets, Handles, SignalsReply, Message
  <2> QED BY <1>18, <2>1, <2>2, <2>3 DEF ReaderGets, bounds
<1>19. CASE ReaderBreaks
  BY <1>19, <1>0 DEF ReaderBreaks, SignalsReply, module, bounds, Message, Command
<1>20. CASE ReaderHanded
  BY <1>20, <1>0 DEF ReaderHanded, module, bounds, Message, Command
<1>21. CASE StopReading
  BY <1>21, <1>0 DEF StopReading, module, bounds, Message, Command
<1>22. CASE UNCHANGED vars
  BY <1>22 DEF vars, module, bounds
<1> QED BY <1>1, <1>2, <1>3, <1>4, <1>5, <1>6, <1>7, <1>8, <1>9, <1>10, <1>11, <1>12, <1>13, <1>14, <1>15, <1>16, <1>17, <1>18, <1>19, <1>20, <1>21, <1>22 DEF Next, ModuleSteps, ReplyerSteps, ReaderSteps

(* What happens to the places of replies and events when the pipe is read. *)
LEMMA ReadPlaces ==
  ASSUME TypeOK, AnswerInv, pipe # <<>>, pipe' = Tail(pipe)
  PROVE  /\ \A k \in Events' : /\ k \in Nat /\ k + 1 \in Events /\ pipe'[k] = pipe[k + 1]
                               /\ RepliesBefore(k)' = IF 1 \in Replies THEN 0 ELSE RepliesBefore(k + 1)
                               /\ 1 \in Replies => RepliesBefore(k + 1) = 1
         /\ 1 \in Replies => Replies' = {} /\ Head(pipe).kind = "reply"
         /\ 1 \notin Replies => /\ 1 \in Events /\ Head(pipe) = pipe[1] /\ Head(pipe).kind # "reply"
                                /\ RepliesBefore(1) = 0
                                /\ (Replies' = {} <=> Replies = {})
<1>1. \A k \in Events' : k \in Nat \ {0} /\ k + 1 \in Events /\ pipe'[k] = pipe[k + 1]
  BY PipeTail DEF Events
<1>2. 1 \in Replies => Replies = {1} /\ Replies' = {} /\ Head(pipe).kind = "reply"
  BY PipeTail DEF Replies, AnswerInv
<1>3. 1 \notin Replies =>
        /\ 1 \in Events /\ Head(pipe) = pipe[1] /\ Head(pipe).kind # "reply"
        /\ \A j \in Replies' : j \in Nat \ {0} /\ j + 1 \in Replies
        /\ \A j \in Replies : j \in Nat \ {0} /\ j - 1 \in Replies'
  BY PipeTail DEF Replies, Events
<1>4. ASSUME NEW k \in Events'
      PROVE  /\ RepliesBefore(k)' = IF 1 \in Replies THEN 0 ELSE RepliesBefore(k + 1)
             /\ 1 \in Replies => RepliesBefore(k + 1) = 1
  <2>1. CASE 1 \in Replies
    BY <1>1, <1>2, <2>1 DEF RepliesBefore
  <2>2. CASE 1 \notin Replies
    <3>1. (\E j \in Replies' : j < k) <=> (\E j \in Replies : j < k + 1)
      BY <1>1, <1>3, <2>2
    <3> QED BY <2>2, <3>1 DEF RepliesBefore
  <2> QED BY <2>1, <2>2
<1>5. 1 \notin Replies => RepliesBefore(1) = 0 /\ (Replies' = {} <=> Replies = {})
  BY <1>3 DEF RepliesBefore
<1> QED BY <1>1, <1>2, <1>3, <1>4, <1>5

(* ... and when a message is appended.                                     *)
LEMMA AppendPlaces ==
  ASSUME TypeOK, NEW m \in Message, pipe' = Append(pipe, m), NEW n, n = Len(pipe) + 1,
         m.kind = "reply" => Replies = {}
  PROVE  /\ \A k \in Events : /\ k \in Nat /\ k <= Len(pipe) /\ k \in Events' /\ pipe'[k] = pipe[k]
                              /\ RepliesBefore(k)' = RepliesBefore(k)
         /\ \A k \in Events' : k \in Events \/ (k = n /\ m.kind # "reply")
         /\ m.kind = "reply" => Replies' # {}
         /\ m.kind # "reply" => /\ Replies' = Replies
                                /\ RepliesBefore(n)' = IF Replies = {} THEN 0 ELSE 1
<1>1. /\ Len(pipe) \in Nat /\ DOMAIN pipe = 1 .. Len(pipe) /\ pipe'[Len(pipe) + 1] = m
      /\ \A k \in 1 .. Len(pipe) : pipe'[k] = pipe[k]
      /\ DOMAIN pipe' = 1 .. Len(pipe) + 1
  BY PipeAppend
<1>2. /\ \A k \in Events : k \in Nat /\ k <= Len(pipe) /\ k \in Events' /\ pipe'[k] = pipe[k]
      /\ \A k \in Events' : k \in Events \/ (k = Len(pipe) + 1 /\ m.kind # "reply")
  BY <1>1 DEF Events
<1>3. Replies' = Replies \cup (IF m.kind = "reply" THEN {Len(pipe) + 1} ELSE {})
  BY <1>1 DEF Replies
<1>4. \A k \in Events : RepliesBefore(k)' = RepliesBefore(k)
  BY <1>1, <1>2, <1>3 DEF RepliesBefore
<1>5. \A j \in Replies : j < Len(pipe) + 1
  BY <1>1 DEF Replies
<1> QED BY <1>2, <1>3, <1>4, <1>5 DEF RepliesBefore

(* Every step keeps the numbering of the events.                           *)
LEMMA NumberStep ==
  ASSUME TypeOK, PipeInv, [Next]_vars
  PROVE  NumberInv'
<1> USE DEF PipeInv
<1>0. /\ sent \in Nat /\ taken \in Nat /\ Len(pipe) \in Nat /\ Events \subseteq Nat
      /\ Handed \in {0, 1} /\ Handed' \in {0, 1}
      /\ \A k : RepliesBefore(k) \in {0, 1} /\ RepliesBefore(k)' \in {0, 1}
  BY DEF TypeOK, Events, Handed, RepliesBefore
<1>01. /\ event # None => event.n = taken + 1
       /\ \A k \in Events : pipe[k].n = taken + Handed + k - RepliesBefore(k)
       /\ sent = taken + Handed + Len(pipe) - (IF Replies = {} THEN 0 ELSE 1)
  BY DEF NumberInv
<1>02. ASSUME /\ event' # None => event'.n = taken' + 1
              /\ \A k \in Events' : pipe'[k].n = taken' + Handed' + k - RepliesBefore(k)'
              /\ sent' = taken' + Handed' + Len(pipe') - (IF Replies' = {} THEN 0 ELSE 1)
       PROVE  NumberInv'
  BY <1>02 DEF NumberInv
<1>00. ASSUME NEW m \in Message, pipe' = Append(pipe, m), m.kind = "reply" => Replies = {}
       PROVE  /\ \A k \in Events : pipe'[k] = pipe[k] /\ RepliesBefore(k)' = RepliesBefore(k)
              /\ \A k \in Events' : k \in Events \/ (k = Len(pipe) + 1 /\ m.kind # "reply")
              /\ m.kind = "reply" => Replies' # {}
              /\ m.kind # "reply" =>
                   /\ Replies' = Replies
                   /\ \A k : k = Len(pipe) + 1 => RepliesBefore(k)' = IF Replies = {} THEN 0 ELSE 1
              /\ Len(pipe') = Len(pipe) + 1 /\ pipe'[Len(pipe) + 1] = m
  BY <1>00, AppendPlaces, PipeAppend
<1>1. CASE ModuleSteps /\ ModuleAnswers
  <2>1. PICK m \in Message : pipe' = Append(pipe, m) /\ m.kind = "reply" /\ Replies = {}
    <3>1. Head(commands) = [n |-> replyer.cmd, speaks |-> replyer.speaks] /\ Replies = {}
      BY <1>1 DEF ModuleAnswers, AnswerInv
    <3>2. [kind |-> "reply", n |-> replyer.cmd] \in Message
      BY DEF TypeOK, Message, Command
    <3> QED BY <1>1, <3>1, <3>2 DEF ModuleAnswers
  <2>2. UNCHANGED <<event, taken, sent, Handed>>
    BY <1>1 DEF ModuleSteps, ModuleAnswers, Handed
  <2>3. /\ \A k \in Events' : k \in Events /\ pipe'[k] = pipe[k] /\ RepliesBefore(k)' = RepliesBefore(k)
        /\ Replies' # {} /\ Len(pipe') = Len(pipe) + 1
    BY <1>00, <2>1
  <2>4. sent' = taken' + Handed' + Len(pipe') - (IF Replies' = {} THEN 0 ELSE 1)
    BY <1>0, <1>01, <2>1, <2>2, <2>3
  <2> QED BY <1>01, <1>02, <2>2, <2>3, <2>4
<1>2. CASE ModuleSteps /\ ModuleSends
  <2>1. PICK m \in Message : pipe' = Append(pipe, m) /\ m.kind # "reply" /\ m.n = sent + 1
    BY <1>2, <1>0 DEF ModuleSends, Message
  <2>2. UNCHANGED <<event, taken, Handed>> /\ sent' = sent + 1
    BY <1>2 DEF ModuleSteps, ModuleSends, Handed
  <2>3. /\ Replies' = Replies /\ Len(pipe') = Len(pipe) + 1
        /\ \A k \in Events' :
             \/ k \in Events /\ pipe'[k] = pipe[k] /\ RepliesBefore(k)' = RepliesBefore(k)
             \/ k = Len(pipe) + 1 /\ pipe'[k].n = sent + 1
                /\ RepliesBefore(k)' = IF Replies = {} THEN 0 ELSE 1
    BY <1>00, <2>1
  <2>4. ASSUME NEW k \in Events'
        PROVE  pipe'[k].n = taken' + Handed' + k - RepliesBefore(k)'
    <3>1. CASE k \in Events /\ pipe'[k] = pipe[k] /\ RepliesBefore(k)' = RepliesBefore(k)
      BY <2>2, <3>1 DEF NumberInv
    <3>2. CASE k = Len(pipe) + 1 /\ pipe'[k].n = sent + 1
               /\ RepliesBefore(k)' = IF Replies = {} THEN 0 ELSE 1
      BY <1>0, <2>2, <3>2 DEF NumberInv
    <3> QED BY <2>3, <3>1, <3>2
  <2>5. sent' = taken' + Handed' + Len(pipe') - (IF Replies' = {} THEN 0 ELSE 1)
    BY <1>0, <1>01, <2>2, <2>3
  <2> QED BY <1>01, <1>02, <2>2, <2>4, <2>5
<1>3. CASE ReplyerGets
  <2>1. pipe # <<>> /\ pipe' = Tail(pipe) /\ UNCHANGED <<sent, taken>> /\ event = None
        /\ Len(pipe') = Len(pipe) - 1 /\ Handed = 0
    BY <1>3, PipeTail DEF ReplyerGets, ReadersInv, Handed
  <2>2. CASE 1 \in Replies
    <3>1. event' = None /\ Handed' = 0
      BY <1>3, <2>1, <2>2, ReadPlaces DEF ReplyerGets, IsEvent, Handed
    <3>2. ASSUME NEW k \in Events'
          PROVE  pipe'[k].n = taken' + Handed' + k - RepliesBefore(k)'
      <4>1. /\ k \in Nat /\ k + 1 \in Events /\ pipe'[k] = pipe[k + 1]
            /\ RepliesBefore(k)' = 0 /\ RepliesBefore(k + 1) = 1
        BY <2>1, <2>2, ReadPlaces
      <4>2. pipe[k + 1].n = taken + Handed + (k + 1) - RepliesBefore(k + 1)
        BY <4>1 DEF NumberInv
      <4>3. pipe[k + 1].n = taken + k
        BY <1>0, <2>1, <4>1, <4>2
      <4>4. taken' + Handed' + k - RepliesBefore(k)' = taken + k
        BY <1>0, <2>1, <3>1, <4>1
      <4> QED BY <4>1, <4>3, <4>4
    <3>3. Replies' = {}
      BY <2>1, <2>2, ReadPlaces
    <3>4. sent' = taken' + Handed' + Len(pipe') - (IF Replies' = {} THEN 0 ELSE 1)
      BY <1>0, <1>01, <2>1, <2>2, <3>1, <3>3
    <3> QED BY <1>02, <2>1, <3>1, <3>2, <3>4
  <2>3. CASE 1 \notin Replies
    <3>1. event' = Head(pipe) /\ event' # None /\ Handed' = 1
      BY <1>3, <2>1, <2>3, ReadPlaces, PipeTail
         DEF ReplyerGets, IsEvent, SpeechInv, Quiet, Message, None, TypeOK, Handed
    <3>2. ASSUME NEW k \in Events'
          PROVE  pipe'[k].n = taken' + Handed' + k - RepliesBefore(k)'
      <4>1. /\ k \in Nat /\ k + 1 \in Events /\ pipe'[k] = pipe[k + 1]
            /\ RepliesBefore(k)' = RepliesBefore(k + 1)
        BY <2>1, <2>3, ReadPlaces
      <4>2. pipe[k + 1].n = taken + Handed + (k + 1) - RepliesBefore(k + 1)
        BY <4>1, <1>01
      <4>3. pipe[k + 1].n = taken + k + 1 - RepliesBefore(k + 1)
        BY <1>0, <2>1, <4>1, <4>2
      <4>4. taken' + Handed' + k - RepliesBefore(k)' = taken + k + 1 - RepliesBefore(k + 1)
        BY <1>0, <2>1, <3>1, <4>1
      <4> QED BY <4>1, <4>3, <4>4
    <3>3. event'.n = taken + 1 /\ (Replies' = {} <=> Replies = {})
      BY <1>0, <2>1, <2>3, <3>1, ReadPlaces DEF NumberInv
    <3>4. sent' = taken' + Handed' + Len(pipe') - (IF Replies' = {} THEN 0 ELSE 1)
      BY <1>0, <1>01, <2>1, <2>3, <3>1, <3>3
    <3> QED BY <1>02, <2>1, <3>2, <3>3, <3>4
  <2> QED BY <2>2, <2>3
<1>4. CASE ReaderGets
  <2>1. pipe # <<>> /\ pipe' = Tail(pipe) /\ UNCHANGED <<sent, event>> /\ event = None
        /\ Len(pipe') = Len(pipe) - 1 /\ Handed = 0 /\ Handed' = 0
    BY <1>4, PipeTail DEF ReaderGets, ReadersInv, Handed
  <2>2. CASE 1 \in Replies
    <3>1. taken' = taken
      BY <1>4, <2>1, <2>2, ReadPlaces DEF ReaderGets, IsEvent
    <3>2. ASSUME NEW k \in Events'
          PROVE  pipe'[k].n = taken' + Handed' + k - RepliesBefore(k)'
      <4>1. /\ k \in Nat /\ k + 1 \in Events /\ pipe'[k] = pipe[k + 1]
            /\ RepliesBefore(k)' = 0 /\ RepliesBefore(k + 1) = 1
        BY <2>1, <2>2, ReadPlaces
      <4>2. pipe[k + 1].n = taken + Handed + (k + 1) - RepliesBefore(k + 1)
        BY <4>1, <1>01
      <4>3. pipe[k + 1].n = taken + k + 1 - RepliesBefore(k + 1)
        BY <1>0, <2>1, <4>1, <4>2
      <4>4. taken' + Handed' + k - RepliesBefore(k)' = taken + k + 1 - RepliesBefore(k + 1)
        BY <1>0, <2>1, <3>1, <4>1
      <4> QED BY <4>1, <4>3, <4>4
    <3>3. Replies' = {}
      BY <2>1, <2>2, ReadPlaces
    <3>4. sent' = taken' + Handed' + Len(pipe') - (IF Replies' = {} THEN 0 ELSE 1)
      BY <1>0, <1>01, <2>1, <2>2, <3>1, <3>3
    <3> QED BY <1>02, <2>1, <3>1, <3>2, <3>4
  <2>3. CASE 1 \notin Replies
    <3>1. taken' = Head(pipe).n
      BY <1>4, <2>1, <2>3, ReadPlaces, PipeTail DEF ReaderGets, IsEvent, Handles, Message
    <3>2. taken' = taken + 1 /\ (Replies' = {} <=> Replies = {})
      BY <1>0, <2>1, <2>3, <3>1, ReadPlaces DEF NumberInv
    <3>3. ASSUME NEW k \in Events'
          PROVE  pipe'[k].n = taken' + Handed' + k - RepliesBefore(k)'
      <4>1. /\ k \in Nat /\ k + 1 \in Events /\ pipe'[k] = pipe[k + 1]
            /\ RepliesBefore(k)' = RepliesBefore(k + 1)
        BY <2>1, <2>3, ReadPlaces
      <4>2. pipe[k + 1].n = taken + Handed + (k + 1) - RepliesBefore(k + 1)
        BY <4>1, <1>01
      <4>3. pipe[k + 1].n = taken + k + 1 - RepliesBefore(k + 1)
        <5>1. taken \in Nat /\ Handed = 0 /\ k \in Nat /\ RepliesBefore(k + 1) \in {0, 1}
          BY <1>0, <2>1, <4>1 DEF RepliesBefore
        <5> QED BY <4>2, <5>1
      <4>4. taken' + Handed' + k - RepliesBefore(k)' = taken + k + 1 - RepliesBefore(k + 1)
        BY <1>0, <2>1, <3>2, <4>1
      <4> QED BY <4>1, <4>3, <4>4
    <3>4. sent' = taken' + Handed' + Len(pipe') - (IF Replies' = {} THEN 0 ELSE 1)
      BY <1>0, <1>01, <2>1, <2>3, <3>2
    <3> QED BY <1>02, <2>1, <3>2, <3>3, <3>4
  <2> QED BY <2>2, <2>3
<1>5. CASE ReaderTakes
  <2>1. event # None /\ taken' = event.n /\ event' = None /\ UNCHANGED <<pipe, sent>>
    BY <1>5 DEF ReaderTakes, Handles, module
  <2>2. UNCHANGED <<Events, Replies>> /\ Handed = 1 /\ Handed' = 0
    BY <2>1 DEF Handed, Events, Replies
  <2>3. \A k : RepliesBefore(k)' = RepliesBefore(k)
    BY <2>2 DEF RepliesBefore
  <2>4. taken' = taken + 1
    BY <1>01, <2>1
  <2>5. ASSUME NEW k \in Events'
        PROVE  pipe'[k].n = taken' + Handed' + k - RepliesBefore(k)'
    <3>1. k \in Events /\ k \in Nat /\ RepliesBefore(k)' = RepliesBefore(k)
          /\ pipe'[k] = pipe[k]
      BY <1>0, <2>1, <2>2, <2>3
    <3>2. pipe[k].n = taken + Handed + k - RepliesBefore(k)
      BY <3>1, <1>01
    <3>3. RepliesBefore(k) \in {0, 1}
      BY <1>0
    <3>4. taken' + Handed' + k - RepliesBefore(k)' = taken + Handed + k - RepliesBefore(k)
      BY <1>0, <2>2, <2>4, <3>1, <3>3
    <3> QED BY <3>1, <3>2, <3>4
  <2>6. sent' = taken' + Handed' + Len(pipe') - (IF Replies' = {} THEN 0 ELSE 1)
    BY <1>0, <1>01, <2>1, <2>2, <2>4
  <2> QED BY <1>02, <2>1, <2>5, <2>6
<1>6. CASE ReplyerGoesOn \/ StopReading
  <2>1. event = None
    BY <1>6 DEF ReplyerGoesOn, StopReading, SpeechInv, Quiet
  <2>2. event' = None /\ UNCHANGED <<pipe, sent, taken>>
    BY <1>6 DEF ReplyerGoesOn, StopReading, module
  <2> QED BY <2>1, <2>2 DEF NumberInv, Handed, Events, Replies, RepliesBefore
<1>7. CASE \/ Dies \/ Query \/ Speak \/ ReplyerSends \/ ReplyerWaits \/ ReplyerTakes \/ ReplyerReads
           \/ ReplyerBreaks \/ ReplyerWaitsHanded \/ ReplyerDone \/ ReaderWaits \/ ReaderReads
           \/ ReaderBreaks \/ ReaderHanded \/ UNCHANGED vars
  <2>1. UNCHANGED <<pipe, event, taken, sent>>
    BY <1>7 DEF Dies, ModuleDies, Query, Speak, SendsReply, ReplyerSends, ReplyerWaits,
                ReplyerTakes, ReplyerReads, ReplyerBreaks, ReplyerWaitsHanded, ReplyerDone,
                ReaderWaits, ReaderReads, ReaderBreaks, ReaderHanded, vars, module
  <2> QED BY <2>1 DEF NumberInv, Handed, Events, Replies, RepliesBefore
<1> QED BY <1>1, <1>2, <1>3, <1>4, <1>5, <1>6, <1>7
        DEF Next, ModuleSteps, ReplyerSteps, ReaderSteps

(* Nothing of the speech changes when the pipe does not.                   *)
LEMMA SamePlaces ==
  ASSUME pipe' = pipe
  PROVE  /\ Events' = Events /\ Replies' = Replies
         /\ \A i : RepliesBefore(i)' = RepliesBefore(i)
BY DEF Events, Replies, RepliesBefore

(* Every step keeps what is known of the message that is spoken.           *)
LEMMA SpeechStep ==
  ASSUME TypeOK, PipeInv, [Next]_vars
  PROVE  SpeechInv'
<1> USE DEF PipeInv, Busy, Quiet
<1>0. /\ sound \in Nat /\ sent \in Nat /\ None.kind = "none" /\ Events \subseteq Nat
      /\ event # None => event.kind \in {"event", "last"}
      /\ replyer.at \in {"free", "send", "look", "read", "handed", "done"}
      /\ replyer \in [at : {"free", "send", "look", "read", "handed", "done"},
                      cmd : Command, speaks : BOOLEAN]
  BY PipeAssumption DEF TypeOK, Events, None
<1>1. CASE ModuleSteps /\ ModuleAnswers
  <2> DEFINE c == [n |-> replyer.cmd, speaks |-> replyer.speaks]
             m == [kind |-> "reply", n |-> replyer.cmd]
  <2>1. /\ commands = <<c>> /\ Replies = {} /\ reply = None /\ Awaits /\ ~broken
    BY <1>1 DEF ModuleAnswers, AnswerInv
  <2>2. /\ pipe' = Append(pipe, m) /\ commands' = <<>>
        /\ sound' = IF replyer.speaks THEN MaxEvents + 1 ELSE sound
    BY <1>1, <2>1 DEF ModuleAnswers
  <2>3. UNCHANGED <<broken, event, readingEvents, reader, speaking, replyer, answer, dropped>>
    BY <1>1 DEF ModuleSteps, ModuleAnswers
  <2>4. m \in Message /\ m.kind = "reply"
    BY <1>0 DEF Message, Command
  <2> HIDE DEF m
  <2>5. PICK n : n = Len(pipe) + 1
    OBVIOUS
  <2>6. /\ Events' = Events
        /\ \A k \in Events : pipe'[k] = pipe[k]
    BY <2>1, <2>2, <2>4, <2>5, AppendPlaces
  <2>7. CASE replyer.speaks
    <3>1. speaking /\ ~readingEvents /\ reader = "none" /\ Quiet
      BY <2>1, <2>7 DEF SpeechInv, Awaits
    <3> QED BY <1>0, <2>1, <2>2, <2>3, <2>6, <2>7, <3>1 DEF SpeechInv, Awaits
  <2>8. CASE ~replyer.speaks
    <3>1. ~(speaking /\ ~readingEvents)
      BY <2>8 DEF SpeechInv
    <3> QED BY <1>0, <2>1, <2>2, <2>3, <2>6, <2>8, <3>1 DEF SpeechInv
  <2> QED BY <2>7, <2>8, <1>0
<1>2. CASE ModuleSteps /\ ModuleSends
  <2>1. /\ sound > 0 /\ ~broken /\ sound' \in Nat
        /\ UNCHANGED <<broken, commands, event, readingEvents, reader, speaking, replyer, answer, dropped>>
    BY <1>0, <1>2 DEF ModuleSteps, ModuleSends
  <2>2. PICK m \in Message : /\ pipe' = Append(pipe, m) /\ m.kind # "reply"
                             /\ m.kind = "last" => sound' = 0
    <3>1. PICK kind \in {"event", "last"} :
            /\ pipe' = Append(pipe, [kind |-> kind, n |-> sent + 1])
            /\ sound' = IF kind = "last" THEN 0 ELSE sound - 1
      BY <1>2 DEF ModuleSends
    <3>2. [kind |-> kind, n |-> sent + 1] \in Message
      BY <1>0 DEF Message
    <3> QED BY <3>1, <3>2
  <2>3. PICK n : n = Len(pipe) + 1
    OBVIOUS
  <2>4. /\ \A k \in Events : k <= n /\ k \in Nat
        /\ n \in Nat
        /\ \A k \in Events' : (k \in Events /\ pipe'[k] = pipe[k] /\ RepliesBefore(k)' = RepliesBefore(k)) \/ k = n
        /\ RepliesBefore(n)' = IF Replies = {} THEN 0 ELSE 1
    <3>1. Len(pipe) \in Nat /\ n = Len(pipe) + 1
      BY <2>3 DEF TypeOK
    <3>2. /\ \A k \in Events : /\ k \in Nat /\ k <= Len(pipe) /\ pipe'[k] = pipe[k]
                               /\ RepliesBefore(k)' = RepliesBefore(k)
          /\ \A k \in Events' : k \in Events \/ k = n
          /\ RepliesBefore(n)' = IF Replies = {} THEN 0 ELSE 1
      BY <2>2, <2>3, AppendPlaces
    <3> QED BY <3>1, <3>2
  <2>5. speaking /\ reader # "done" /\ event.kind # "last" /\ \A k \in Events : pipe[k].kind # "last"
    BY <1>0, <2>1 DEF SpeechInv
  <2>6. \A i, j \in Events' : pipe'[i].kind = "last" => sound' = 0 /\ j <= i
    <3>1. \A i \in Events' : pipe'[i].kind = "last" => i = n
      BY <2>4, <2>5
    <3>2. pipe'[n] = m
      BY <2>2, <2>3, PipeAppend
    <3>3. \A i \in Events' : pipe'[i].kind = "last" => sound' = 0
      BY <2>2, <3>1, <3>2
    <3>4. \A j \in Events' : j <= n
      BY <2>4
    <3> QED BY <3>1, <3>3, <3>4
  <2>7. ~readingEvents => \A k \in Events' : RepliesBefore(k)' = 1 \/ replyer.at = "done"
    <3>1. ~readingEvents => Awaits \/ replyer.at = "done"
      BY <1>0, <2>1, <2>5 DEF SpeechInv, Awaits
    <3>2. ~readingEvents /\ Awaits => Replies # {}
      BY <2>1, <2>5 DEF SpeechInv, AnswerInv, ReadersInv
    <3> QED BY <2>4, <2>5, <3>1, <3>2 DEF SpeechInv
  <2>8. ~readingEvents =>
          ~(commands # <<>> \/ replyer.at = "send" \/ (replyer.at = "done" /\ answer.n = 0))
    BY <2>1, <2>5 DEF SpeechInv
  <2> QED BY <2>1, <2>5, <2>6, <2>7, <2>8 DEF SpeechInv
<1>3. CASE Dies
  <2>1. /\ UNCHANGED <<commands, pipe, event, readingEvents, reader, speaking, replyer, answer, dropped>>
        /\ sound' = 0
    BY <1>3 DEF Dies, ModuleDies
  <2> QED BY <2>1, SamePlaces DEF SpeechInv
<1>4. CASE Query
  <2>1. /\ UNCHANGED <<commands, pipe, broken, sound, event, readingEvents, reader, speaking, answer, dropped>>
        /\ replyer.at = "free" /\ replyer'.at = "send" /\ replyer'.speaks = FALSE
    BY <1>4 DEF Query, SendsReply, module
  <2> QED BY <2>1, SamePlaces DEF SpeechInv
<1>5. CASE Speak
  <2>1. /\ UNCHANGED <<commands, pipe, broken, sound, event, readingEvents, reader, answer, dropped>>
        /\ replyer.at = "free" /\ replyer'.at = "send" /\ replyer'.speaks = TRUE
        /\ ~speaking /\ speaking'
    BY <1>5 DEF Speak, SendsReply, module
  <2> QED BY <1>0, <2>1, SamePlaces DEF SpeechInv
<1>6. CASE ReplyerSends
  <2>1. /\ UNCHANGED <<pipe, broken, sound, event, readingEvents, reader, speaking, dropped>>
        /\ replyer.at = "send" /\ replyer'.speaks = replyer.speaks /\ replyer'.cmd = replyer.cmd
        /\ replyer'.at \in {"look", "done"}
        /\ replyer'.at = "done" => answer'.cmd = replyer.cmd
    BY <1>6 DEF ReplyerSends, TypeOK
  <2> QED BY <1>0, <2>1, SamePlaces DEF SpeechInv
<1>7. CASE ReplyerTakes
  <2>1. /\ UNCHANGED <<commands, pipe, broken, sound, event, readingEvents, reader, speaking, dropped>>
        /\ reply # None /\ replyer'.speaks = replyer.speaks /\ replyer'.cmd = replyer.cmd
        /\ replyer'.at = "done" /\ answer'.cmd = replyer.cmd /\ replyer.at = "look"
    BY <1>7 DEF ReplyerTakes, Returned, TypeOK, module
  <2>2. readingEvents
    BY <2>1 DEF ReadersInv, SpeechInv
  <2> QED BY <2>1, <2>2, SamePlaces DEF SpeechInv
<1>8. CASE ReplyerGets
  <2>1. /\ UNCHANGED <<commands, broken, sound, readingEvents, reader, speaking>>
        /\ replyer.at = "read" /\ pipe # <<>> /\ pipe' = Tail(pipe)
        /\ replyer'.speaks = replyer.speaks /\ replyer'.cmd = replyer.cmd
        /\ event = None
    BY <1>8, <1>0 DEF ReplyerGets, Returned, ReadersInv
  <2>2. \A k \in Events' : /\ k + 1 \in Events /\ k \in Nat /\ pipe'[k] = pipe[k + 1]
                           /\ RepliesBefore(k)' = IF 1 \in Replies THEN 0 ELSE RepliesBefore(k + 1)
    BY <2>1, ReadPlaces
  <2>3. \A i, j \in Events' : pipe'[i].kind = "last" => sound' = 0 /\ j <= i
    <3>1. ASSUME NEW i \in Events', NEW j \in Events', pipe'[i].kind = "last"
          PROVE  sound' = 0 /\ j <= i
      <4>1. i + 1 \in Events /\ j + 1 \in Events /\ pipe[i + 1].kind = "last" /\ i \in Nat /\ j \in Nat
        BY <2>2, <3>1
      <4>2. sound = 0 /\ j + 1 <= i + 1
        BY <4>1 DEF SpeechInv
      <4> QED BY <2>1, <4>1, <4>2
    <3> QED BY <3>1
  <2>4. CASE 1 \in Replies
    <3>1. ~IsEvent(Head(pipe)) /\ Head(pipe) = pipe[1]
      BY <2>1, <2>4, ReadPlaces, PipeTail DEF IsEvent
    <3>2. /\ replyer'.at = "done" /\ answer'.cmd = replyer.cmd /\ answer'.n = pipe[1].n
          /\ UNCHANGED <<event, dropped>>
      BY <1>8, <1>0, <3>1 DEF ReplyerGets, Returned
    <3>3. answer'.n # 0 /\ commands = <<>>
      BY <1>0, <2>1, <2>4, <3>2 DEF AnswerInv
    <3>4. event.kind # "last"
      BY <1>0, <2>1
    <3> QED BY <2>1, <2>2, <2>3, <3>2, <3>3, <3>4 DEF SpeechInv
  <2>5. CASE 1 \notin Replies
    <3>1. IsEvent(Head(pipe)) /\ 1 \in Events /\ Head(pipe) = pipe[1] /\ RepliesBefore(1) = 0
      BY <2>1, <2>5, ReadPlaces, PipeTail DEF IsEvent, Message
    <3>2. speaking /\ readingEvents /\ reader # "done"
      BY <2>1, <3>1 DEF SpeechInv
    <3>3. /\ event' = pipe[1] /\ replyer'.at = "handed" /\ UNCHANGED <<dropped, answer>>
      BY <1>8, <1>0, <3>1, <3>2 DEF ReplyerGets
    <3>4. pipe[1].kind = "last" => sound = 0 /\ Events' = {}
      <4>1. pipe[1].kind = "last" => \A j \in Events : j <= 1
        BY <3>1 DEF SpeechInv
      <4>2. \A k \in Events' : k + 1 \in Events /\ k \in Nat \ {0}
        BY <2>1, PipeTail DEF Events
      <4> QED BY <3>1, <4>1, <4>2 DEF SpeechInv
    <3> QED BY <2>1, <2>3, <3>2, <3>3, <3>4 DEF SpeechInv
  <2> QED BY <2>4, <2>5
<1>9. CASE ReplyerBreaks
  <2>1. /\ UNCHANGED <<commands, pipe, broken, sound, event, readingEvents, reader, speaking, dropped>>
        /\ replyer'.speaks = replyer.speaks /\ replyer'.cmd = replyer.cmd
        /\ replyer'.at = "done" /\ answer'.cmd = replyer.cmd /\ replyer.at = "read"
        /\ broken /\ pipe = <<>>
    BY <1>9, <1>0 DEF ReplyerBreaks, Returned, module
  <2>2. Quiet
    BY <1>0, <2>1 DEF SpeechInv, ReadersInv, Events
  <2> QED BY <2>1, <2>2, SamePlaces DEF SpeechInv
<1>10. CASE ReplyerReads \/ ReplyerGoesOn
  <2>1. /\ UNCHANGED <<commands, pipe, broken, sound, readingEvents, reader, speaking, answer>>
        /\ replyer'.speaks = replyer.speaks
        /\ replyer.at \in {"look", "handed"} /\ replyer'.at \in {"read", "look"}
    BY <1>10, <1>0 DEF ReplyerReads, ReplyerGoesOn, module
  <2>2. UNCHANGED <<event, dropped>>
    <3>1. CASE ReplyerReads
      BY <3>1 DEF ReplyerReads
    <3>2. CASE ReplyerGoesOn
      <4>1. event = None
        BY <3>2 DEF ReplyerGoesOn, SpeechInv
      <4> QED BY <3>2, <4>1 DEF ReplyerGoesOn, TypeOK
    <3> QED BY <1>10, <3>1, <3>2
  <2> QED BY <2>1, <2>2, SamePlaces DEF SpeechInv
<1>11. CASE ReplyerDone
  <2>1. /\ UNCHANGED <<commands, pipe, broken, sound, event, answer, dropped>>
        /\ replyer'.speaks = replyer.speaks /\ replyer.at = "done" /\ replyer'.at = "free"
        /\ readingEvents' = (readingEvents \/ StartsReading)
        /\ reader' = IF StartsReading THEN "look" ELSE reader
        /\ speaking' = (speaking /\ (replyer.speaks => StartsReading))
    BY <1>11, <1>0 DEF ReplyerDone, module
  <2>2. CASE replyer.speaks
    <3>1. speaking /\ ~readingEvents /\ event = None
      BY <2>1, <2>2 DEF SpeechInv
    <3>2. CASE answer.n = 0
      <4>1. Quiet /\ ~StartsReading /\ ~speaking' /\ reader' = reader /\ (readingEvents' <=> readingEvents)
        BY <2>1, <2>2, <3>1, <3>2 DEF SpeechInv, StartsReading
      <4> QED BY <2>1, <3>1, <4>1, SamePlaces DEF SpeechInv
    <3>3. CASE answer.n # 0
      <4>1. StartsReading /\ reader' = "look" /\ readingEvents' /\ speaking'
        BY <2>1, <2>2, <3>1, <3>3 DEF StartsReading
      <4> QED BY <2>1, <3>1, <4>1, SamePlaces DEF SpeechInv
    <3> QED BY <3>2, <3>3
  <2>3. CASE ~replyer.speaks
    <3>1. reader' = reader /\ (readingEvents' <=> readingEvents) /\ (speaking' <=> speaking)
      BY <2>1, <2>3 DEF StartsReading
    <3>2. ~(speaking /\ ~readingEvents)
      BY <2>3 DEF SpeechInv
    <3> QED BY <2>1, <2>3, <3>1, <3>2, SamePlaces DEF SpeechInv
  <2> QED BY <2>2, <2>3, <1>0
<1>12. CASE ReaderReads \/ ReaderHanded
  <2>1. /\ UNCHANGED <<commands, pipe, broken, sound, event, readingEvents, replyer, speaking, answer, dropped>>
        /\ reader \in {"look", "handed"} /\ reader' \in {"look", "read", "handed"}
    BY <1>12 DEF ReaderReads, ReaderHanded, module
  <2> QED BY <2>1, SamePlaces DEF SpeechInv
<1>13. CASE ReaderTakes
  <2>1. /\ UNCHANGED <<commands, pipe, broken, sound, readingEvents, replyer, speaking, answer, dropped>>
        /\ reader = "look" /\ event' = None /\ event # None
        /\ reader' = IF event.kind = "last" THEN "done" ELSE "look"
    BY <1>13 DEF ReaderTakes, Handles, module
  <2> QED BY <1>0, <2>1, SamePlaces DEF SpeechInv
<1>14. CASE ReaderGets
  <2>1. /\ UNCHANGED <<commands, broken, sound, event, readingEvents, replyer, speaking, answer>>
        /\ reader = "read" /\ pipe # <<>> /\ pipe' = Tail(pipe) /\ event = None
    BY <1>14 DEF ReaderGets, ReadersInv
  <2>2. \A k \in Events' : k + 1 \in Events /\ k \in Nat /\ pipe'[k] = pipe[k + 1]
    BY <2>1, ReadPlaces
  <2>3. \A i, j \in Events' : pipe'[i].kind = "last" => sound' = 0 /\ j <= i
    <3>1. ASSUME NEW i \in Events', NEW j \in Events', pipe'[i].kind = "last"
          PROVE  sound' = 0 /\ j <= i
      <4>1. i + 1 \in Events /\ j + 1 \in Events /\ pipe[i + 1].kind = "last" /\ i \in Nat /\ j \in Nat
        BY <2>2, <3>1
      <4>2. sound = 0 /\ j + 1 <= i + 1
        BY <4>1 DEF SpeechInv
      <4> QED BY <2>1, <4>1, <4>2
    <3> QED BY <3>1
  <2>4. readingEvents /\ speaking
    BY <2>1 DEF SpeechInv
  <2>5. CASE 1 \in Replies
    <3>1. ~IsEvent(Head(pipe))
      BY <2>1, <2>5, ReadPlaces DEF IsEvent
    <3>2. waitingForReply
      BY <2>5 DEF AnswerInv, ReadersInv, Awaits
    <3>3. dropped' = dropped /\ reader' = "handed"
      BY <1>14, <3>1, <3>2 DEF ReaderGets
    <3> QED BY <1>0, <2>1, <2>3, <2>4, <3>3 DEF SpeechInv
  <2>6. CASE 1 \notin Replies
    <3>1. IsEvent(Head(pipe)) /\ 1 \in Events /\ Head(pipe) = pipe[1]
      BY <2>1, <2>6, ReadPlaces, PipeTail DEF IsEvent, Message
    <3>2. dropped' = dropped /\ reader' = IF pipe[1].kind = "last" THEN "done" ELSE "look"
      BY <1>14, <3>1 DEF ReaderGets, Handles
    <3>3. pipe[1].kind = "last" => sound = 0 /\ Events' = {}
      <4>1. pipe[1].kind = "last" => \A j \in Events : j <= 1
        BY <3>1 DEF SpeechInv
      <4>2. \A k \in Events' : k + 1 \in Events /\ k \in Nat \ {0}
        BY <2>1, PipeTail DEF Events
      <4> QED BY <3>1, <4>1, <4>2 DEF SpeechInv
    <3> QED BY <1>0, <2>1, <2>3, <2>4, <3>2, <3>3 DEF SpeechInv
  <2> QED BY <2>5, <2>6
<1>15. CASE ReaderBreaks
  <2>1. /\ UNCHANGED <<commands, pipe, broken, sound, event, readingEvents, replyer, speaking, answer, dropped>>
        /\ reader = "read" /\ reader' = "done" /\ broken /\ pipe = <<>>
    BY <1>15 DEF ReaderBreaks, module
  <2>2. Quiet
    BY <2>1 DEF SpeechInv, ReadersInv, Events
  <2> QED BY <2>1, <2>2, SamePlaces DEF SpeechInv
<1>16. CASE StopReading
  <2>1. /\ UNCHANGED <<commands, pipe, broken, sound, replyer, answer>>
        /\ speaking /\ reader = "done" /\ reader' = "none" /\ ~speaking' /\ ~readingEvents'
        /\ event' = None /\ dropped' = (dropped \/ event # None)
    BY <1>16 DEF StopReading, module
  <2>2. Quiet /\ ~dropped'
    BY <2>1 DEF SpeechInv
  <2> QED BY <1>0, <2>1, <2>2, SamePlaces DEF SpeechInv
<1>17. CASE \/ ReplyerWaits \/ ReplyerWaitsHanded \/ ReaderWaits \/ UNCHANGED vars
  <2>1. UNCHANGED <<commands, pipe, broken, sound, event, readingEvents, reader, replyer, speaking, answer, dropped>>
    BY <1>17 DEF ReplyerWaits, ReplyerWaitsHanded, ReaderWaits, vars, module
  <2> QED BY <2>1, SamePlaces DEF SpeechInv
<1> QED BY <1>1, <1>2, <1>3, <1>4, <1>5, <1>6, <1>7, <1>8, <1>9, <1>10, <1>11, <1>12, <1>13, <1>14, <1>15, <1>16, <1>17
        DEF Next, ModuleSteps, ReplyerSteps, ReaderSteps

-----------------------------------------------------------------------------
(* The invariant holds at first.                                           *)
LEMMA PipeInit == Init => TypeOK /\ PipeInv
<1> SUFFICES ASSUME Init PROVE TypeOK /\ PipeInv
  OBVIOUS
<1>1. Replies = {} /\ Events = {} /\ Handed = 0 /\ Len(pipe) = 0
  BY DEF Init, Replies, Events, Handed
<1>2. TypeOK
  <2>1. commands \in Seq([n : Command, speaks : BOOLEAN]) /\ pipe \in Seq(Message)
    BY DEF Init
  <2>2. 0 \in Command /\ 0 \in 0 .. MaxQueries /\ 0 \in 0 .. MaxSpeak /\ 0 \in 0 .. MaxEvents + 1
    BY PipeAssumption DEF Command
  <2>3. replyer \in [at : {"free", "send", "look", "read", "handed", "done"},
                     cmd : Command, speaks : BOOLEAN]
        /\ answer \in [cmd : Command, n : Command]
    BY <2>2 DEF Init
  <2>4. {broken, readingMessage, readingEvents, waitingForReply, speaking, dropped} \subseteq BOOLEAN
    BY DEF Init
  <2>5. /\ sound \in 0 .. MaxEvents + 1 /\ {sent, taken} \subseteq Nat
        /\ queries \in 0 .. MaxQueries /\ spoken \in 0 .. MaxSpeak
    BY <2>2 DEF Init
  <2>6. /\ reply = None /\ event = None /\ asleep = {}
        /\ reader \in {"none", "look", "read", "handed", "done"}
    BY DEF Init
  <2> QED BY <2>1, <2>3, <2>4, <2>5, <2>6 DEF TypeOK
<1>3. ReadersInv /\ AnswerInv
  BY <1>1 DEF Init, ReadersInv, AnswerInv, Busy, Awaits, OwnReply
<1>4. NumberInv /\ SpeechInv
  BY <1>1 DEF Init, NumberInv, SpeechInv, Quiet, Busy, None
<1> QED BY <1>2, <1>3, <1>4 DEF PipeInv

(* Whatever the two threads do, who reads, what was handed over and what   *)
(* is on its way stay consistent.                                          *)
THEOREM PipeInvariant == Spec => [](TypeOK /\ PipeInv)
<1>1. Init => TypeOK /\ PipeInv
  BY PipeInit
<1>2. TypeOK /\ PipeInv /\ [Next]_vars => (TypeOK /\ PipeInv)'
  BY TypeStep, ReadersStep, AnswerStep, NumberStep, SpeechStep DEF PipeInv
<1> QED BY <1>1, <1>2, PTL DEF Spec

(* output_send_data() returns the reply of its own command, whichever of   *)
(* the two threads read it from the pipe; it returns without one only when *)
(* the module died.                                                        *)
THEOREM OwnReplyCorrect == Spec => []OwnReply
<1>1. TypeOK /\ PipeInv => OwnReply
  BY DEF PipeInv, AnswerInv
<1> QED BY <1>1, PipeInvariant, PTL

(* The event that is handled next is the one the module sent next.         *)
LEMMA HandledInOrder ==
  ASSUME TypeOK, PipeInv, [Next]_vars, taken' # taken
  PROVE  taken' = taken + 1
<1> USE DEF PipeInv
<1>1. CASE ReaderTakes
  BY <1>1 DEF ReaderTakes, Handles, NumberInv
<1>2. CASE ReaderGets
  <2>1. pipe # <<>> /\ pipe' = Tail(pipe) /\ event = None
    BY <1>2 DEF ReaderGets, ReadersInv
  <2>2. IsEvent(Head(pipe)) /\ taken' = Head(pipe).n
    BY <1>2 DEF ReaderGets, Handles
  <2>3. 1 \in Events /\ Head(pipe) = pipe[1] /\ RepliesBefore(1) = 0
    BY <2>1, <2>2, ReadPlaces DEF IsEvent
  <2>4. pipe[1].n = taken + Handed + 1 - RepliesBefore(1)
    BY <2>3 DEF NumberInv
  <2>5. Handed = 0 /\ taken \in Nat
    BY <2>1 DEF Handed, TypeOK
  <2> QED BY <2>2, <2>3, <2>4, <2>5
<1> QED BY <1>1, <1>2
        DEF Next, ReplyerSteps, ReaderSteps, vars, ModuleSteps, Dies, Query, Speak, ReplyerSends,
            ReplyerWaits, ReplyerTakes, ReplyerReads, ReplyerGets, ReplyerBreaks,
            ReplyerWaitsHanded, ReplyerGoesOn, ReplyerDone, ReaderWaits, ReaderReads,
            ReaderBreaks, ReaderHanded, StopReading

(* A message ends when all that the module sent was handled.               *)
LEMMA EndsHandled ==
  ASSUME TypeOK, PipeInv, [Next]_vars, speaking, ~speaking', ~broken
  PROVE  taken = sent
<1> USE DEF PipeInv
<1>0. Len(pipe) \in Nat /\ sent \in Nat /\ taken \in Nat /\ DOMAIN pipe = 1 .. Len(pipe)
  BY DEF TypeOK
<1>1. StopReading \/ ReplyerDone
  BY DEF Next, ReplyerSteps, ReaderSteps, vars, ModuleSteps, Dies, Query, Speak, ReplyerSends,
         ReplyerWaits, ReplyerTakes, ReplyerReads, ReplyerGets, ReplyerBreaks,
         ReplyerWaitsHanded, ReplyerGoesOn, ReaderWaits, ReaderTakes, ReaderReads, ReaderGets,
         ReaderBreaks, ReaderHanded
<1>2. CASE StopReading
  <2>1. Quiet
    BY <1>2 DEF StopReading, SpeechInv
  <2>2. Handed = 0 /\ Events = {}
    BY <2>1 DEF Quiet, Handed
  <2>3. Replies = 1 .. Len(pipe)
    BY <1>0, <2>2 DEF Events, Replies
  <2>4. Len(pipe) = IF Replies = {} THEN 0 ELSE 1
    <3>1. CASE Len(pipe) = 0
      BY <2>3, <3>1
    <3>2. CASE Len(pipe) > 0
      <4>1. 1 \in Replies /\ Len(pipe) \in Replies
        BY <1>0, <2>3, <3>2
      <4> QED BY <4>1 DEF AnswerInv
    <3> QED BY <1>0, <3>1, <3>2
  <2> QED BY <1>0, <2>2, <2>4 DEF NumberInv
<1>3. CASE ReplyerDone
  <2>1. replyer.at = "done" /\ replyer.speaks /\ answer.n = 0
    BY <1>3 DEF ReplyerDone, StartsReading
  <2> QED BY <2>1 DEF SpeechInv, Busy, AnswerInv, OwnReply
<1> QED BY <1>1, <1>2, <1>3

(* The events of a message are handled in the order in which the module    *)
(* sent them, none is skipped, repeated or thrown away, and the message is *)
(* over only when all were handled.                                        *)
THEOREM EventsInOrderCorrect == Spec => EventsInOrder
<1>1. /\ TypeOK /\ PipeInv /\ [Next]_vars
      /\ (TypeOK /\ PipeInv)'
      => [/\ taken' # taken => taken' = taken + 1
          /\ speaking /\ ~speaking' /\ ~broken => taken = sent
          /\ ~dropped']_vars
  <2> SUFFICES ASSUME TypeOK, PipeInv, [Next]_vars, (TypeOK /\ PipeInv)'
               PROVE  /\ taken' # taken => taken' = taken + 1
                      /\ speaking /\ ~speaking' /\ ~broken => taken = sent
                      /\ ~dropped'
    OBVIOUS
  <2>1. ~dropped'
    BY DEF PipeInv, SpeechInv
  <2> QED BY <2>1, HandledInOrder, EndsHandled
<1> QED BY <1>1, PipeInvariant, PTL DEF Spec, EventsInOrder

-----------------------------------------------------------------------------
(* Who wakes whom.  While a thread sleeps in pthread_cond_wait() the other *)
(* one is awake, at a place from which its next steps signal the sleeper,  *)
(* but for the output thread when the replyer read its own reply.          *)
WakersInv ==
  /\ reply = None \/ event = None
  /\ "replyer" \in asleep =>
       /\ Awake("reader")
       /\ \/ replyer.at = "look" /\ reply = None /\ reader = "read"
          \/ replyer.at = "handed" /\ event # None /\ reader \in {"look", "handed"}
  /\ "reader" \in asleep =>
       /\ Awake("replyer")
       /\ \/ reader = "handed" /\ reply # None /\ replyer.at \in {"look", "handed"}
          \/ /\ reader = "look" /\ event = None
             /\ replyer.at \in {"send", "look", "read"} \/ Forgotten

LEMMA WakersStep ==
  ASSUME TypeOK, PipeInv, WakersInv, [Next]_vars
  PROVE  WakersInv'
<1> USE DEF WakersInv, Awake, Forgotten
<1>0. /\ asleep \subseteq {"replyer", "reader"}
      /\ readingMessage <=> (replyer.at = "read" \/ reader = "read")
      /\ ~(replyer.at = "read" /\ reader = "read")
      /\ reply # None => reader = "handed" /\ replyer.at # "read"
      /\ event # None => replyer.at = "handed" /\ reader # "read"
      /\ waitingForReply <=> Busy
  BY DEF TypeOK, PipeInv, ReadersInv
<1>1. /\ reader = "done" => event = None
      /\ event # None => reader # "none" /\ readingEvents
      /\ reader # "none" <=> readingEvents
      /\ "replyer" \in asleep => replyer.at \in {"look", "handed"}
      /\ reply # None => replyer.at \in {"look", "handed"}
  <2>1. reply # None => replyer.at \in {"look", "handed"}
    BY <1>0 DEF TypeOK, PipeInv, AnswerInv, Awaits
  <2> QED BY <1>0, <2>1 DEF TypeOK, PipeInv, SpeechInv, Quiet
<1>2. CASE ModuleSteps \/ Dies \/ UNCHANGED vars
  BY <1>2 DEF ModuleSteps, Dies, vars
<1>3. CASE Query \/ Speak
  BY <1>0, <1>1, <1>3 DEF Query, Speak, SendsReply
<1>4. CASE ReplyerSteps
  <2>1. CASE ReplyerSends
    BY <1>0, <1>1, <2>1 DEF ReplyerSends, TypeOK
  <2>2. CASE ReplyerWaits
    BY <1>0, <1>1, <2>2 DEF ReplyerWaits
  <2>3. CASE ReplyerTakes
    BY <1>0, <1>1, <2>3 DEF ReplyerTakes, Returned, TypeOK
  <2>4. CASE ReplyerReads
    BY <1>0, <1>1, <2>4 DEF ReplyerReads, TypeOK
  <2>5. CASE ReplyerGets
    BY <1>0, <1>1, <2>5 DEF ReplyerGets, Returned, TypeOK
  <2>6. CASE ReplyerBreaks
    BY <1>0, <1>1, <2>6 DEF ReplyerBreaks, Returned, TypeOK
  <2>7. CASE ReplyerWaitsHanded
    BY <1>0, <1>1, <2>7 DEF ReplyerWaitsHanded, TypeOK
  <2>8. CASE ReplyerGoesOn
    BY <1>0, <1>1, <2>8 DEF ReplyerGoesOn, TypeOK
  <2>9. CASE ReplyerDone
    BY <1>0, <1>1, <2>9 DEF ReplyerDone, TypeOK
  <2> QED BY <1>4, <2>1, <2>2, <2>3, <2>4, <2>5, <2>6, <2>7, <2>8, <2>9 DEF ReplyerSteps
<1>5. CASE ReaderSteps
  <2>1. CASE ReaderWaits
    BY <1>0, <1>1, <2>1 DEF ReaderWaits
  <2>2. CASE ReaderTakes
    BY <1>0, <1>1, <2>2 DEF ReaderTakes, Handles
  <2>3. CASE ReaderReads
    BY <1>0, <1>1, <2>3 DEF ReaderReads
  <2>4. CASE ReaderGets
    BY <1>0, <1>1, <2>4 DEF ReaderGets, SignalsReply, Handles
  <2>5. CASE ReaderBreaks
    BY <1>0, <1>1, <2>5 DEF ReaderBreaks, SignalsReply
  <2>6. CASE ReaderHanded
    BY <1>0, <1>1, <2>6 DEF ReaderHanded
  <2> QED BY <1>5, <2>1, <2>2, <2>3, <2>4, <2>5, <2>6 DEF ReaderSteps
<1>6. CASE StopReading
  BY <1>0, <1>1, <1>6 DEF StopReading
<1> QED BY <1>2, <1>3, <1>4, <1>5, <1>6 DEF Next

(* The two threads that read a module's pipe, output_read_reply() and the  *)
(* output thread, never sleep at once, and a sleeper's waker is awake: it  *)
(* reads the pipe, is about to, or has a line to take.  Only the output    *)
(* thread can be left asleep, and only as Forgotten says.  This is the     *)
(* safety half of AllAnswered and AllHandled.                              *)
THEOREM NoMutualWaitCorrect == Spec => []WakersInv
<1>1. Init => WakersInv
  BY DEF Init, WakersInv, None
<1>2. TypeOK /\ PipeInv /\ WakersInv /\ [Next]_vars => WakersInv'
  BY WakersStep
<1> QED BY <1>1, <1>2, PipeInvariant, PTL DEF Spec
=============================================================================
