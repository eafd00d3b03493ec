---------------------------- MODULE ModuleInput ----------------------------
(***************************************************************************)
(* A message on its way to a module: the server writes it into the pipe in *)
(* two pieces, the module reads what has come and takes lines out of its   *)
(* buffer (module_readline.c), cmd_speak() collects the lines, and the     *)
(* synthesizer is given the text in parts.                                 *)
(*                                                                         *)
(* A read returns what is in the pipe, up to the room in the buffer; how   *)
(* much that is depends on when the server's second write happens.  The    *)
(* buffer grows by doubling and keeps its old contents.                    *)
(***************************************************************************)
EXTENDS MessageText, Integers, FiniteSets

CONSTANTS
  Alphabet,    \* the characters of a text
  MaxLength,   \* the most characters
  MaxLines,    \* the most lines
  Sizes        \* how large earlier lines have made the buffer

ASSUME InputAssumption ==
  /\ Alphabet \cap {Lead, Tail2, LessEntity, SpeakTag, EndTag, MarkTag} = {}
  /\ MaxLength \in Nat /\ MaxLines \in Nat /\ Sizes \subseteq Nat

VARIABLES
  said,        \* what the client says
  kind,        \* "text", or "char" for SSIP CHAR
  server,      \* what the server does next
  buf,         \* msg->buf
  pipe,        \* bytes in the pipe
  data, ptr, used, noLf, \* the buffer: data_ptr, data_used, data_no_lf
  lines,       \* the lines module_readline() returned
  text,        \* what cmd_speak() has collected
  module,      \* what the module does next
  pos, parts   \* the parts given to the synthesizer

serverVars == <<said, kind, server, buf>>
buffer     == <<data, ptr, used, noLf>>
speaking   == <<pos, parts>>
inputVars  == <<serverVars, pipe, buffer, lines, text, module, speaking>>

LinesOf(t) == 1 + Cardinality({i \in DOMAIN t : t[i] = NL})

Texts == {t \in BoundedSeq(Alphabet, MaxLength) : t # <<>> /\ LinesOf(t) <= MaxLines}
Characters == {<<c>> : c \in Alphabet \ {NL, CR}}

Stale == "stale"

InputInit ==
  /\ \/ kind = "text" /\ said \in Texts
     \/ kind = "char" /\ said \in Characters
  /\ server = "receive" /\ buf = <<>> /\ pipe = <<>>
  /\ \E size \in Sizes : data = [i \in 1 .. size |-> Stale]
  /\ ptr = 0 /\ used = 0 /\ noLf = 0 /\ lines = <<>> /\ text = <<>>
  /\ module = "command" /\ pos = 0 /\ parts = <<>>

-----------------------------------------------------------------------------
(* The server. *)

(* The data mode of parse(), or parse_char(). *)
Receive ==
  /\ server = "receive" /\ server' = "prepare"
  /\ buf' = IF kind = "text" THEN Deescaped(Collected(ClientEscaped(Bytes(said)) \o Terminator))
            ELSE Bytes(said)
  /\ UNCHANGED <<said, kind, pipe, buffer, lines, text, module, speaking>>

(* speak() puts in the index marks, output_speak() escapes dots in place,  *)
(* sends SPEAK or CHAR and waits for the module to receive the message.    *)
Prepare ==
  /\ server = "prepare" /\ server' = "text"
  /\ buf' = ModuleEscaped(IF kind = "text" THEN Marked(buf) ELSE buf)
  /\ module' = "read"
  /\ UNCHANGED <<said, kind, pipe, buffer, lines, text, speaking>>

WriteText ==
  /\ server = "text" /\ server' = "end"
  /\ pipe' = pipe \o buf
  /\ UNCHANGED <<said, kind, buf, buffer, lines, text, module, speaking>>

WriteEnd ==
  /\ server = "end" /\ server' = "done"
  /\ pipe' = pipe \o <<NL, Dot, NL>>
  /\ UNCHANGED <<said, kind, buf, buffer, lines, text, module, speaking>>

-----------------------------------------------------------------------------
(* module_readline(), in blocking mode.  Positions count from 0. *)

At(i) == data[i + 1]

Pending(from) == {i \in from .. ptr + used - 1 : At(i) = NL}

(* The bytes from ptr on, n of them; a negative n is a very large size_t,  *)
(* which strndup() cuts where the buffer ends.                             *)
Slice(n) == SubSeq(data, ptr + 1, IF n >= 0 THEN ptr + n ELSE Len(data))

(* A line is returned, and cmd_speak() collects it. *)
TakeLine ==
  /\ module = "read" /\ used > 0 /\ Pending(noLf) # {}
  /\ LET nl   == CHOOSE i \in Pending(noLf) : \A j \in Pending(noLf) : i <= j
         n    == nl + 1 - ptr
         line == Slice(n)
     IN  /\ lines' = Append(lines, line)
         /\ noLf' = nl + 1 /\ used' = used - n
         /\ ptr' = IF used - n = 0 THEN 0 ELSE ptr + n
         /\ IF line = <<Dot, NL>>
            THEN module' = "strip" /\ text' = (IF text = <<>> THEN <<>> ELSE Front(text))
            ELSE text' = text \o Unstuffed(line) /\ UNCHANGED module
  /\ UNCHANGED <<serverVars, pipe, data, speaking>>

(* Room is made at the end of the buffer, and what has come is read.  The  *)
(* search for a line starts over at the beginning of the buffer.           *)
Grown(d) == d \o [i \in 1 .. (IF d = <<>> THEN 2 ELSE Len(d)) |-> Stale]

BuggyMoved == [i \in DOMAIN data |-> IF i <= used THEN data[i] ELSE data[i]]
Moved == [i \in DOMAIN data |-> IF i <= used THEN data[ptr + i] ELSE data[i]]

Stored(d, p, bytes) ==
  [i \in DOMAIN d |-> IF i - p - used \in DOMAIN bytes THEN bytes[i - p - used] ELSE d[i]]

ReadMore ==
  /\ module = "read" /\ pipe # <<>>
  /\ used = 0 \/ Pending(noLf) = {}
  /\ LET full == ptr + used = Len(data)
         p    == IF full THEN 0 ELSE ptr
         d    == CASE ~full -> data [] full /\ ptr > 0 -> Moved [] OTHER -> Grown(data)
         room == Len(d) - p - used
         n    == IF room < Len(pipe) THEN room ELSE Len(pipe)
     IN  /\ data' = Stored(d, p, SubSeq(pipe, 1, n))
         /\ pipe' = SubSeq(pipe, n + 1, Len(pipe))
         /\ ptr' = p /\ used' = used + n /\ noLf' = 0
  /\ UNCHANGED <<serverVars, lines, text, module, speaking>>

-----------------------------------------------------------------------------
(* The module speaks: a text without its tags, in parts. *)

Strip ==
  /\ module = "strip" /\ module' = "speak"
  /\ text' = IF kind = "text" THEN WithoutSsml(text) ELSE text
  /\ UNCHANGED <<serverVars, pipe, buffer, lines, speaking>>

SpeakPart ==
  /\ module = "speak" /\ pos < Len(text)
  /\ pos' = PartEnd(text, pos)
  /\ parts' = Append(parts, SubSeq(text, pos + 1, pos'))
  /\ UNCHANGED <<serverVars, pipe, buffer, lines, text, module>>

Spoken ==
  /\ module = "speak" /\ pos = Len(text) /\ module' = "spoken"
  /\ UNCHANGED <<serverVars, pipe, buffer, lines, text, speaking>>

InputNext ==
  \/ Receive \/ Prepare \/ WriteText \/ WriteEnd
  \/ TakeLine \/ ReadMore \/ Strip \/ SpeakPart \/ Spoken

InputSpec == InputInit /\ [][InputNext]_inputVars

-----------------------------------------------------------------------------
(* What a client says is what the synthesizer is given, in parts none of   *)
(* which cuts a character in two, whatever the text looks like: no dot is  *)
(* lost or added, no line ends the message early, no sign is taken for a   *)
(* tag.                                                                    *)
SpokenAsSaid ==
  module = "spoken" => /\ FlattenSeq(parts) = Bytes(said)
                       /\ \A i \in DOMAIN parts : Last(parts[i]) # Lead /\ Head(parts[i]) # Tail2

(* Each line that is read is one of those written, in their order.         *)
LinesAsWritten ==
  server = "done" /\ pipe = <<>> => IsPrefix(FlattenSeq(lines), buf \o <<NL, Dot, NL>>)

(* A message that was paused can be resumed at every index mark: from each *)
(* mark of msg->buf, reload_message() finds what follows that sentence.    *)
(* The dots at the start of a line and the entities are still escaped: the *)
(* next output_speak() escapes them once more (see README).                *)
SentenceEnds == {i \in DOMAIN said :
  i < Len(said) /\ said[i] = Dot /\ (Space(said[i + 1]) \/ said[i + 1] = Less)}

Plain(t) ==
  WithoutSsml(Expand(t, LAMBDA i : IF t[i] = Dot /\ i > 1 /\ t[i - 1] = NL THEN <<>> ELSE <<t[i]>>))

ResumesAtMarks ==
  kind = "text" /\ server \in {"text", "end", "done"} =>
    /\ Cardinality(Marks(buf)) = Cardinality(SentenceEnds)
    /\ \A i \in SentenceEnds :
         LET n == Cardinality({j \in SentenceEnds : j < i})
         IN  Plain(Stripped(AfterMark(buf, n))) = Bytes(SubSeq(said, i + 1, Len(said)))
=============================================================================
