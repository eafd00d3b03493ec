---------------------------- MODULE MessageText ----------------------------
(***************************************************************************)
(* What happens to the text of a message between the client that says it   *)
(* and the synthesizer: dots are doubled and undone on each of two lines,  *)
(* index marks are put in and entities for what XML reserves, the module   *)
(* takes them out and cuts the text into parts.                            *)
(*                                                                         *)
(* A text is a sequence of bytes, of which these matter: NL, CR, the dot,  *)
(* the less-than sign, and the two bytes of a long character.  A tag or an *)
(* entity is one element.                                                  *)
(***************************************************************************)
EXTENDS Naturals, Sequences, SequencesExt, FiniteSets

CONSTANT MaxPart      \* the room for a part, in bytes

ASSUME PartAssumption == MaxPart \in Nat \ {0, 1}   \* a long character fits

NL == "newline"
CR == "return"
Dot == "."
Less == "<"
Lead == "lead byte"
Tail2 == "second byte"
LessEntity == "&lt;"
SpeakTag == "<speak>"
EndTag == "</speak>"
MarkTag == "<mark>"

Space(c) == c \in {NL, CR, " "}

(* t with each element replaced by the elements that F gives its position. *)
Expand(t, F(_)) == FlattenSeq([i \in DOMAIN t |-> F(i)])

Bytes(chars) ==
  Expand(chars, LAMBDA i : IF chars[i] = "long" THEN <<Lead, Tail2>> ELSE <<chars[i]>>)

-----------------------------------------------------------------------------
(* Between the client and the server: escape_dot() of libspeechd.c, the    *)
(* lines of parse() up to the terminator, and deescape_dot().              *)

AfterCrLf(t, i) == i = 1 \/ (i > 2 /\ t[i - 2] = CR /\ t[i - 1] = NL)

ClientEscaped(t) ==
  Expand(t, LAMBDA i : IF t[i] = Dot /\ AfterCrLf(t, i) THEN <<Dot, Dot>> ELSE <<t[i]>>)

Terminator == <<CR, NL, Dot, CR, NL>>

(* The bytes before the first line that is a dot, less the CRLF before it. *)
Collected(data) ==
  LET dots == {i \in DOMAIN data : /\ data[i] = Dot /\ AfterCrLf(data, i)
                                   /\ i + 2 <= Len(data) /\ SubSeq(data, i + 1, i + 2) = <<CR, NL>>}
      dot  == CHOOSE i \in dots : \A j \in dots : i <= j
  IN  SubSeq(data, 1, IF dot > 3 THEN dot - 3 ELSE dot - 1)

Deescaped(t) ==
  Expand(t, LAMBDA i : IF /\ t[i] = Dot /\ AfterCrLf(t, i)
                          /\ i < Len(t) /\ t[i + 1] = Dot
                       THEN <<>> ELSE <<t[i]>>)

-----------------------------------------------------------------------------
(* Index marks, in a message that is no SSML: insert_index_marks(),        *)
(* find_index_mark() and strip_index_marks().                              *)

Entity(c) == IF c = Less THEN LessEntity ELSE c

(* A sentence ends with a dot before a space or a tag, not at the very end. *)
BuggyEndsSentence(t, i) == t[i] = Dot /\ i < Len(t)
EndsSentence(t, i) ==
  t[i] = Dot /\ i < Len(t) /\ (Space(t[i + 1]) \/ t[i + 1] = Less)

Marked(t) ==
  <<SpeakTag>>
  \o Expand(t, LAMBDA i : IF EndsSentence(t, i) THEN <<Dot, MarkTag>> ELSE <<Entity(t[i])>>)
  \o <<EndTag>>

Marks(b) == {i \in DOMAIN b : b[i] = MarkTag}

(* find_index_mark(): what follows the mark numbered n, from 0 on.         *)
AfterMark(b, n) ==
  SubSeq(b, 1 + (CHOOSE i \in Marks(b) : Cardinality({j \in Marks(b) : j < i}) = n), Len(b))

(* strip_index_marks() in data mode text *)
Stripped(b) ==
  LET plain == Expand(b, LAMBDA i : IF b[i] = MarkTag THEN <<>> ELSE <<b[i]>>)
      ends  == {i \in DOMAIN plain : plain[i] = EndTag}
      end   == CHOOSE i \in ends : \A j \in ends : i <= j
  IN  IF ends = {} THEN plain ELSE SubSeq(plain, 1, end - 1)

-----------------------------------------------------------------------------
(* Between the server and the module: escape_dot() of output.c, and the    *)
(* dots that cmd_speak() takes away.                                       *)

AfterNl(t, i) == i = 1 \/ t[i - 1] = NL

BuggyModuleEscaped(t) ==
  Expand(t, LAMBDA i : IF t[i] = Dot /\ AfterCrLf(t, i) THEN <<Dot, Dot>> ELSE <<t[i]>>)
ModuleEscaped(t) ==
  Expand(t, LAMBDA i : IF t[i] = Dot /\ AfterNl(t, i) THEN <<Dot, Dot>> ELSE <<t[i]>>)

Unstuffed(line) == IF line # <<>> /\ Head(line) = Dot THEN Tail(line) ELSE line

-----------------------------------------------------------------------------
(* In the module: module_strip_ssml() and module_get_message_part().       *)

WithoutSsml(t) ==
  Expand(t, LAMBDA i : CASE t[i] \in {SpeakTag, EndTag, MarkTag} -> <<>>
                         [] t[i] = LessEntity -> <<Less>>
                         [] OTHER -> <<t[i]>>)

(* Where a part of t that starts after position pos ends.  The length of   *)
(* the whole text is compared with a position in the part.                 *)
Fits(c, i) == c = Lead => i < MaxPart - 1

Breaks(t, p, i) ==
  \/ Len(t) - 1 - i > 2 /\ p < Len(t) /\ t[p] = Dot /\ Space(t[p + 1])
  \/ Len(t) - 1 - i > 2 /\ p < Len(t) /\ t[p] = NL /\ t[p + 1] = NL
  \/ Len(t) - 1 - i > 4 /\ p + 3 <= Len(t) /\ SubSeq(t, p, p + 3) = <<CR, NL, CR, NL>>

PartEnd(t, pos) ==
  LET room  == IF MaxPart < Len(t) - pos THEN MaxPart ELSE Len(t) - pos
      stops == {i \in 0 .. room : \/ i = room
                                  \/ i < room /\ ~Fits(t[pos + i + 1], i)
                                  \/ i > 0 /\ Breaks(t, pos + i, i - 1)}
  IN  pos + (CHOOSE i \in stops : \A j \in stops : i <= j)
=============================================================================
