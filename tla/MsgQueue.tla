------------------------------ MODULE MsgQueue ------------------------------
(***************************************************************************)
(* The GLib list operations that the message queues of the server are      *)
(* built from (src/src/server/speaking.c).  A GList of messages is a       *)
(* sequence.  Every removal of several elements is KeepAt: the elements at *)
(* a set of positions, in their order.                                     *)
(***************************************************************************)
EXTENDS Naturals, Sequences, FiniteSets

(* How many positions of I are at or before i. *)
Rank(I, i) == Cardinality({j \in I : j <= i})

(* The elements of s at the positions I, in order. *)
KeepAt(s, I) ==
  [k \in 1 .. Cardinality(I) |-> s[CHOOSE i \in I : Rank(I, i) = k]]

(* s without the elements that are in D (g_list_remove_link in a loop). *)
Without(s, D) == KeepAt(s, {i \in DOMAIN s : s[i] \notin D})

(* The elements of s, and s as a list that holds x. *)
Elements(s) == {s[i] : i \in DOMAIN s}

(* g_list_last()->data; the list must not be empty. *)
LastOf(s) == s[Len(s)]

(* The members of s that stand in the run of members of D that ends s. *)
TrailingRun(s, D) ==
  {i \in DOMAIN s : \A j \in i .. Len(s) : s[j] \in D}

(* s without the run of members of D that ends it: the loops of              *)
(* speaking_stop() and speaking_stop_all() take g_list_last() while it matches. *)
DropTrailing(s, D) == KeepAt(s, DOMAIN s \ TrailingRun(s, D))

(* The positions that g_list_insert_sorted() walks over with sortbyuid():  *)
(* it stops before the first element whose id is not smaller.              *)
Before(s, m) == {i \in DOMAIN s : \A j \in 1 .. i : s[j].id < m.id}

(* g_list_insert_sorted(s, m, sortbyuid), also when s is not sorted. *)
InsertById(s, m) ==
  LET k == Cardinality(Before(s, m))
  IN  SubSeq(s, 1, k) \o <<m>> \o SubSeq(s, k + 1, Len(s))
=============================================================================
