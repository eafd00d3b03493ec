--------------------------- MODULE SpeakingProofs ---------------------------
(***************************************************************************)
(* Proofs about Speaking, for any number of clients, descriptors, messages *)
(* and commands, and with every environment choice (marks, failures,       *)
(* disconnections, broken modules) on or off: the types, the session of    *)
(* the output layer, max_fd, who owns a message and what the queues may    *)
(* hold; then what becomes of the messages: that they interrupt each other *)
(* as the priorities say, that none is lost or stranded, the order of the  *)
(* events of a message, and that the settings of a client outlive its      *)
(* messages.  The hypotheses of a theorem name the commands and the        *)
(* failures without which the code keeps the property.                     *)
(***************************************************************************)
EXTENDS MCSpeaking, FiniteSetTheorems, FunctionTheorems, TLAPS

-----------------------------------------------------------------------------
(* The list operations of MsgQueue, for lists of any length.               *)

(* The domain of a list is finite, and so is every set of its positions.   *)
LEMMA PositionsFinite ==
  ASSUME NEW S, NEW s \in Seq(S), NEW I \in SUBSET DOMAIN s
  PROVE  /\ IsFiniteSet(I) /\ Cardinality(I) \in Nat
         /\ Cardinality(I) <= Len(s)
         /\ I \subseteq Nat
<1>1. DOMAIN s = 1 .. Len(s) /\ Len(s) \in Nat
  OBVIOUS
<1>2. IsFiniteSet(1 .. Len(s)) /\ Cardinality(1 .. Len(s)) = Len(s)
  <2>1. 1 \in Int /\ Len(s) \in Int
    BY <1>1
  <2>2. IsFiniteSet(1 .. Len(s))
        /\ Cardinality(1 .. Len(s)) = IF 1 > Len(s) THEN 0 ELSE Len(s) - 1 + 1
    BY <2>1, FS_Interval
  <2> QED BY <1>1, <2>2
<1>3. QED
  BY <1>1, <1>2, FS_Subset, FS_CardinalityType

(* Rank numbers the positions of I: it grows with the position, and every  *)
(* number up to |I| is the rank of one position.                           *)
LEMMA RankOnto ==
  ASSUME NEW I, IsFiniteSet(I), I \subseteq Nat
  PROVE  /\ \A k \in 1 .. Cardinality(I) : \E i \in I : Rank(I, i) = k
         /\ \A i \in I : Rank(I, i) \in 1 .. Cardinality(I)
         /\ \A i, j \in I : i < j => Rank(I, i) < Rank(I, j)
         /\ \A i, j \in I : Rank(I, i) = Rank(I, j) => i = j
<1> DEFINE upto(i) == {j \in I : j <= i}
           f == [i \in I |-> Rank(I, i)]
           n == Cardinality(I)
<1>1. n \in Nat
  BY FS_CardinalityType
<1>2. \A i \in I : IsFiniteSet(upto(i)) /\ Cardinality(upto(i)) <= n
  <2> TAKE i \in I
  <2>1. upto(i) \subseteq I
    OBVIOUS
  <2> QED BY <2>1, FS_Subset
<1>3. \A i \in I : Cardinality(upto(i)) \in 1 .. n
  <2> TAKE i \in I
  <2>1. i \in upto(i)
    OBVIOUS
  <2>2. Cardinality(upto(i)) \in Nat
    BY <1>2, FS_CardinalityType
  <2>3. Cardinality(upto(i)) # 0
    BY <1>2, <2>1, FS_EmptySet
  <2> QED BY <1>1, <1>2, <2>2, <2>3
<1>4. \A i, j \in I : i < j => Cardinality(upto(i)) < Cardinality(upto(j))
  <2> SUFFICES ASSUME NEW i \in I, NEW j \in I, i < j
               PROVE  Cardinality(upto(i)) < Cardinality(upto(j))
    OBVIOUS
  <2>1. upto(i) \subseteq upto(j)
    <3> SUFFICES ASSUME NEW x \in upto(i) PROVE x \in upto(j)
      OBVIOUS
    <3>1. x \in I /\ x \in Nat /\ i \in Nat /\ j \in Nat /\ x <= i
      OBVIOUS
    <3> QED BY <3>1
  <2>2. j \in upto(j) /\ j \notin upto(i)
    OBVIOUS
  <2>3. Cardinality(upto(i)) <= Cardinality(upto(j))
        /\ (Cardinality(upto(i)) = Cardinality(upto(j)) => upto(i) = upto(j))
    BY <1>2, <2>1, FS_Subset
  <2>4. Cardinality(upto(i)) \in Nat /\ Cardinality(upto(j)) \in Nat
    BY <1>3, <1>1
  <2> QED BY <2>2, <2>3, <2>4
<1>5. \A i, j \in I : Rank(I, i) = Rank(I, j) => i = j
  <2> SUFFICES ASSUME NEW i \in I, NEW j \in I, i # j
               PROVE  Rank(I, i) # Rank(I, j)
    OBVIOUS
  <2>1. i < j \/ j < i
    OBVIOUS
  <2>2. Cardinality(upto(i)) \in Nat /\ Cardinality(upto(j)) \in Nat
    BY <1>3, <1>1
  <2> QED BY <1>4, <2>1, <2>2 DEF Rank
<1>6. f \in [I -> 1 .. n]
  BY <1>3 DEF Rank
<1>7. f \in Injection(I, 1 .. n)
  BY <1>5, <1>6, Fun_IsInj
<1>8. IsFiniteSet(1 .. n) /\ Cardinality(1 .. n) = n
  BY <1>1, FS_Interval
<1>9. f \in Surjection(I, 1 .. n)
  BY <1>7, <1>8, FS_Injection
<1>10. \A k \in 1 .. n : \E i \in I : f[i] = k
  BY <1>9, Fun_IsSurj DEF Surjection
<1> QED BY <1>3, <1>4, <1>5, <1>10 DEF Rank

(* KeepAt returns a list of the elements at the positions it was given.    *)
LEMMA KeepAtType ==
  ASSUME NEW S, NEW s \in Seq(S), NEW I \in SUBSET DOMAIN s
  PROVE  /\ KeepAt(s, I) \in Seq(S)
         /\ Len(KeepAt(s, I)) = Cardinality(I)
         /\ Elements(KeepAt(s, I)) = {s[i] : i \in I}
<1> DEFINE at(k) == CHOOSE i \in I : Rank(I, i) = k
<1>1. IsFiniteSet(I) /\ Cardinality(I) \in Nat /\ I \subseteq Nat
  BY PositionsFinite
<1>2. \A k \in 1 .. Cardinality(I) : at(k) \in I /\ Rank(I, at(k)) = k
  BY <1>1, RankOnto
<1>3. \A i \in I : Rank(I, i) \in 1 .. Cardinality(I) /\ at(Rank(I, i)) = i
  <2> TAKE i \in I
  <2>1. Rank(I, i) \in 1 .. Cardinality(I)
    BY <1>1, RankOnto
  <2>2. at(Rank(I, i)) \in I /\ Rank(I, at(Rank(I, i))) = Rank(I, i)
    BY <1>2, <2>1
  <2> QED BY <1>1, <2>1, <2>2, RankOnto
<1>4. \A i \in DOMAIN s : s[i] \in S
  OBVIOUS
<1>5. KeepAt(s, I) = [k \in 1 .. Cardinality(I) |-> s[at(k)]]
  BY DEF KeepAt
<1> HIDE DEF at
<1>6. KeepAt(s, I) \in [1 .. Cardinality(I) -> S]
  BY <1>2, <1>4, <1>5
<1>7. KeepAt(s, I) \in Seq(S) /\ Len(KeepAt(s, I)) = Cardinality(I)
  BY <1>1, <1>6
<1>8. Elements(KeepAt(s, I)) \subseteq {s[i] : i \in I}
  BY <1>2, <1>5 DEF Elements
<1>9. {s[i] : i \in I} \subseteq Elements(KeepAt(s, I))
  BY <1>3, <1>5 DEF Elements
<1> QED BY <1>7, <1>8, <1>9

(* Different places of the list that KeepAt returns come from different    *)
(* places of the list it was given.                                        *)
LEMMA KeepAtPlaces ==
  ASSUME NEW S, NEW s \in Seq(S), NEW I \in SUBSET DOMAIN s,
         NEW x \in DOMAIN KeepAt(s, I), NEW y \in DOMAIN KeepAt(s, I)
  PROVE  \E i, j \in DOMAIN s : /\ KeepAt(s, I)[x] = s[i] /\ KeepAt(s, I)[y] = s[j]
                                /\ i = j => x = y
<1> DEFINE at(k) == CHOOSE i \in I : Rank(I, i) = k
<1>1. IsFiniteSet(I) /\ Cardinality(I) \in Nat /\ I \subseteq Nat
  BY PositionsFinite
<1>2. \A k \in 1 .. Cardinality(I) : at(k) \in I /\ Rank(I, at(k)) = k
  BY <1>1, RankOnto
<1>3. KeepAt(s, I) = [k \in 1 .. Cardinality(I) |-> s[at(k)]]
  BY DEF KeepAt
<1> HIDE DEF at
<1>4. x \in 1 .. Cardinality(I) /\ y \in 1 .. Cardinality(I)
  BY <1>3
<1>5. KeepAt(s, I)[x] = s[at(x)] /\ KeepAt(s, I)[y] = s[at(y)]
  BY <1>3, <1>4
<1>6. at(x) = at(y) => x = y
  BY <1>2, <1>4
<1> QED BY <1>2, <1>4, <1>5, <1>6

(* Removing the members of D leaves exactly the others.                    *)
LEMMA WithoutType ==
  ASSUME NEW S, NEW s \in Seq(S), NEW D
  PROVE  /\ Without(s, D) \in Seq(S)
         /\ Elements(Without(s, D)) = Elements(s) \ D
<1> DEFINE I == {i \in DOMAIN s : s[i] \notin D}
<1>1. I \in SUBSET DOMAIN s
  OBVIOUS
<1>2. /\ KeepAt(s, I) \in Seq(S)
      /\ Elements(KeepAt(s, I)) = {s[i] : i \in I}
  BY <1>1, KeepAtType
<1>3. {s[i] : i \in I} = Elements(s) \ D
  BY DEF Elements
<1> QED BY <1>2, <1>3 DEF Without

(* Dropping the end of a list leaves elements of that list.                *)
LEMMA DropTrailingType ==
  ASSUME NEW S, NEW s \in Seq(S), NEW D
  PROVE  /\ DropTrailing(s, D) \in Seq(S)
         /\ Elements(DropTrailing(s, D)) \subseteq Elements(s)
<1> DEFINE I == DOMAIN s \ TrailingRun(s, D)
<1>1. I \in SUBSET DOMAIN s
  OBVIOUS
<1>2. /\ KeepAt(s, I) \in Seq(S)
      /\ Elements(KeepAt(s, I)) = {s[i] : i \in I}
  BY <1>1, KeepAtType
<1>3. {s[i] : i \in I} \subseteq Elements(s)
  BY DEF Elements
<1> QED BY <1>2, <1>3 DEF DropTrailing

(* and drops no element but those of D.                                    *)
LEMMA DropTrailingKeeps ==
  ASSUME NEW S, NEW s \in Seq(S), NEW D
  PROVE  Elements(s) \ D \subseteq Elements(DropTrailing(s, D))
<1> DEFINE I == DOMAIN s \ TrailingRun(s, D)
<1>1. Elements(KeepAt(s, I)) = {s[i] : i \in I}
  BY KeepAtType
<1>2. \A i \in DOMAIN s : s[i] \notin D => i \in I
  <2>1. \A i \in DOMAIN s : i \in i .. Len(s)
    OBVIOUS
  <2> QED BY <2>1 DEF TrailingRun
<1> QED BY <1>1, <1>2 DEF DropTrailing, Elements

(* The insertion point is a position of the list: what is before it stays  *)
(* where it is, what is after it moves one place.                          *)
LEMMA InsertByIdPlaces ==
  ASSUME NEW S, NEW s \in Seq(S), NEW m \in S
  PROVE  /\ InsertById(s, m) \in Seq(S)
         /\ DOMAIN InsertById(s, m) = 1 .. Len(s) + 1
         /\ \E k \in 0 .. Len(s) : \A i \in 1 .. Len(s) + 1 :
              InsertById(s, m)[i] = IF i <= k THEN s[i]
                                    ELSE IF i = k + 1 THEN m ELSE s[i - 1]
<1> DEFINE k == Cardinality(Before(s, m))
<1>1. k \in Nat /\ k <= Len(s)
  <2>1. Before(s, m) \in SUBSET DOMAIN s
    BY DEF Before
  <2> QED BY <2>1, PositionsFinite
<1> HIDE DEF k
<1> DEFINE pre == SubSeq(s, 1, k)
           suf == SubSeq(s, k + 1, Len(s))
<1>2. /\ pre \in Seq(S) /\ Len(pre) = k
      /\ suf \in Seq(S) /\ Len(suf) = Len(s) - k
  BY <1>1
<1>3. /\ \A i \in 1 .. k : pre[i] = s[i]
      /\ \A i \in 1 .. Len(s) - k : suf[i] = s[k + i]
  <2>1. \A i \in 1 .. k : pre[i] = s[i]
    BY <1>1
  <2>2. \A i \in 1 .. Len(s) - k : suf[i] = s[k + i]
    BY <1>1
  <2> QED BY <2>1, <2>2
<1>4. InsertById(s, m) = (pre \o <<m>>) \o suf
  BY DEF InsertById, k
<1> HIDE DEF pre, suf
<1> DEFINE front == pre \o <<m>>
<1>5. /\ front \in Seq(S) /\ Len(front) = k + 1 /\ front[k + 1] = m
      /\ \A i \in 1 .. k : front[i] = pre[i]
  BY <1>1, <1>2
<1>6. InsertById(s, m) = front \o suf
  BY <1>4
<1> HIDE DEF front
<1>7. /\ InsertById(s, m) \in Seq(S) /\ Len(InsertById(s, m)) = Len(s) + 1
      /\ \A i \in 1 .. k + 1 : InsertById(s, m)[i] = front[i]
      /\ \A i \in 1 .. Len(s) - k : InsertById(s, m)[k + 1 + i] = suf[i]
  BY <1>1, <1>2, <1>5, <1>6
<1>8. DOMAIN InsertById(s, m) = 1 .. Len(s) + 1
  BY <1>7
<1>9. \A i \in 1 .. Len(s) + 1 :
        InsertById(s, m)[i] = IF i <= k THEN s[i]
                              ELSE IF i = k + 1 THEN m ELSE s[i - 1]
  <2> TAKE i \in 1 .. Len(s) + 1
  <2>1. CASE i <= k
    BY <1>1, <1>3, <1>5, <1>7, <2>1
  <2>2. CASE i = k + 1
    BY <1>1, <1>5, <1>7, <2>2
  <2>3. CASE i > k + 1
    <3>1. i - (k + 1) \in 1 .. Len(s) - k /\ k + 1 + (i - (k + 1)) = i
          /\ k + (i - (k + 1)) = i - 1
      BY <1>1, <2>3
    <3>2. InsertById(s, m)[i] = suf[i - (k + 1)]
      BY <1>7, <3>1
    <3>3. suf[i - (k + 1)] = s[i - 1]
      BY <1>3, <3>1
    <3> QED BY <1>1, <2>3, <3>2, <3>3
  <2> QED BY <1>1, <2>1, <2>2, <2>3
<1> QED BY <1>1, <1>7, <1>8, <1>9

(* The insertion adds exactly the new element.                             *)
LEMMA InsertByIdType ==
  ASSUME NEW S, NEW s \in Seq(S), NEW m \in S
  PROVE  /\ InsertById(s, m) \in Seq(S)
         /\ Elements(InsertById(s, m)) = Elements(s) \cup {m}
<1>8. InsertById(s, m) \in Seq(S) /\ DOMAIN InsertById(s, m) = 1 .. Len(s) + 1
  BY InsertByIdPlaces
<1>9. PICK k \in 0 .. Len(s) : \A i \in 1 .. Len(s) + 1 :
        InsertById(s, m)[i] = IF i <= k THEN s[i]
                              ELSE IF i = k + 1 THEN m ELSE s[i - 1]
  BY InsertByIdPlaces
<1>1. k \in Nat /\ k <= Len(s)
  OBVIOUS
<1>10. Elements(InsertById(s, m)) \subseteq Elements(s) \cup {m}
  <2> SUFFICES ASSUME NEW i \in 1 .. Len(s) + 1
               PROVE  InsertById(s, m)[i] \in Elements(s) \cup {m}
    BY <1>8 DEF Elements
  <2>1. CASE i <= k
    <3>1. i \in DOMAIN s
      BY <1>1, <2>1
    <3> QED BY <1>9, <2>1, <3>1 DEF Elements
  <2>2. CASE i = k + 1
    BY <1>1, <1>9, <2>2
  <2>3. CASE i > k + 1
    <3>1. i - 1 \in DOMAIN s
      BY <1>1, <2>3
    <3>2. InsertById(s, m)[i] = s[i - 1]
      BY <1>1, <1>9, <2>3
    <3> QED BY <3>1, <3>2 DEF Elements
  <2> QED BY <1>1, <2>1, <2>2, <2>3
<1>11. Elements(s) \cup {m} \subseteq Elements(InsertById(s, m))
  <2>1. InsertById(s, m)[k + 1] = m /\ k + 1 \in DOMAIN InsertById(s, m)
    BY <1>1, <1>8, <1>9
  <2>2. ASSUME NEW i \in DOMAIN s
        PROVE  s[i] \in Elements(InsertById(s, m))
    <3>1. i \in 1 .. Len(s) /\ i \in 1 .. Len(s) + 1 /\ i + 1 \in 1 .. Len(s) + 1
      BY <1>1
    <3>2. CASE i <= k
      <4>1. InsertById(s, m)[i] = s[i]
        BY <1>9, <3>1, <3>2
      <4> QED BY <1>8, <3>1, <4>1 DEF Elements
    <3>3. CASE i > k
      <4>1. InsertById(s, m)[i + 1] = s[i]
        BY <1>1, <1>9, <3>1, <3>3
      <4> QED BY <1>8, <3>1, <4>1 DEF Elements
    <3> QED BY <1>1, <3>1, <3>2, <3>3
  <2>3. m \in Elements(InsertById(s, m))
    BY <2>1 DEF Elements
  <2> QED BY <2>2, <2>3 DEF Elements
<1> QED BY <1>8, <1>10, <1>11

(* The elements of a list, of a longer one and of a shorter one.           *)
LEMMA ElementsType ==
  ASSUME NEW S, NEW s \in Seq(S)
  PROVE  /\ Elements(s) \subseteq S
         /\ \A m : Elements(Append(s, m)) = Elements(s) \cup {m}
         /\ s # <<>> => /\ LastOf(s) \in S /\ LastOf(s) \in Elements(s)
                        /\ Head(s) \in S /\ Tail(s) \in Seq(S)
                        /\ Elements(s) = {Head(s)} \cup Elements(Tail(s))
<1>1. Elements(s) \subseteq S
  BY DEF Elements
<1>2. ASSUME NEW m PROVE Elements(Append(s, m)) = Elements(s) \cup {m}
  <2>1. /\ DOMAIN Append(s, m) = 1 .. Len(s) + 1
        /\ \A i \in 1 .. Len(s) : Append(s, m)[i] = s[i]
        /\ Append(s, m)[Len(s) + 1] = m
    OBVIOUS
  <2>2. DOMAIN s = 1 .. Len(s) /\ Len(s) \in Nat
    OBVIOUS
  <2>3. 1 .. Len(s) + 1 = 1 .. Len(s) \cup {Len(s) + 1}
    BY <2>2
  <2> QED BY <2>1, <2>2, <2>3 DEF Elements
<1>3. ASSUME s # <<>>
      PROVE  /\ LastOf(s) \in S /\ LastOf(s) \in Elements(s)
             /\ Head(s) \in S /\ Tail(s) \in Seq(S)
             /\ Elements(s) = {Head(s)} \cup Elements(Tail(s))
  <2>1. Len(s) \in 1 .. Len(s) /\ DOMAIN s = 1 .. Len(s) /\ Len(s) \in Nat
    BY <1>3
  <2>2. LastOf(s) \in S /\ LastOf(s) \in Elements(s)
    BY <2>1 DEF LastOf, Elements
  <2>3. /\ Head(s) = s[1] /\ Head(s) \in S /\ Tail(s) \in Seq(S)
        /\ Len(Tail(s)) = Len(s) - 1
        /\ \A i \in 1 .. Len(s) - 1 : Tail(s)[i] = s[i + 1]
    BY <1>3
  <2>4. Elements(s) \subseteq {Head(s)} \cup Elements(Tail(s))
    <3> SUFFICES ASSUME NEW i \in DOMAIN s
                 PROVE  s[i] \in {Head(s)} \cup Elements(Tail(s))
      BY DEF Elements
    <3>1. CASE i = 1
      BY <2>3, <3>1
    <3>2. CASE i # 1
      <4>1. i - 1 \in 1 .. Len(s) - 1 /\ i - 1 \in DOMAIN Tail(s)
        BY <2>1, <2>3, <3>2
      <4>2. Tail(s)[i - 1] = s[i]
        BY <2>1, <2>3, <4>1
      <4> QED BY <4>1, <4>2 DEF Elements
    <3> QED BY <3>1, <3>2
  <2>5. {Head(s)} \cup Elements(Tail(s)) \subseteq Elements(s)
    BY <2>1, <2>3 DEF Elements
  <2> QED BY <2>2, <2>3, <2>4, <2>5
<1> QED BY <1>1, <1>2, <1>3

-----------------------------------------------------------------------------
(* The types of the server's state.                                        *)

(* The least element of a nonempty set of positions is one of them.        *)
LEMMA FirstType ==
  ASSUME NEW I, IsFiniteSet(I), I \subseteq Nat, I # {}
  PROVE  First(I) \in I /\ \A j \in I : First(I) <= j
<1>1. Cardinality(I) \in Nat /\ Cardinality(I) # 0
  BY FS_CardinalityType, FS_EmptySet
<1>2. 1 \in 1 .. Cardinality(I)
  BY <1>1
<1>3. PICK i \in I : Rank(I, i) = 1
  BY <1>2, RankOnto
<1>4. \A j \in I : i <= j
  <2> SUFFICES ASSUME NEW j \in I, j < i PROVE FALSE
    OBVIOUS
  <2>1. Rank(I, j) < Rank(I, i)
    BY RankOnto
  <2>2. Rank(I, j) \in 1 .. Cardinality(I)
    BY RankOnto
  <2> QED BY <1>1, <1>3, <2>1, <2>2
<1> QED BY <1>4 DEF First

(* The first speakable position of a list is a position of it.             *)
LEMMA FirstSpeakable ==
  ASSUME NEW s \in Seq(Message), Speakable(s) # {}
  PROVE  First(Speakable(s)) \in DOMAIN s /\ s[First(Speakable(s))] \in Message
<1>1. Speakable(s) \in SUBSET DOMAIN s
  BY DEF Speakable
<1>2. IsFiniteSet(Speakable(s)) /\ Speakable(s) \subseteq Nat
  BY <1>1, PositionsFinite
<1>3. First(Speakable(s)) \in DOMAIN s
  BY <1>1, <1>2, FirstType
<1> QED BY <1>3

(* The queue that is read next is one of the five, and so is its message.  *)
LEMMA NextType ==
  ASSUME queue \in [Priority -> Seq(Message)], Ready # {}
  PROVE  First(Ready) \in Priority /\ Next1 \in Message
<1>1. Ready \subseteq Priority /\ Priority \subseteq Nat /\ IsFiniteSet(Priority)
  <2>1. 1 \in Int /\ 5 \in Int
    OBVIOUS
  <2>2. IsFiniteSet(1 .. 5)
    BY <2>1, FS_Interval
  <2> QED BY <2>2 DEF Ready, Priority, SPD_IMPORTANT, SPD_PROGRESS
<1>2. IsFiniteSet(Ready) /\ Ready \subseteq Nat
  BY <1>1, FS_Subset
<1>3. First(Ready) \in Ready
  BY <1>2, FirstType
<1>4. queue[First(Ready)] \in Seq(Message) /\ Speakable(queue[First(Ready)]) # {}
  BY <1>1, <1>3 DEF Ready
<1> QED BY <1>1, <1>3, <1>4, FirstSpeakable DEF Next1

(* Settings stay settings when a client is paused or resumed, and when it  *)
(* chooses its priority.                                                   *)
LEMMA SettingsType ==
  ASSUME NEW s \in Settings, NEW b \in BOOLEAN, NEW p \in 0 .. SPD_PROGRESS
  PROVE  /\ [s EXCEPT !.paused = b] \in Settings
         /\ [s EXCEPT !.priority = p] \in Settings
BY DEF Settings

(* Reporting keeps the types of what clients were told.                    *)
LEMMA TellType ==
  ASSUME TypeOK, NEW D, NEW e \in Report, Tell(D, e)
  PROVE  life' \in [MsgId -> Report]
BY DEF TypeOK, ToldOK, Tell

(* output_stop() and output_pause() leave a session of the same message.   *)
LEMMA AskedType ==
  ASSUME TypeOK
  PROVE  /\ Stopped(sess) \in Session /\ Paused(sess) \in Session
         /\ \A t \in {Stopped(sess), Paused(sess)} :
              t.state = sess.state /\ t.msg = sess.msg /\ t.prio = sess.prio
BY DEF TypeOK, OutputOK, Stopped, Paused, Session

(* resolve_priorities() leaves lists of messages, provided that the queue  *)
(* of the new message is not empty.                                        *)
LEMMA ResolvedType ==
  ASSUME NEW q \in [Priority -> Seq(Message)], NEW p,
         p \in Priority => q[p] # <<>>
  PROVE  Resolved(q, p) \in [Priority -> Seq(Message)]
<1>1. \A r \in Thinned(p) : r = p
  BY DEF Thinned
<1>2. p \in Priority => LastOf(q[p]) \in Message
  BY ElementsType
<1>3. p \in Priority => Newest(q[p], p) \in Seq(Message)
  BY <1>2, WithoutType DEF Newest
<1>4. \A r \in Priority : Resolved(q, p)[r] \in Seq(Message)
  BY <1>1, <1>3 DEF Resolved
<1> QED BY <1>4 DEF Resolved

(* A copy of a message is a message.                                       *)
LEMMA CopyType ==
  ASSUME NEW m \in Message, NEW o \in Nat \ {0}
  PROVE  Copy(m, o) \in Message
BY DEF Copy, Message

(* queue_message() keeps the types of all it writes.                       *)
LEMMA EnqueueType ==
  ASSUME TypeOK, NEW m \in Message, NEW p, NEW obj \in Nat \ {0},
         Enqueue(m, p, obj)
  PROVE  /\ queue' \in [Priority -> Seq(Message)]
         /\ life' \in [MsgId -> Report]
         /\ sess' \in Session /\ pipe' \in Nat
         /\ lastP5' \in Seq(Message) /\ lastObj' \in Nat
         /\ pausedWhile' \subseteq Nat /\ marked' \subseteq Nat
<1> DEFINE q == [queue EXCEPT ![p] = Append(@, m)]
           c == Copy(m, obj)
<1>1. q \in [Priority -> Seq(Message)] /\ (p \in Priority => q[p] # <<>>)
  <2>1. ASSUME NEW s \in Seq(Message)
        PROVE  Append(s, m) \in Seq(Message) /\ Append(s, m) # <<>>
    OBVIOUS
  <2> QED BY <2>1 DEF TypeOK, ListsOK
<1>2. queue' = Resolved(q, p) /\ Tell(Cancelled(q, p), "cancel")
  BY DEF Enqueue
<1>3. queue' \in [Priority -> Seq(Message)]
  BY <1>1, <1>2, ResolvedType
<1>4. "cancel" \in Report
  BY DEF Report
<1>5. life' \in [MsgId -> Report]
  BY <1>2, <1>4, TellType
<1>6. sess' \in Session /\ pipe' \in Nat
  BY AskedType DEF Enqueue, TypeOK, OutputOK, ControlOK, Posted
<1>7. c \in Message
  BY CopyType
<1>8. lastP5' \in Seq(Message)
  <2>1. lastP5' \in {lastP5, <<c>>, Append(lastP5, c)}
    BY DEF Enqueue
  <2>2. lastP5 \in Seq(Message)
    BY DEF TypeOK, ListsOK
  <2>3. \A x \in Message : <<x>> \in Seq(Message)
                            /\ Append(lastP5, x) \in Seq(Message)
    BY <2>2
  <2> QED BY <1>7, <2>1, <2>2, <2>3
<1>9. lastObj' \in Nat
  <2>1. lastObj' \in {obj, obj - 1}
    BY DEF Enqueue
  <2> QED BY <2>1
<1>10. pausedWhile' \subseteq Nat /\ marked' \subseteq Nat
  <2>1. \A S : S \subseteq Nat => Copied(S, m, obj) \subseteq Nat
    BY DEF Copied
  <2>2. /\ pausedWhile' \in {pausedWhile, Copied(pausedWhile, m, obj)}
        /\ marked' \in {marked, Copied(marked, m, obj)}
    BY DEF Enqueue
  <2> QED BY <2>1, <2>2 DEF TypeOK, ObjectsOK
<1> QED BY <1>3, <1>5, <1>6, <1>8, <1>9, <1>10

(* A group of variables that a step leaves alone keeps its type.           *)
LEMMA Frames ==
  ASSUME TypeOK
  PROVE  /\ UNCHANGED client => ClientOK'
         /\ UNCHANGED lists => ListsOK'
         /\ UNCHANGED objects => ObjectsOK'
         /\ UNCHANGED speaking => SpeakingOK'
         /\ UNCHANGED output => OutputOK'
         /\ UNCHANGED <<life, died>> => ToldOK'
BY DEF TypeOK, ClientOK, client, ListsOK, lists, ObjectsOK, objects,
       SpeakingOK, speaking, OutputOK, output, ToldOK, died

(* The address of current_message is one, whether or not it is NULL.       *)
LEMMA CurrentObject ==
  ASSUME TypeOK
  PROVE  current.obj \in Nat
BY DEF TypeOK, SpeakingOK, Message, NoMessage

(* The empty session has the type of a session.                            *)
LEMMA NoSessionType == NoSession \in Session
BY DEF NoSession, Session, NoMessage, SPD_PROGRESS

(* speaking_stop() only shortens a queue.                                  *)
LEMMA AfterStopType ==
  ASSUME TypeOK, NEW u
  PROVE  AfterStop(u) \in [Priority -> Seq(Message)]
<1>1. \A D : [queue EXCEPT ![highest] = DropTrailing(@, D)]
               \in [Priority -> Seq(Message)]
  BY DropTrailingType DEF TypeOK, ListsOK
<1> QED BY <1>1 DEF AfterStop, TypeOK, ListsOK

(* The event that is_sb_speaking() handles leaves the events after it.     *)
LEMMA EventTaken ==
  ASSUME TypeOK, NEW e, Handle(e)
  PROVE  evq' \in Seq(Event)
BY DEF TypeOK, OutputOK, Handle, HasEvent

(* What get_message_from_queues() takes, and the queue it leaves.          *)
LEMMA TakenType ==
  ASSUME TypeOK, TakeNext
  PROVE  /\ First(Ready) \in Priority /\ Next1 \in Message
         /\ queue' \in [Priority -> Seq(Message)] /\ highest' = First(Ready)
<1>1. First(Ready) \in Priority /\ Next1 \in Message
  BY NextType DEF TypeOK, ListsOK, TakeNext
<1>2. Without(queue[First(Ready)], {Next1}) \in Seq(Message)
  BY <1>1, WithoutType DEF TypeOK, ListsOK
<1> QED BY <1>1, <1>2 DEF TakeNext, TypeOK, ListsOK

(* Every step keeps every variable in its type: one case per action.       *)
LEMMA TypeStep ==
  ASSUME TypeOK, [Next]_vars
  PROVE  TypeOK'
<1> USE SpeakingAssumption
<1>1. ASSUME NEW f \in Fds, Connect(f) PROVE TypeOK'
  <2>1. ListsOK' /\ ObjectsOK' /\ SpeakingOK' /\ OutputOK' /\ ToldOK'
    BY <1>1, Frames DEF Connect
  <2>2. ClientOK'
    BY <1>1 DEF Connect, TypeOK, ClientOK, Settings, Client, SPD_MESSAGE, SPD_PROGRESS
  <2>3. ControlOK'
    BY <1>1 DEF Connect, TypeOK, ControlOK, requests, bounds
  <2> QED BY <2>1, <2>2, <2>3 DEF TypeOK
<1>2. ASSUME NEW f \in Fds, Disconnect(f) PROVE TypeOK'
  <2>1. ListsOK' /\ ObjectsOK' /\ SpeakingOK' /\ OutputOK' /\ ToldOK'
    BY <1>2, Frames DEF Disconnect
  <2>2. ClientOK'
    <3>1. settings' \in [Client -> Settings]
      BY <1>2 DEF Disconnect, TypeOK, ClientOK, Settings
    <3>2. maxFd' \in Nat
      BY <1>2 DEF Disconnect, TypeOK, ClientOK, MaxFdWithout, Connected
    <3> QED BY <1>2, <3>1, <3>2 DEF Disconnect, TypeOK, ClientOK
  <2>3. ControlOK'
    BY <1>2 DEF Disconnect, TypeOK, ControlOK, requests, bounds
  <2> QED BY <2>1, <2>2, <2>3 DEF TypeOK
<1>3. ASSUME NEW f \in Fds, Queue(f) PROVE TypeOK'
  <2>1. ClientOK' /\ SpeakingOK'
    BY <1>3, Frames DEF Queue
  <2> DEFINE m == [id |-> lastId + 1, obj |-> lastObj + 1, uid |-> fdUid[f],
                  fd |-> f, gid |-> inside[f]]
  <2>2. m \in Message
    <3>1. lastId + 1 \in MsgId /\ lastObj + 1 \in Nat \ {0}
      BY <1>3 DEF Queue, TypeOK, ObjectsOK, MsgId
    <3>2. fdUid[f] \in Client /\ inside[f] \in Nat
      BY <1>3 DEF Queue, TypeOK, ClientOK, Client, Connected
    <3> QED BY <3>1, <3>2 DEF Message
  <2>3. Enqueue(m, settings[fdUid[f]].priority, lastObj + 2)
        /\ lastObj + 2 \in Nat \ {0}
    BY <1>3 DEF Queue, TypeOK, ObjectsOK
  <2> HIDE DEF m
  <2>4. /\ queue' \in [Priority -> Seq(Message)]
        /\ life' \in [MsgId -> Report]
        /\ sess' \in Session /\ pipe' \in Nat
        /\ lastP5' \in Seq(Message) /\ lastObj' \in Nat
        /\ pausedWhile' \subseteq Nat /\ marked' \subseteq Nat
    BY <2>2, <2>3, EnqueueType
  <2>5. ListsOK' /\ ObjectsOK' /\ OutputOK' /\ ToldOK'
    BY <1>3, <2>4 DEF Queue, TypeOK, ListsOK, ObjectsOK, OutputOK, ToldOK, died
  <2>6. ControlOK'
    BY <1>3, <2>4 DEF Queue, TypeOK, ControlOK, requests, bounds
  <2> QED BY <2>1, <2>3, <2>4, <2>5, <2>6 DEF TypeOK
<1>4. ASSUME NEW f \in Fds, BlockBegin(f) PROVE TypeOK'
  <2>1. ListsOK' /\ ObjectsOK' /\ SpeakingOK' /\ OutputOK' /\ ToldOK'
    BY <1>4, Frames DEF BlockBegin
  <2>2. ClientOK'
    BY <1>4 DEF BlockBegin, TypeOK, ClientOK
  <2>3. ControlOK'
    BY <1>4 DEF BlockBegin, TypeOK, ControlOK, requests, bounds
  <2> QED BY <2>1, <2>2, <2>3 DEF TypeOK
<1>5. ASSUME NEW f \in Fds, BlockEnd(f) PROVE TypeOK'
  <2>1. ListsOK' /\ ObjectsOK' /\ SpeakingOK' /\ OutputOK' /\ ToldOK'
    BY <1>5, Frames DEF BlockEnd
  <2>2. ClientOK'
    BY <1>5 DEF BlockEnd, TypeOK, ClientOK
  <2>3. ControlOK'
    BY <1>5 DEF BlockEnd, TypeOK, ControlOK, requests, bounds
  <2> QED BY <2>1, <2>2, <2>3 DEF TypeOK
<1>6. ASSUME NEW f \in Fds, NEW p \in Prios, SetPriority(f, p) PROVE TypeOK'
  <2>1. ListsOK' /\ ObjectsOK' /\ SpeakingOK' /\ OutputOK' /\ ToldOK'
    BY <1>6, Frames DEF SetPriority
  <2>2. ClientOK'
    <3>1. p \in 0 .. SPD_PROGRESS
      BY DEF Priority, SPD_IMPORTANT, SPD_PROGRESS
    <3>2. settings' \in [Client -> Settings]
      <4>1. settings \in [Client -> Settings] /\ FALSE \in BOOLEAN
        BY DEF TypeOK, ClientOK
      <4>2. \A v \in Client : [settings[v] EXCEPT !.priority = p] \in Settings
        BY <3>1, <4>1, SettingsType
      <4>3. settings' = [settings EXCEPT ![fdUid[f]].priority = p]
        BY <1>6 DEF SetPriority
      <4> QED BY <4>1, <4>2, <4>3
    <3> QED BY <1>6, <3>2 DEF SetPriority, TypeOK, ClientOK
  <2>3. ControlOK'
    BY <1>6 DEF SetPriority, TypeOK, ControlOK, requests, bounds
  <2> QED BY <2>1, <2>2, <2>3 DEF TypeOK
<1>7. ASSUME NEW u \in 1 .. maxUid, Stop(u) PROVE TypeOK'
  <2>1. ClientOK' /\ ObjectsOK' /\ ToldOK'
    BY <1>7, Frames DEF Stop, StopClient
  <2>2. ListsOK'
    BY <1>7, AfterStopType DEF Stop, TypeOK, ListsOK
  <2>3. SpeakingOK'
    BY <1>7 DEF Stop, StopClient, UidAfterStop, TypeOK, SpeakingOK
  <2>4. OutputOK'
    BY <1>7, AskedType DEF Stop, StopClient, TypeOK, OutputOK
  <2>5. ControlOK'
    BY <1>7 DEF Stop, Command, TypeOK, ControlOK, requests, bounds
  <2> QED BY <2>1, <2>2, <2>3, <2>4, <2>5 DEF TypeOK
<1>8. CASE StopAll
  <2>1. ClientOK' /\ ObjectsOK' /\ SpeakingOK'
    BY <1>8, Frames DEF StopAll
  <2>2. ListsOK'
    <3>1. \A D : [queue EXCEPT ![highest] = DropTrailing(@, D)]
                     \in [Priority -> Seq(Message)]
      BY DropTrailingType DEF TypeOK, ListsOK
    <3> QED BY <1>8, <3>1 DEF StopAll, TypeOK, ListsOK
  <2>3. OutputOK'
    BY <1>8, AskedType DEF StopAll, TypeOK, OutputOK
  <2>4. ToldOK'
    BY <1>8 DEF StopAll, TypeOK, ToldOK
  <2>5. ControlOK'
    BY <1>8 DEF StopAll, Command, TypeOK, ControlOK, requests, bounds
  <2> QED BY <2>1, <2>2, <2>3, <2>4, <2>5 DEF TypeOK
<1>9. ASSUME NEW u \in 1 .. maxUid, Cancel(u) PROVE TypeOK'
  <2>1. ClientOK' /\ ObjectsOK'
    BY <1>9, Frames DEF Cancel, StopClient
  <2>2. ListsOK'
    BY <1>9, AfterStopType, WithoutType DEF Cancel, TypeOK, ListsOK
  <2>3. SpeakingOK'
    BY <1>9 DEF Cancel, StopClient, UidAfterStop, TypeOK, SpeakingOK
  <2>4. OutputOK'
    BY <1>9, AskedType DEF Cancel, StopClient, TypeOK, OutputOK
  <2>5. ToldOK'
    BY <1>9, TellType DEF Cancel, TypeOK, ToldOK, died, Report
  <2>6. ControlOK'
    BY <1>9 DEF Cancel, Command, TypeOK, ControlOK, requests, bounds
  <2> QED BY <2>1, <2>2, <2>3, <2>4, <2>5, <2>6 DEF TypeOK
<1>10. CASE CancelAll
  <2>1. ClientOK' /\ ListsOK' /\ ObjectsOK' /\ SpeakingOK' /\ ToldOK'
    BY <1>10, Frames DEF CancelAll
  <2>2. OutputOK'
    BY <1>10, AskedType DEF CancelAll, TypeOK, OutputOK
  <2>3. ControlOK'
    BY <1>10 DEF CancelAll, Command, TypeOK, ControlOK, requests, bounds
  <2> QED BY <2>1, <2>2, <2>3 DEF TypeOK
<1>11. CASE CancelAllQueues
  <2>1. ClientOK' /\ ObjectsOK' /\ SpeakingOK'
    BY <1>11, Frames DEF CancelAllQueues
  <2>2. ListsOK'
    BY <1>11 DEF CancelAllQueues, TypeOK, ListsOK
  <2>3. OutputOK'
    BY <1>11, AskedType DEF CancelAllQueues, TypeOK, OutputOK
  <2>4. ToldOK'
    BY <1>11, TellType DEF CancelAllQueues, TypeOK, ToldOK, died, Report
  <2>5. ControlOK'
    BY <1>11 DEF CancelAllQueues, TypeOK, ControlOK, requests, bounds
  <2> QED BY <2>1, <2>2, <2>3, <2>4, <2>5 DEF TypeOK
<1>12. ASSUME NEW u \in 1 .. maxUid, Pause(u) PROVE TypeOK'
  <2>1. ClientOK' /\ ListsOK' /\ ObjectsOK' /\ SpeakingOK' /\ OutputOK' /\ ToldOK'
    BY <1>12, Frames DEF Pause
  <2>2. ControlOK'
    BY <1>12 DEF Pause, Command, Client, ClientOK, TypeOK, ControlOK, requests, bounds
  <2> QED BY <2>1, <2>2 DEF TypeOK
<1>13. CASE PausePost
  <2>1. ClientOK' /\ ListsOK' /\ ObjectsOK' /\ SpeakingOK' /\ OutputOK' /\ ToldOK'
    BY <1>13, Frames DEF PausePost
  <2>2. ControlOK'
    BY <1>13 DEF PausePost, Posted, Client, TypeOK, ControlOK, requests, bounds
  <2> QED BY <2>1, <2>2 DEF TypeOK
<1>14. CASE PauseAll
  <2>1. ClientOK' /\ ListsOK' /\ ObjectsOK' /\ SpeakingOK' /\ OutputOK' /\ ToldOK'
    BY <1>14, Frames DEF PauseAll
  <2>2. ControlOK'
    BY <1>14 DEF PauseAll, Command, Posted, TypeOK, ControlOK, requests, bounds
  <2> QED BY <2>1, <2>2 DEF TypeOK
<1>15. ASSUME NEW u \in 1 .. maxUid, Resume("resume", {u}) PROVE TypeOK'
  <2>1. ClientOK' /\ ListsOK' /\ ObjectsOK' /\ SpeakingOK' /\ OutputOK' /\ ToldOK'
    BY <1>15, Frames DEF Resume
  <2>2. ControlOK'
    BY <1>15 DEF Resume, Command, HasSettings, TypeOK, ControlOK, requests, bounds
  <2> QED BY <2>1, <2>2 DEF TypeOK
<1>16. CASE Resume("resumeAll", UpToMaxFd)
  <2>1. ClientOK' /\ ListsOK' /\ ObjectsOK' /\ SpeakingOK' /\ OutputOK' /\ ToldOK'
    BY <1>16, Frames DEF Resume
  <2>2. ControlOK'
    BY <1>16 DEF Resume, Command, HasSettings, TypeOK, ControlOK, requests, bounds
  <2> QED BY <2>1, <2>2 DEF TypeOK
<1>17. CASE ResumeClient
  <2>1. ListsOK' /\ ObjectsOK' /\ SpeakingOK' /\ OutputOK' /\ ToldOK'
    BY <1>17, Frames DEF ResumeClient
  <2>2. ClientOK'
    <3>1. settings' \in [Client -> Settings]
      <4>1. settings \in [Client -> Settings] /\ FALSE \in BOOLEAN /\ 0 \in 0 .. SPD_PROGRESS
        BY DEF TypeOK, ClientOK, SPD_PROGRESS
      <4>2. PICK u \in main.uids : settings' = [settings EXCEPT ![u].paused = FALSE]
        BY <1>17 DEF ResumeClient
      <4>3. \A v \in Client : [settings[v] EXCEPT !.paused = FALSE] \in Settings
        BY <4>1, SettingsType
      <4> QED BY <4>1, <4>2, <4>3
    <3> QED BY <1>17, <3>1 DEF ResumeClient, TypeOK, ClientOK
  <2>3. ControlOK'
    BY <1>17 DEF ResumeClient, TypeOK, ControlOK, requests, bounds
  <2> QED BY <2>1, <2>2, <2>3 DEF TypeOK
<1>18. CASE ResumePost
  <2>1. ClientOK' /\ ListsOK' /\ ObjectsOK' /\ SpeakingOK' /\ OutputOK' /\ ToldOK'
    BY <1>18, Frames DEF ResumePost
  <2>2. ControlOK'
    BY <1>18 DEF ResumePost, Posted, TypeOK, ControlOK, requests, bounds
  <2> QED BY <2>1, <2>2 DEF TypeOK
<1>19. CASE PollWake
  <2>1. ClientOK' /\ ListsOK' /\ ObjectsOK' /\ SpeakingOK' /\ OutputOK' /\ ToldOK'
    BY <1>19, Frames DEF PollWake
  <2>2. ControlOK'
    BY <1>19 DEF PollWake, TypeOK, ControlOK, requests, bounds
  <2> QED BY <2>1, <2>2 DEF TypeOK
<1>20. CASE HandleBegin
  <2>1. ClientOK' /\ ListsOK'
    BY <1>20, Frames DEF HandleBegin, Handle
  <2>2. ObjectsOK'
    BY <1>20 DEF HandleBegin, Handle, TypeOK, ObjectsOK
  <2>3. SpeakingOK'
    BY <1>20 DEF HandleBegin, Handle, TypeOK, SpeakingOK
  <2>4. OutputOK'
    BY <1>20, EventTaken DEF HandleBegin, TypeOK, OutputOK
  <2>5. ToldOK'
    BY <1>20, TellType DEF HandleBegin, Handle, TypeOK, ToldOK, died, Report
  <2>6. ControlOK'
    BY <1>20 DEF HandleBegin, Handle, ReadByte, TypeOK, ControlOK, requests, bounds
  <2> QED BY <2>1, <2>2, <2>3, <2>4, <2>5, <2>6 DEF TypeOK
<1>21. CASE HandleMark
  <2>1. ClientOK' /\ ListsOK'
    BY <1>21, Frames DEF HandleMark, Handle
  <2>2. ObjectsOK'
    BY <1>21, CurrentObject DEF HandleMark, Handle, TypeOK, ObjectsOK
  <2>3. SpeakingOK'
    BY <1>21 DEF HandleMark, Handle, TypeOK, SpeakingOK
  <2>4. OutputOK'
    BY <1>21, EventTaken DEF HandleMark, TypeOK, OutputOK
  <2>5. ToldOK'
    BY <1>21 DEF HandleMark, Handle, TypeOK, ToldOK, died
  <2>6. ControlOK'
    BY <1>21 DEF HandleMark, Handle, ReadByte, TypeOK, ControlOK, requests, bounds
  <2> QED BY <2>1, <2>2, <2>3, <2>4, <2>5, <2>6 DEF TypeOK
<1>22. CASE HandleDone
  <2>1. ClientOK' /\ ListsOK'
    BY <1>22, Frames DEF HandleDone, Handle
  <2>2. ObjectsOK'
    BY <1>22 DEF HandleDone, Handle, TypeOK, ObjectsOK
  <2>3. SpeakingOK'
    BY <1>22 DEF HandleDone, Handle, TypeOK, SpeakingOK
  <2>4. OutputOK'
    BY <1>22, EventTaken, NoSessionType DEF HandleDone, TypeOK, OutputOK
  <2>5. ToldOK'
    BY <1>22, TellType DEF HandleDone, Handle, TypeOK, ToldOK, died, Report
  <2>6. ControlOK'
    BY <1>22 DEF HandleDone, Handle, ReadByte, Posted, TypeOK, ControlOK, requests, bounds
  <2> QED BY <2>1, <2>2, <2>3, <2>4, <2>5, <2>6 DEF TypeOK
<1>23. CASE HandlePaused
  <2>1. ClientOK' /\ ListsOK'
    BY <1>23, Frames DEF HandlePaused, Handle
  <2>2. ObjectsOK'
    BY <1>23 DEF HandlePaused, Handle, TypeOK, ObjectsOK
  <2>3. SpeakingOK'
    BY <1>23 DEF HandlePaused, Handle, TypeOK, SpeakingOK
  <2>4. OutputOK'
    BY <1>23, EventTaken, NoSessionType DEF HandlePaused, TypeOK, OutputOK
  <2>5. ToldOK'
    BY <1>23, TellType DEF HandlePaused, Handle, TypeOK, ToldOK, died, Report
  <2>6. ControlOK'
    BY <1>23 DEF HandlePaused, Handle, ReadByte, TypeOK, ControlOK, requests, bounds
  <2> QED BY <2>1, <2>2, <2>3, <2>4, <2>5, <2>6 DEF TypeOK
<1>24. CASE HandleBroken
  <2>1. ClientOK' /\ ListsOK'
    BY <1>24, Frames DEF HandleBroken, Handle
  <2>2. ObjectsOK'
    BY <1>24 DEF HandleBroken, Handle, TypeOK, ObjectsOK
  <2>3. SpeakingOK'
    BY <1>24 DEF HandleBroken, Handle, TypeOK, SpeakingOK
  <2>4. OutputOK'
    BY <1>24, EventTaken, NoSessionType DEF HandleBroken, TypeOK, OutputOK
  <2>5. ToldOK'
    BY <1>24 DEF HandleBroken, Handle, TypeOK, ToldOK, died
  <2>6. ControlOK'
    BY <1>24 DEF HandleBroken, Handle, ReadByte, TypeOK, ControlOK, requests, bounds
  <2> QED BY <2>1, <2>2, <2>3, <2>4, <2>5, <2>6 DEF TypeOK
<1>25. CASE HandlePause
  <2>1. SpeakingOK' /\ ToldOK'
    BY <1>25, Frames DEF HandlePause
  <2>2. ClientOK'
    <3>1. settings' \in [Client -> Settings]
      <4>1. settings \in [Client -> Settings] /\ TRUE \in BOOLEAN /\ 0 \in 0 .. SPD_PROGRESS
        BY DEF TypeOK, ClientOK, SPD_PROGRESS
      <4>2. \A v \in Client : [settings[v] EXCEPT !.paused = TRUE] \in Settings
        BY <4>1, SettingsType
      <4>3. DOMAIN settings' = Client /\ settings' = [u \in Client |-> settings'[u]]
        BY <1>25 DEF HandlePause
      <4>4. \A v \in Client : settings'[v] \in {settings[v], [settings[v] EXCEPT !.paused = TRUE]}
        BY <1>25 DEF HandlePause
      <4> QED BY <4>1, <4>2, <4>3, <4>4
    <3> QED BY <1>25, <3>1 DEF HandlePause, TypeOK, ClientOK
  <2>3. ListsOK'
    <3>1. pausedList' \in {pausedList, Append(pausedList, current)}
          /\ (pausedList' # pausedList => current # NoMessage)
      BY <1>25 DEF HandlePause, PutAside
    <3>2. pausedList' \in Seq(Message)
      <4>1. pausedList \in Seq(Message) /\ current \in Message \cup {NoMessage}
        BY DEF TypeOK, ListsOK, SpeakingOK
      <4> QED BY <3>1, <4>1
    <3>3. UNCHANGED <<queue, lastP5>>
      BY <1>25 DEF HandlePause
    <3> QED BY <3>2, <3>3 DEF TypeOK, ListsOK
  <2>4. ObjectsOK'
    <3>1. pausedWhile' \in {pausedWhile, pausedWhile \cup {current.obj}}
      BY <1>25 DEF HandlePause
    <3> QED BY <1>25, <3>1, CurrentObject DEF HandlePause, TypeOK, ObjectsOK
  <2>5. OutputOK'
    <3>1. sess' \in {sess, Paused(sess)}
      BY <1>25 DEF HandlePause
    <3> QED BY <1>25, <3>1, AskedType DEF HandlePause, TypeOK, OutputOK
  <2>6. ControlOK'
    BY <1>25 DEF HandlePause, TypeOK, ControlOK, requests, bounds
  <2> QED BY <2>1, <2>2, <2>3, <2>4, <2>5, <2>6 DEF TypeOK
<1>26. CASE ClearPause
  <2>1. ClientOK' /\ ListsOK' /\ ObjectsOK' /\ SpeakingOK' /\ OutputOK' /\ ToldOK'
    BY <1>26, Frames DEF ClearPause
  <2>2. ControlOK'
    BY <1>26 DEF ClearPause, TypeOK, ControlOK, requests, bounds
  <2> QED BY <2>1, <2>2 DEF TypeOK
<1>27. CASE CheckSpeaking
  <2>1. ClientOK' /\ ListsOK' /\ ObjectsOK' /\ SpeakingOK' /\ OutputOK' /\ ToldOK'
    BY <1>27, Frames DEF CheckSpeaking
  <2>2. ControlOK'
    BY <1>27 DEF CheckSpeaking, AfterCheck, TypeOK, ControlOK, requests, bounds
  <2> QED BY <2>1, <2>2 DEF TypeOK
<1>28. CASE ResumeOne
  <2>1. ClientOK'
    BY <1>28, Frames DEF ResumeOne
  <2>2. /\ First(Speakable(pausedList)) \in DOMAIN pausedList
        /\ pausedList[First(Speakable(pausedList))] \in Message
    BY <1>28, FirstSpeakable DEF ResumeOne, TypeOK, ListsOK
  <2> DEFINE m == pausedList[First(Speakable(pausedList))]
  <2>3. pausedList' \in Seq(Message) /\ SpeakingOK'
    BY <1>28, <2>2, WithoutType DEF ResumeOne, CurrentAfter, TypeOK, ListsOK, SpeakingOK
  <2>4. /\ queue' \in [Priority -> Seq(Message)] /\ lastP5' \in Seq(Message)
        /\ ObjectsOK' /\ OutputOK' /\ ToldOK' /\ pipe' \in Nat
    <3>1. CASE /\ HasSettings(m.uid) /\ UNCHANGED fault
               /\ Enqueue([m EXCEPT !.gid = 0], settings[m.uid].priority, lastObj + 1)
      <4>1. [m EXCEPT !.gid = 0] \in Message
        BY <2>2 DEF Message
      <4>2. settings[m.uid].priority \in Priority
        BY <3>1 DEF HasSettings, TypeOK, ClientOK, Settings, Priority, SPD_IMPORTANT, SPD_PROGRESS
      <4>3. lastObj + 1 \in Nat \ {0}
        BY DEF TypeOK, ObjectsOK
      <4> HIDE DEF m
      <4>4. /\ queue' \in [Priority -> Seq(Message)]
            /\ life' \in [MsgId -> Report]
            /\ sess' \in Session /\ pipe' \in Nat
            /\ lastP5' \in Seq(Message) /\ lastObj' \in Nat
            /\ pausedWhile' \subseteq Nat /\ marked' \subseteq Nat
        BY <3>1, <4>1, <4>2, <4>3, EnqueueType
      <4> QED BY <1>28, <3>1, <4>4 DEF ResumeOne, TypeOK, ObjectsOK, OutputOK, ToldOK
    <3>2. CASE UNCHANGED <<queue, lastP5, pausedWhile, marked, lastObj, sess, pipe,
                           life, fault>>
      BY <1>28, <3>2 DEF ResumeOne, TypeOK, ListsOK, ObjectsOK, OutputOK, ToldOK, ControlOK
    <3>3. CASE /\ fault' \in {"freed", "settings"}
               /\ UNCHANGED <<queue, lastP5, pausedWhile, marked, lastObj, sess, pipe, life>>
      BY <1>28, <3>3 DEF ResumeOne, TypeOK, ListsOK, ObjectsOK, OutputOK, ToldOK, ControlOK
    <3> QED BY <1>28, <3>1, <3>2, <3>3 DEF ResumeOne
  <2>5. ListsOK'
    BY <2>3, <2>4 DEF ListsOK
  <2>6. ControlOK'
    BY <1>28, <2>4 DEF ResumeOne, TypeOK, ControlOK, requests, bounds
  <2> QED BY <2>1, <2>3, <2>4, <2>5, <2>6 DEF TypeOK
<1>29. CASE ResumeEnd
  <2>1. ClientOK' /\ ListsOK' /\ ObjectsOK' /\ SpeakingOK' /\ OutputOK' /\ ToldOK'
    BY <1>29, Frames DEF ResumeEnd
  <2>2. ControlOK'
    BY <1>29 DEF ResumeEnd, TypeOK, ControlOK, requests, bounds
  <2> QED BY <2>1, <2>2 DEF TypeOK
<1>30. CASE ResumeClear
  <2>1. ClientOK' /\ ListsOK' /\ ObjectsOK' /\ SpeakingOK' /\ OutputOK' /\ ToldOK'
    BY <1>30, Frames DEF ResumeClear
  <2>2. ControlOK'
    BY <1>30 DEF ResumeClear, TypeOK, ControlOK, requests, bounds
  <2> QED BY <2>1, <2>2 DEF TypeOK
<1>31. CASE TransferOne
  <2>1. ClientOK' /\ ObjectsOK' /\ SpeakingOK' /\ OutputOK' /\ ToldOK'
    BY <1>31, Frames DEF TransferOne
  <2>2. ListsOK'
    <3>1. lastP5 \in Seq(Message) /\ lastP5 # <<>> /\ queue[SPD_MESSAGE] \in Seq(Message)
      BY <1>31 DEF TransferOne, Transfer, TypeOK, ListsOK, Priority, SPD_IMPORTANT, SPD_MESSAGE, SPD_PROGRESS
    <3>2. Head(lastP5) \in Message /\ Tail(lastP5) \in Seq(Message)
      BY <3>1, ElementsType
    <3>3. InsertById(queue[SPD_MESSAGE], Head(lastP5)) \in Seq(Message)
      BY <3>1, <3>2, InsertByIdType
    <3> QED BY <1>31, <3>2, <3>3 DEF TransferOne, TypeOK, ListsOK
  <2>3. ControlOK'
    BY <1>31 DEF TransferOne, TypeOK, ControlOK, requests, bounds
  <2> QED BY <2>1, <2>2, <2>3 DEF TypeOK
<1>32. CASE TransferLast
  <2>1. ClientOK' /\ ObjectsOK' /\ OutputOK'
    BY <1>32, Frames DEF TransferLast
  <2>2. ListsOK'
    <3> DEFINE m == LastOf(lastP5)
             old == {t \in Elements(queue[SPD_TEXT]) : t.id < m.id}
    <3>1. /\ lastP5 \in Seq(Message) /\ lastP5 # <<>>
          /\ queue[SPD_MESSAGE] \in Seq(Message) /\ queue[SPD_TEXT] \in Seq(Message)
      BY <1>32 DEF TransferLast, Transfer, TypeOK, ListsOK, Priority, SPD_IMPORTANT,
                    SPD_MESSAGE, SPD_TEXT, SPD_PROGRESS
    <3>2. m \in Message
      BY <3>1, ElementsType
    <3>3. InsertById(queue[SPD_MESSAGE], m) \in Seq(Message)
      BY <3>1, <3>2, InsertByIdType
    <3>4. Without(queue[SPD_TEXT], old) \in Seq(Message)
      BY <3>1, WithoutType
    <3>5. queue' = [queue EXCEPT ![SPD_MESSAGE] = InsertById(@, m),
                                 ![SPD_TEXT] = Without(@, old),
                                 ![SPD_NOTIFICATION] = <<>>]
      BY <1>32 DEF TransferLast
    <3>6. lastP5' = <<>> /\ UNCHANGED pausedList
      BY <1>32 DEF TransferLast
    <3>7. SPD_MESSAGE # SPD_TEXT /\ <<>> \in Seq(Message)
      BY DEF SPD_MESSAGE, SPD_TEXT
    <3> HIDE DEF m, old
    <3> QED BY <3>3, <3>4, <3>5, <3>6, <3>7 DEF TypeOK, ListsOK
  <2>3. SpeakingOK'
    BY <1>32 DEF TransferLast, TypeOK, SpeakingOK, SPD_MESSAGE, SPD_PROGRESS
  <2>4. ToldOK'
    <3>1. PICK D : Tell(D, "cancel")
      BY <1>32 DEF TransferLast
    <3> QED BY <1>32, <3>1, TellType DEF TransferLast, TypeOK, ToldOK, died, Report
  <2>5. ControlOK'
    BY <1>32 DEF TransferLast, Posted, TypeOK, ControlOK, requests, bounds
  <2> QED BY <2>1, <2>2, <2>3, <2>4, <2>5 DEF TypeOK
<1>33. CASE TakeNothing
  <2>1. ClientOK' /\ ListsOK' /\ ObjectsOK' /\ SpeakingOK' /\ OutputOK' /\ ToldOK'
    BY <1>33, Frames DEF TakeNothing
  <2>2. ControlOK'
    BY <1>33 DEF TakeNothing, TypeOK, ControlOK, requests, bounds
  <2> QED BY <2>1, <2>2 DEF TypeOK
<1>34. CASE TakeFails
  <2>1. ClientOK' /\ ObjectsOK' /\ OutputOK' /\ ToldOK'
    BY <1>34, Frames DEF TakeFails, TakeNext
  <2>2. ListsOK'
    BY <1>34, TakenType DEF TakeFails, TypeOK, ListsOK
  <2>3. SpeakingOK'
    <3>1. Next1.uid \in 0 .. MaxClients /\ Next1.gid \in Nat
      BY <1>34, TakenType DEF TakeFails, Message, Client
    <3>2. highest' \in 0 .. SPD_PROGRESS
      BY <1>34, TakenType DEF TakeFails, Priority, SPD_IMPORTANT, SPD_PROGRESS
    <3> QED BY <1>34, <3>1, <3>2 DEF TakeFails, TypeOK, SpeakingOK
  <2>4. ControlOK'
    BY <1>34 DEF TakeFails, TakeNext, TypeOK, ControlOK, requests, bounds
  <2> QED BY <2>1, <2>2, <2>3, <2>4 DEF TypeOK
<1>35. CASE TakeSpeak
  <2>1. ObjectsOK'
    BY <1>35, Frames DEF TakeSpeak, TakeNext
  <2>2. ClientOK'
    <3>1. settings' \in {settings, [settings EXCEPT ![current.uid] = NoSettings]}
      BY <1>35 DEF TakeSpeak, ReleaseCurrent
    <3>2. NoSettings \in Settings
      BY DEF NoSettings, Settings, SPD_PROGRESS
    <3> QED BY <1>35, <3>1, <3>2 DEF TakeSpeak, TypeOK, ClientOK
  <2>3. ListsOK'
    <3>1. lastP5' \in {lastP5, <<>>}
      BY <1>35 DEF TakeSpeak
    <3> QED BY <1>35, <3>1, TakenType DEF TakeSpeak, TypeOK, ListsOK
  <2>4. SpeakingOK'
    <3>1. Next1.uid \in 0 .. MaxClients /\ Next1.gid \in Nat /\ Next1 \in Message
      BY <1>35, TakenType DEF TakeSpeak, Message, Client
    <3>2. highest' \in 0 .. SPD_PROGRESS
      BY <1>35, TakenType DEF TakeSpeak, Priority, SPD_IMPORTANT, SPD_PROGRESS
    <3> QED BY <1>35, <3>1, <3>2 DEF TakeSpeak, TypeOK, SpeakingOK
  <2>5. OutputOK'
    <3>1. Next1 \in Message /\ First(Ready) \in 0 .. SPD_PROGRESS
      BY <1>35, TakenType DEF TakeSpeak, Priority, SPD_IMPORTANT, SPD_PROGRESS
    <3> QED BY <1>35, <3>1 DEF TakeSpeak, TypeOK, OutputOK, Session
  <2>6. ToldOK'
    <3>1. current.obj \in Nat
      BY CurrentObject
    <3>2. /\ dangling' \in {dangling, dangling \cup
                              ({current.obj} \cap {p.obj : p \in Elements(pausedList)})}
          /\ fault' \in {fault, "settings"}
      BY <1>35 DEF TakeSpeak, ReleaseCurrent, died
    <3> QED BY <1>35, <3>1, <3>2 DEF TakeSpeak, TypeOK, ToldOK
  <2>7. ControlOK'
    BY <1>35 DEF TakeSpeak, TakeNext, TypeOK, ControlOK, requests, bounds
  <2> QED BY <2>1, <2>2, <2>3, <2>4, <2>5, <2>6, <2>7 DEF TypeOK
<1>36. CASE EmitBegin
  <2>1. ClientOK' /\ ListsOK' /\ ObjectsOK' /\ SpeakingOK' /\ ToldOK'
    BY <1>36, Frames DEF EmitBegin, Emit
  <2>2. OutputOK'
    <3>1. sess' \in Session
      BY <1>36 DEF EmitBegin, TypeOK, OutputOK, Session
    <3>2. PICK e \in Event : evq' = Append(evq, e)
      BY <1>36 DEF EmitBegin, Emit, Event, Terminal
    <3> QED BY <3>1, <3>2 DEF TypeOK, OutputOK
  <2>3. ControlOK'
    BY <1>36 DEF EmitBegin, Emit, TypeOK, ControlOK, requests, bounds
  <2> QED BY <2>1, <2>2, <2>3 DEF TypeOK
<1>37. CASE EmitMark
  <2>1. ClientOK' /\ ListsOK' /\ ObjectsOK' /\ SpeakingOK' /\ ToldOK'
    BY <1>37, Frames DEF EmitMark, Emit
  <2>2. OutputOK'
    <3>1. sess' \in Session
      BY <1>37 DEF EmitMark, TypeOK, OutputOK, Session
    <3>2. PICK e \in Event : evq' = Append(evq, e)
      BY <1>37 DEF EmitMark, Emit, Event, Terminal
    <3> QED BY <3>1, <3>2 DEF TypeOK, OutputOK
  <2>3. ControlOK'
    BY <1>37 DEF EmitMark, Emit, TypeOK, ControlOK, requests, bounds
  <2> QED BY <2>1, <2>2, <2>3 DEF TypeOK
<1>38. CASE EmitTerminal
  <2>1. ClientOK' /\ ListsOK' /\ ObjectsOK' /\ SpeakingOK' /\ ToldOK'
    BY <1>38, Frames DEF EmitTerminal, Emit
  <2>2. OutputOK'
    <3>1. sess' \in Session
      BY <1>38 DEF EmitTerminal, TypeOK, OutputOK, Session
    <3>2. PICK e \in Event : evq' = Append(evq, e)
      BY <1>38 DEF EmitTerminal, Emit, Event, Terminal
    <3> QED BY <3>1, <3>2 DEF TypeOK, OutputOK
  <2>3. ControlOK'
    BY <1>38 DEF EmitTerminal, Emit, TypeOK, ControlOK, requests, bounds
  <2> QED BY <2>1, <2>2, <2>3 DEF TypeOK
<1>39. CASE UNCHANGED vars
  BY <1>39, Frames DEF TypeOK, ControlOK, vars, requests, bounds
<1> QED
  BY <1>1, <1>2, <1>3, <1>4, <1>5, <1>6, <1>7, <1>8, <1>9, <1>10, <1>11,
     <1>12, <1>13, <1>14, <1>15, <1>16, <1>17, <1>18, <1>19, <1>20, <1>21,
     <1>22, <1>23, <1>24, <1>25, <1>26, <1>27, <1>28, <1>29, <1>30, <1>31,
     <1>32, <1>33, <1>34, <1>35, <1>36, <1>37, <1>38, <1>39 DEF Next,
     MainStep, MainGoesOn, SpeakStep, ModuleStep

(* The server starts with every variable in its type.                      *)
LEMMA InitType ==
  ASSUME Init
  PROVE  TypeOK
<1> USE SpeakingAssumption DEF Init
<1>1. ClientOK
  BY DEF ClientOK, NoSettings, Settings, SPD_PROGRESS
<1>2. ListsOK /\ ObjectsOK
  BY DEF ListsOK, ObjectsOK
<1>3. SpeakingOK
  <2>1. SPEAKING \in BOOLEAN /\ speakingModule \in BOOLEAN
    OBVIOUS
  <2>2. /\ current \in Message \cup {NoMessage} /\ highest \in 0 .. SPD_PROGRESS
        /\ speakingUid \in 0 .. MaxClients /\ speakingGid \in Nat
        /\ pollCount \in {1, 2}
    BY DEF SPD_PROGRESS
  <2> QED BY <2>1, <2>2 DEF SpeakingOK
<1>4. ControlOK
  <2>1. /\ pauseReq \in {0, 1, 2} /\ pauseUid \in 0 .. MaxClients
        /\ pipe \in Nat /\ sets \in Nat /\ cmds \in Nat
    OBVIOUS
  <2>2. main \in [op : {"idle", "pause", "resume", "resumePost", "cancelAll"},
                  uids : SUBSET Client]
    OBVIOUS
  <2>3. spc = "poll" /\ resumeReq \in BOOLEAN
    OBVIOUS
  <2> QED BY <2>1, <2>2, <2>3 DEF ControlOK
<1>5. OutputOK
  BY NoSessionType DEF OutputOK
<1>6. ToldOK
  BY DEF ToldOK, Report
<1> QED BY <1>1, <1>2, <1>3, <1>4, <1>5, <1>6 DEF TypeOK

(* The type invariant holds in every reachable state, for every number of  *)
(* clients, messages and commands.                                         *)
THEOREM TypeCorrect == Spec => []TypeOK
<1>1. Init => TypeOK
  BY InitType
<1>2. TypeOK /\ [Next]_vars => TypeOK'
  BY TypeStep
<1> QED BY <1>1, <1>2, PTL DEF Spec

(* speaking_resume_all() and speaking_pause_all() reach every client: no   *)
(* connected descriptor is above max_fd.                                   *)
THEOREM MaxFdCorrect == Spec => []MaxFdCovers
<1>1. Init => MaxFdCovers
  BY DEF Init, MaxFdCovers, Connected
<1>2. TypeOK /\ MaxFdCovers /\ [Next]_vars => MaxFdCovers'
  <2> SUFFICES ASSUME TypeOK, MaxFdCovers, [Next]_vars PROVE MaxFdCovers'
    OBVIOUS
  <2> USE SpeakingAssumption
  <2>1. ASSUME NEW f \in Fds, Connect(f) PROVE MaxFdCovers'
    BY <2>1 DEF Connect, TypeOK, ClientOK, MaxFdCovers, Connected
  <2>2. ASSUME NEW f \in Fds, Disconnect(f) PROVE MaxFdCovers'
    BY <2>2 DEF Disconnect, MaxFdWithout, TypeOK, ClientOK, MaxFdCovers, Connected
  <2>3. CASE UNCHANGED <<fdUid, maxFd>>
    BY <2>3 DEF MaxFdCovers, Connected
  <2>4. \/ \E f \in Fds : Connect(f) \/ Disconnect(f)
        \/ UNCHANGED <<fdUid, maxFd>>
    <3>1. CASE \E f \in Fds : Queue(f) \/ BlockBegin(f) \/ BlockEnd(f)
                              \/ \E p \in Prios : SetPriority(f, p)
      BY <3>1 DEF Queue, BlockBegin, BlockEnd, SetPriority, client
    <3>2. CASE MainStep /\ ~\E f \in Fds : Connect(f) \/ Disconnect(f) \/ Queue(f)
                 \/ BlockBegin(f) \/ BlockEnd(f) \/ \E p \in Prios : SetPriority(f, p)
      BY <3>2 DEF MainStep, Stop, Cancel, Pause, Resume, StopAll, CancelAll,
                  PauseAll, client
    <3>3. CASE MainGoesOn
      BY <3>3 DEF MainGoesOn, CancelAllQueues, PausePost, ResumeClient,
                  ResumePost, client
    <3>4. CASE SpeakStep
      BY <3>4 DEF SpeakStep, PollWake, HandleBegin, HandleMark, HandleDone,
                  HandlePaused, HandleBroken, Handle, HandlePause, ClearPause,
                  CheckSpeaking, ResumeOne, ResumeEnd, ResumeClear, TransferOne,
                  TransferLast, TakeNothing, TakeFails, TakeSpeak, client
    <3>5. CASE ModuleStep
      BY <3>5 DEF ModuleStep, EmitBegin, EmitMark, EmitTerminal, Emit, client
    <3>6. CASE UNCHANGED vars
      BY <3>6 DEF vars, client
    <3> QED BY <3>1, <3>2, <3>3, <3>4, <3>5, <3>6 DEF Next, MainStep
  <2> QED BY <2>1, <2>2, <2>3, <2>4
<1> QED BY <1>1, <1>2, TypeCorrect, PTL DEF Spec

(* The inductive form of SessionAgrees: besides, a terminal event is the   *)
(* last one of a session that is over, so that none is left behind when    *)
(* it is handled, and the steps of speak() that lead to the next message   *)
(* are taken only when nothing is spoken.                                  *)
LastEvent ==
  \A i \in 1 .. Len(evq) :
    evq[i] \in Terminal => i = Len(evq) /\ sess.state = "done"
Silent == spc \in {"resume", "resumeClear", "take", "transfer"} => ~SPEAKING
SessionInv == SessionAgrees /\ LastEvent /\ Silent

(* It does not depend on anything but the session and the speak() thread.  *)
LEMMA SessionFrame ==
  ASSUME SessionInv, UNCHANGED <<speaking, output>>,
         spc' = spc \/ spc' \in {"poll", "pause", "pauseClear"} \/ ~SPEAKING
  PROVE  SessionInv'
BY DEF SessionInv, SessionAgrees, LastEvent, Silent, speaking, output

(* Asking the module to stop or to pause leaves its message what it was;   *)
(* speaking_uid may be reset when nothing is spoken.                       *)
LEMMA SessionAsked ==
  ASSUME SessionInv,
         sess'.state = sess.state, sess'.msg = sess.msg, sess'.prio = sess.prio,
         UNCHANGED <<evq, SPEAKING, pollCount, speakingModule, current, highest,
                     speakingGid>>,
         SPEAKING => UNCHANGED speakingUid,
         spc' = spc \/ spc' \in {"poll", "pause", "pauseClear"}
  PROVE  SessionInv'
BY DEF SessionInv, SessionAgrees, LastEvent, Silent

(* The events of a session are typed and in order when one is appended.    *)
LEMMA LastEventAppend ==
  ASSUME TypeOK, LastEvent, NEW e, evq' = Append(evq, e),
         sess.state # "done", e \in Terminal => sess'.state = "done"
  PROVE  LastEvent' /\ evq' # <<>>
<1>1. /\ Len(evq') = Len(evq) + 1 /\ Len(evq) \in Nat
      /\ \A i \in 1 .. Len(evq) : evq'[i] = evq[i]
      /\ evq'[Len(evq) + 1] = e
  BY DEF TypeOK, OutputOK
<1>2. ASSUME NEW i \in 1 .. Len(evq'), evq'[i] \in Terminal
      PROVE  i = Len(evq') /\ sess'.state = "done"
  <2>1. CASE i \in 1 .. Len(evq)
    BY <1>1, <1>2, <2>1 DEF LastEvent
  <2>2. CASE i = Len(evq) + 1
    BY <1>1, <1>2, <2>2
  <2> QED BY <1>1, <2>1, <2>2
<1> QED BY <1>1, <1>2 DEF LastEvent

(* and when the first is handled: nothing follows a terminal event.        *)
LEMMA LastEventHandled ==
  ASSUME TypeOK, LastEvent, NEW e, Handle(e)
  PROVE  /\ e \notin Terminal /\ sess' = sess => LastEvent'
         /\ e \in Terminal => evq' = <<>> /\ LastEvent'
<1>1. /\ evq # <<>> /\ evq \in Seq(Event) /\ evq' = Tail(evq) /\ evq[1] = e
      /\ Len(evq) \in Nat /\ 1 \in 1 .. Len(evq)
  BY DEF TypeOK, OutputOK, Handle, HasEvent
<1>2. /\ Len(evq') = Len(evq) - 1
      /\ \A i \in 1 .. Len(evq) - 1 : evq'[i] = evq[i + 1]
  BY <1>1
<1>3. ASSUME e \notin Terminal, sess' = sess PROVE LastEvent'
  <2>1. ASSUME NEW i \in 1 .. Len(evq'), evq'[i] \in Terminal
        PROVE  i = Len(evq') /\ sess'.state = "done"
    <3>1. i + 1 \in 1 .. Len(evq) /\ evq[i + 1] \in Terminal
      BY <1>1, <1>2, <2>1
    <3>2. i + 1 = Len(evq) /\ sess.state = "done"
      BY <3>1 DEF LastEvent
    <3>3. i \in Int /\ Len(evq) \in Nat /\ Len(evq') = Len(evq) - 1
      BY <1>1, <1>2
    <3>4. i = Len(evq')
      BY <3>2, <3>3
    <3> QED BY <1>3, <3>2, <3>4
  <2> QED BY <2>1 DEF LastEvent
<1>4. ASSUME e \in Terminal PROVE evq' = <<>> /\ LastEvent'
  <2>1. Len(evq) = 1
    BY <1>1, <1>4 DEF LastEvent
  <2>2. evq' = <<>>
    BY <1>1, <1>2, <2>1
  <2> QED BY <2>2 DEF LastEvent
<1> QED BY <1>3, <1>4

(* Every step keeps the flags and the session in agreement.                *)
LEMMA SessionStep ==
  ASSUME TypeOK, SessionInv, [Next]_vars
  PROVE  SessionInv'
<1>1. ASSUME NEW f \in Fds,
             Connect(f) \/ Disconnect(f) \/ BlockBegin(f) \/ BlockEnd(f)
               \/ \E p \in Prios : SetPriority(f, p)
      PROVE  SessionInv'
  BY <1>1, SessionFrame DEF Connect, Disconnect, BlockBegin, BlockEnd, SetPriority
<1>2. ASSUME NEW f \in Fds, Queue(f) PROVE SessionInv'
  <2>1. sess' \in {sess, Stopped(sess)} /\ UNCHANGED <<speaking, evq, spc>>
    BY <1>2 DEF Queue, Enqueue
  <2> QED BY <2>1, AskedType, SessionAsked DEF speaking
<1>3. ASSUME NEW u \in 1 .. maxUid, Stop(u) \/ Cancel(u) PROVE SessionInv'
  BY <1>3, AskedType, SessionAsked DEF Stop, Cancel, StopClient, UidAfterStop
<1>4. CASE StopAll \/ CancelAll \/ CancelAllQueues
  <2>1. sess' \in {sess, Stopped(sess)} /\ UNCHANGED <<speaking, evq, spc>>
    BY <1>4 DEF StopAll, CancelAll, CancelAllQueues
  <2> QED BY <2>1, AskedType, SessionAsked DEF speaking
<1>5. CASE \/ \E u \in 1 .. maxUid : Pause(u) \/ Resume("resume", {u})
           \/ PauseAll \/ Resume("resumeAll", UpToMaxFd)
           \/ PausePost \/ ResumeClient \/ ResumePost
  BY <1>5, SessionFrame DEF Pause, Resume, PauseAll, PausePost, ResumeClient,
                            ResumePost
<1>6. CASE PollWake \/ ClearPause \/ CheckSpeaking \/ ResumeEnd \/ ResumeClear
  <2>1. UNCHANGED <<speaking, output>>
    BY <1>6 DEF PollWake, ClearPause, CheckSpeaking, ResumeEnd, ResumeClear
  <2>2. spc' \in {"poll", "pause", "pauseClear"} \/ ~SPEAKING
    BY <1>6 DEF PollWake, ClearPause, CheckSpeaking, AfterCheck, ResumeEnd,
                ResumeClear, SessionInv, Silent
  <2> QED BY <2>1, <2>2, SessionFrame
<1>7. CASE HandleBegin \/ HandleMark
  <2>1. /\ SPEAKING /\ SPEAKING' /\ spc' = "pause" /\ UNCHANGED sess
        /\ UNCHANGED <<current, highest, speakingUid, speakingGid,
                       speakingModule, pollCount>>
    BY <1>7 DEF HandleBegin, HandleMark, Handle, HasEvent, SessionInv,
                SessionAgrees
  <2>2. LastEvent'
    <3>1. PICK e \in {"begin", "mark"} : Handle(e)
      BY <1>7 DEF HandleBegin, HandleMark
    <3> QED BY <2>1, <3>1, LastEventHandled DEF SessionInv, Terminal
  <2> QED BY <2>1, <2>2 DEF SessionInv, SessionAgrees, Silent
<1>8. CASE HandleDone \/ HandlePaused \/ HandleBroken
  <2>1. /\ ~SPEAKING' /\ pollCount' = 1 /\ sess' = NoSession /\ spc' = "pause"
    BY <1>8 DEF HandleDone, HandlePaused, HandleBroken, Handle
  <2>2. evq' = <<>> /\ LastEvent'
    <3>1. PICK e \in Terminal : Handle(e)
      BY <1>8 DEF HandleDone, HandlePaused, HandleBroken, Terminal
    <3> QED BY <3>1, LastEventHandled DEF SessionInv
  <2> QED BY <2>1, <2>2 DEF SessionInv, SessionAgrees, Silent, NoSession
<1>9. CASE HandlePause
  <2>1. sess' \in {sess, Paused(sess)} /\ UNCHANGED <<speaking, evq>>
        /\ spc' = "pauseClear"
    BY <1>9 DEF HandlePause
  <2> QED BY <2>1, AskedType, SessionAsked DEF speaking
<1>10. CASE ResumeOne
  <2>1. ~SPEAKING /\ UNCHANGED <<SPEAKING, pollCount, spc, evq>>
    BY <1>10 DEF ResumeOne, SessionInv, Silent
  <2>2. sess' \in {sess, Stopped(sess)}
    BY <1>10 DEF ResumeOne, Enqueue
  <2>3. sess'.state = sess.state
    BY <2>2, AskedType
  <2> QED BY <2>1, <2>3 DEF SessionInv, SessionAgrees, LastEvent, Silent
<1>11. CASE TransferOne \/ TransferLast \/ TakeNothing \/ TakeFails
  <2>1. ~SPEAKING /\ UNCHANGED <<SPEAKING, pollCount, output>>
    BY <1>11 DEF TransferOne, TransferLast, TakeNothing, TakeFails, Taking,
                 Locked, SessionInv, Silent, speaking, TakeNext
  <2> QED BY <2>1 DEF SessionInv, SessionAgrees, LastEvent, Silent, output
<1>12. CASE TakeSpeak
  <2>1. ~SPEAKING
    BY <1>12 DEF TakeSpeak, TakeNext, Taking, SessionInv, Silent
  <2>2. evq = <<>> /\ evq' = <<>> /\ SPEAKING' /\ spc' = "poll"
    BY <1>12, <2>1 DEF TakeSpeak, TakeNext, SessionInv, SessionAgrees
  <2>3. Next1 # NoMessage /\ First(Ready) # 0
    BY <1>12, TakenType DEF TakeSpeak, Message, NoMessage, MsgId, Priority,
                            SPD_IMPORTANT, SPD_PROGRESS
  <2>4. SessionAgrees'
    BY <1>12, <2>2, <2>3 DEF TakeSpeak, TakeNext, SessionAgrees
  <2>5. LastEvent' /\ Silent'
    BY <2>2 DEF LastEvent, Silent
  <2> QED BY <2>4, <2>5 DEF SessionInv
<1>13. CASE EmitBegin \/ EmitMark \/ EmitTerminal
  <2>1. /\ sess.state \in {"synth", "begun"}
        /\ sess'.state \in {"begun", "done"}
        /\ sess'.msg = sess.msg /\ sess'.prio = sess.prio
        /\ UNCHANGED <<speaking, spc>>
    BY <1>13 DEF EmitBegin, EmitMark, EmitTerminal, Emit, TypeOK, OutputOK, Session
  <2>2. PICK e : /\ evq' = Append(evq, e)
                 /\ e \in Terminal => sess'.state = "done"
    BY <1>13 DEF EmitBegin, EmitMark, EmitTerminal, Emit, TypeOK, OutputOK,
                 Session, Terminal
  <2>3. LastEvent'
    BY <2>1, <2>2, LastEventAppend DEF SessionInv
  <2> QED BY <2>1, <2>3 DEF SessionInv, SessionAgrees, Silent, speaking
<1>14. CASE UNCHANGED vars
  BY <1>14, SessionFrame DEF vars
<1> QED
  BY <1>1, <1>2, <1>3, <1>4, <1>5, <1>6, <1>7, <1>8, <1>9, <1>10, <1>11, <1>12,
     <1>13, <1>14 DEF Next, MainStep, MainGoesOn, SpeakStep, ModuleStep

(* It holds when the server starts.                                        *)
LEMMA InitSession ==
  ASSUME Init
  PROVE  SessionInv
BY DEF Init, SessionInv, SessionAgrees, LastEvent, Silent, NoSession

(* The flags that is_sb_speaking(), speaking_stop(), resolve_priorities()  *)
(* and output_stop() read describe the open session in every state.        *)
THEOREM SessionCorrect == Spec => []SessionAgrees
<1>1. Init => SessionInv
  BY InitSession
<1>2. TypeOK /\ SessionInv /\ [Next]_vars => SessionInv'
  BY SessionStep
<1>3. SessionInv => SessionAgrees
  BY DEF SessionInv
<1> QED BY <1>1, <1>2, <1>3, TypeCorrect, PTL DEF Spec

(* An event other than BEGIN and RESUME starts no message.                 *)
LEMMA TellQuiet ==
  ASSUME TypeOK, NEW D, NEW e \in {"pause", "end", "cancel"}, Tell(D, e),
         NEW i \in MsgId, life'[i] \in {"begin", "resume"}
  PROVE  life[i] \in {"begin", "resume"} /\ ~\E m \in D : m.id = i
BY DEF Tell, TypeOK, ToldOK

(* OneVoice is kept by a step that goes on speaking the same message, or   *)
(* that finds nothing spoken, and starts no message.                       *)
LEMMA OneVoiceFrame ==
  ASSUME OneVoice,
         \A i \in MsgId : life'[i] \in {"begin", "resume"}
                            => life[i] \in {"begin", "resume"},
         UNCHANGED <<SPEAKING, current>> \/ ~SPEAKING
  PROVE  OneVoice'
BY DEF OneVoice

(* Every step lets at most one message be between BEGIN or RESUME and END, *)
(* PAUSE or CANCEL, unless the connection to a module breaks.              *)
LEMMA OneVoiceStep ==
  ASSUME MayBreak = FALSE, TypeOK, SessionInv, "broken" \notin Elements(evq),
         OneVoice, [Next]_vars
  PROVE  OneVoice'
<1>1. ASSUME NEW f \in Fds,
             Connect(f) \/ Disconnect(f) \/ BlockBegin(f) \/ BlockEnd(f)
               \/ \E p \in Prios : SetPriority(f, p)
      PROVE  OneVoice'
  <2>1. UNCHANGED <<speaking, life>>
    BY <1>1 DEF Connect, Disconnect, BlockBegin, BlockEnd, SetPriority
  <2> QED BY <2>1 DEF speaking, OneVoice
<1>2. ASSUME NEW f \in Fds, Queue(f) PROVE OneVoice'
  <2>1. PICK D : Tell(D, "cancel")
    BY <1>2 DEF Queue, Enqueue
  <2>2. UNCHANGED <<SPEAKING, current>>
    BY <1>2 DEF Queue, speaking
  <2> QED BY <2>1, <2>2, TellQuiet, OneVoiceFrame
<1>3. ASSUME NEW u \in 1 .. maxUid, Stop(u) PROVE OneVoice'
  BY <1>3 DEF Stop, OneVoice
<1>4. ASSUME NEW u \in 1 .. maxUid, Cancel(u) PROVE OneVoice'
  <2>1. PICK D : Tell(D, "cancel")
    BY <1>4 DEF Cancel
  <2>2. UNCHANGED <<SPEAKING, current>>
    BY <1>4 DEF Cancel
  <2> QED BY <2>1, <2>2, TellQuiet, OneVoiceFrame
<1>5. CASE \/ StopAll \/ CancelAll \/ PauseAll \/ PausePost \/ ResumeClient
           \/ ResumePost \/ Resume("resumeAll", UpToMaxFd)
           \/ \E u \in 1 .. maxUid : Pause(u) \/ Resume("resume", {u})
  BY <1>5 DEF StopAll, CancelAll, PauseAll, PausePost, ResumeClient, ResumePost,
              Resume, Pause, speaking, OneVoice
<1>6. CASE CancelAllQueues
  <2>1. PICK D : Tell(D, "cancel")
    BY <1>6 DEF CancelAllQueues
  <2>2. UNCHANGED <<SPEAKING, current>>
    BY <1>6 DEF CancelAllQueues, speaking
  <2> QED BY <2>1, <2>2, TellQuiet, OneVoiceFrame
<1>7. CASE PollWake \/ ClearPause \/ CheckSpeaking \/ ResumeEnd \/ ResumeClear
           \/ HandlePause
  BY <1>7 DEF PollWake, ClearPause, CheckSpeaking, ResumeEnd, ResumeClear,
              HandlePause, speaking, OneVoice
<1>8. CASE HandleBegin
  <2>1. SPEAKING /\ SPEAKING' /\ UNCHANGED current
    BY <1>8 DEF HandleBegin, Handle, HasEvent, SessionInv, SessionAgrees
  <2>2. ASSUME NEW i \in MsgId, i # current.id PROVE life'[i] = life[i]
    BY <1>8, <2>2 DEF HandleBegin, Tell, TypeOK, ToldOK
  <2> QED BY <2>1, <2>2 DEF OneVoice
<1>9. CASE HandleMark
  BY <1>9 DEF HandleMark, Handle, HasEvent, SessionInv, SessionAgrees,
              OneVoice
<1>10. CASE HandleDone \/ HandlePaused
  <2>1. SPEAKING
    BY <1>10 DEF HandleDone, HandlePaused, Handle, HasEvent, SessionInv,
                 SessionAgrees
  <2>2. PICK e \in {"pause", "end", "cancel"} : Tell({current}, e)
    BY <1>10 DEF HandleDone, HandlePaused
  <2>3. ASSUME NEW i \in MsgId, life'[i] \in {"begin", "resume"} PROVE FALSE
    <3>1. life[i] \in {"begin", "resume"} /\ current.id # i
      BY <2>2, <2>3, TellQuiet
    <3> QED BY <3>1 DEF OneVoice
  <2> QED BY <2>3 DEF OneVoice
<1>11. CASE HandleBroken
  <2>1. evq # <<>> /\ Head(evq) = "broken" /\ evq \in Seq(Event)
    BY <1>11 DEF HandleBroken, Handle, HasEvent, TypeOK, OutputOK
  <2> QED BY <2>1, ElementsType DEF Elements
<1>12. CASE ResumeOne \/ TransferOne \/ TransferLast \/ TakeNothing \/ TakeFails
            \/ TakeSpeak
  <2>1. ~SPEAKING
    BY <1>12 DEF ResumeOne, TransferOne, TransferLast, TakeNothing, TakeFails,
                 TakeSpeak, TakeNext, Taking, Locked, SessionInv, Silent
  <2>2. UNCHANGED life \/ \E D : Tell(D, "cancel")
    BY <1>12 DEF ResumeOne, TransferOne, TransferLast, TakeNothing, TakeFails,
                 TakeSpeak, Enqueue
  <2>3. ASSUME NEW i \in MsgId, life'[i] \in {"begin", "resume"}
        PROVE  life[i] \in {"begin", "resume"}
    BY <2>2, <2>3, TellQuiet
  <2> QED BY <2>1, <2>3, OneVoiceFrame
<1>13. CASE EmitBegin \/ EmitMark \/ EmitTerminal
  BY <1>13 DEF EmitBegin, EmitMark, EmitTerminal, Emit, speaking, OneVoice
<1>14. CASE UNCHANGED vars
  BY <1>14 DEF vars, speaking, OneVoice
<1> QED
  BY <1>1, <1>2, <1>3, <1>4, <1>5, <1>6, <1>7, <1>8, <1>9, <1>10, <1>11, <1>12,
     <1>13, <1>14 DEF Next, MainStep, MainGoesOn, SpeakStep, ModuleStep

(* Events are appended by the module only; it breaks only if MayBreak.     *)
LEMMA NotBroken ==
  ASSUME MayBreak = FALSE, TypeOK, SessionInv, "broken" \notin Elements(evq),
         [Next]_vars
  PROVE  "broken" \notin Elements(evq')
<1>1. CASE EmitBegin \/ EmitMark \/ EmitTerminal
  <2>1. PICK e : evq' = Append(evq, e) /\ e # "broken"
    BY <1>1 DEF EmitBegin, EmitMark, EmitTerminal, Emit
  <2> QED BY <2>1, ElementsType DEF TypeOK, OutputOK
<1>2. CASE HandleBegin \/ HandleMark \/ HandleDone \/ HandlePaused \/ HandleBroken
  <2>1. evq \in Seq(Event) /\ evq # <<>> /\ evq' = Tail(evq)
    BY <1>2 DEF HandleBegin, HandleMark, HandleDone, HandlePaused, HandleBroken,
                Handle, HasEvent, TypeOK, OutputOK
  <2> QED BY <2>1, ElementsType
<1>3. CASE TakeSpeak
  BY <1>3 DEF TakeSpeak
<1>4. CASE \E f \in Fds : Connect(f) \/ Disconnect(f) \/ Queue(f)
                          \/ BlockBegin(f) \/ BlockEnd(f)
                          \/ \E p \in Prios : SetPriority(f, p)
  BY <1>4 DEF Connect, Disconnect, Queue, BlockBegin, BlockEnd, SetPriority, output
<1>5. CASE \/ \E u \in 1 .. maxUid : Stop(u) \/ Cancel(u) \/ Pause(u)
                                     \/ Resume("resume", {u})
           \/ StopAll \/ CancelAll \/ PauseAll \/ Resume("resumeAll", UpToMaxFd)
  BY <1>5 DEF Stop, Cancel, Pause, Resume, StopAll, CancelAll, PauseAll, output
<1>6. CASE MainGoesOn
  BY <1>6 DEF MainGoesOn, CancelAllQueues, PausePost, ResumeClient, ResumePost,
              output
<1>7. CASE \/ PollWake \/ HandlePause \/ ClearPause \/ CheckSpeaking \/ ResumeOne
           \/ ResumeEnd \/ ResumeClear \/ TransferOne \/ TransferLast
           \/ TakeNothing \/ TakeFails
  BY <1>7 DEF PollWake, HandlePause, ClearPause, CheckSpeaking, ResumeOne,
              ResumeEnd, ResumeClear, TransferOne, TransferLast, TakeNothing,
              TakeFails, output
<1>8. CASE UNCHANGED vars
  BY <1>8 DEF vars, output
<1> QED
  BY <1>1, <1>2, <1>3, <1>4, <1>5, <1>6, <1>7, <1>8
     DEF Next, MainStep, SpeakStep, ModuleStep

(* A client that was told BEGIN or RESUME is told how the message ends     *)
(* before another message is said to begin, as long as no connection to a  *)
(* module breaks (in which case it is not, see the run "broken").          *)
THEOREM OneVoiceCorrect ==
  ASSUME MayBreak = FALSE
  PROVE  Spec => []OneVoice
<1> DEFINE Inv == TypeOK /\ SessionInv /\ OneVoice /\ "broken" \notin Elements(evq)
<1>1. Init => Inv
  <2>1. Init => OneVoice /\ "broken" \notin Elements(evq)
    BY DEF Init, OneVoice, Elements
  <2> QED BY <2>1, InitSession, InitType
<1>2. Inv /\ [Next]_vars => Inv'
  BY TypeStep, SessionStep, OneVoiceStep, NotBroken
<1>3. Inv => OneVoice
  OBVIOUS
<1> QED BY <1>1, <1>2, <1>3, PTL DEF Spec

-----------------------------------------------------------------------------
(* Operations on one list.                                                 *)

(* No object stands twice in s.                                            *)
NoRepeat(s) == \A x, y \in DOMAIN s : s[x].obj = s[y].obj => x = y

(* t is made of s by removals.                                             *)
Shrinks(t, s) == Elements(t) \subseteq Elements(s) /\ (NoRepeat(s) => NoRepeat(t))

(* Leaving elements out of a list repeats none.                            *)
LEMMA KeepAtShrinks ==
  ASSUME NEW S, NEW s \in Seq(S), NEW I \in SUBSET DOMAIN s
  PROVE  Shrinks(KeepAt(s, I), s)
<1>1. Elements(KeepAt(s, I)) \subseteq Elements(s)
  <2>1. Elements(KeepAt(s, I)) = {s[i] : i \in I}
    BY KeepAtType
  <2> QED BY <2>1 DEF Elements
<1>2. NoRepeat(s) => NoRepeat(KeepAt(s, I))
  <2> SUFFICES ASSUME NoRepeat(s), NEW x \in DOMAIN KeepAt(s, I), NEW y \in DOMAIN KeepAt(s, I),
                      KeepAt(s, I)[x].obj = KeepAt(s, I)[y].obj
               PROVE  x = y
    BY DEF NoRepeat
  <2>1. PICK i, j \in DOMAIN s : /\ KeepAt(s, I)[x] = s[i] /\ KeepAt(s, I)[y] = s[j]
                                 /\ i = j => x = y
    BY KeepAtPlaces
  <2> QED BY <2>1 DEF NoRepeat
<1> QED BY <1>1, <1>2 DEF Shrinks

(* What the commands and speak() take out of a list leaves such a list.    *)
LEMMA RemovalsShrink ==
  ASSUME NEW S, NEW s \in Seq(S)
  PROVE  /\ Shrinks(s, s) /\ Shrinks(<<>>, s)
         /\ \A D : Shrinks(Without(s, D), s) /\ Shrinks(DropTrailing(s, D), s)
         /\ s # <<>> => Shrinks(Tail(s), s) /\ Shrinks(<<LastOf(s)>>, s)
<1>1. Shrinks(s, s) /\ Shrinks(<<>>, s)
  BY DEF Shrinks, NoRepeat, Elements
<1>2. \A D : Shrinks(Without(s, D), s) /\ Shrinks(DropTrailing(s, D), s)
  BY KeepAtShrinks DEF Without, DropTrailing
<1>3. ASSUME s # <<>> PROVE Shrinks(Tail(s), s)
  <2>1. /\ DOMAIN s = 1 .. Len(s) /\ Len(s) \in Nat /\ DOMAIN Tail(s) = 1 .. Len(s) - 1
        /\ \A i \in 1 .. Len(s) - 1 : Tail(s)[i] = s[i + 1]
    BY <1>3
  <2>2. NoRepeat(s) => NoRepeat(Tail(s))
    <3> SUFFICES ASSUME NoRepeat(s), NEW x \in DOMAIN Tail(s), NEW y \in DOMAIN Tail(s),
                        Tail(s)[x].obj = Tail(s)[y].obj
                 PROVE  x = y
      BY DEF NoRepeat
    <3>1. x + 1 \in DOMAIN s /\ y + 1 \in DOMAIN s /\ s[x + 1].obj = s[y + 1].obj
      BY <2>1
    <3>2. x + 1 = y + 1 /\ x \in Int /\ y \in Int
      BY <2>1, <3>1 DEF NoRepeat
    <3> QED BY <3>2
  <2> QED BY <1>3, <2>2, ElementsType DEF Shrinks
<1>4. ASSUME s # <<>> PROVE Shrinks(<<LastOf(s)>>, s)
  <2>1. DOMAIN <<LastOf(s)>> = {1} /\ <<LastOf(s)>>[1] = LastOf(s)
    OBVIOUS
  <2>2. LastOf(s) \in Elements(s)
    BY <1>4, ElementsType
  <2> QED BY <2>1, <2>2 DEF Shrinks, NoRepeat, Elements
<1> QED BY <1>1, <1>2, <1>3, <1>4

(* A new object may be appended, or inserted, without a repetition.        *)
LEMMA NewObject ==
  ASSUME NEW S, NEW s \in Seq(S), NEW m \in S, NoRepeat(s),
         \A x \in Elements(s) : x.obj # m.obj
  PROVE  NoRepeat(Append(s, m)) /\ NoRepeat(InsertById(s, m)) /\ NoRepeat(<<m>>)
<1>1. DOMAIN s = 1 .. Len(s) /\ Len(s) \in Nat /\ \A i \in DOMAIN s : s[i].obj # m.obj
  BY DEF Elements
<1>2. NoRepeat(Append(s, m))
  <2>1. /\ DOMAIN Append(s, m) = 1 .. Len(s) + 1
        /\ \A i \in 1 .. Len(s) : Append(s, m)[i] = s[i]
        /\ Append(s, m)[Len(s) + 1] = m
    OBVIOUS
  <2> QED BY <1>1, <2>1 DEF NoRepeat
<1>3. NoRepeat(InsertById(s, m))
  <2>1. DOMAIN InsertById(s, m) = 1 .. Len(s) + 1
    BY InsertByIdPlaces
  <2>2. PICK k \in 0 .. Len(s) : \A i \in 1 .. Len(s) + 1 :
          InsertById(s, m)[i] = IF i <= k THEN s[i]
                                ELSE IF i = k + 1 THEN m ELSE s[i - 1]
    BY InsertByIdPlaces
  <2> DEFINE t == InsertById(s, m)
             from(i) == IF i <= k THEN i ELSE i - 1
  <2>3. \A i \in 1 .. Len(s) + 1 : i # k + 1 => from(i) \in DOMAIN s /\ t[i] = s[from(i)]
    BY <1>1, <2>2
  <2>4. t[k + 1] = m
    BY <1>1, <2>2
  <2> HIDE DEF t
  <2>5. ASSUME NEW x \in 1 .. Len(s) + 1, NEW y \in 1 .. Len(s) + 1, t[x].obj = t[y].obj
        PROVE  x = y
    <3>1. CASE x = k + 1 /\ y # k + 1
      BY <1>1, <2>3, <2>4, <2>5, <3>1
    <3>2. CASE x # k + 1 /\ y = k + 1
      BY <1>1, <2>3, <2>4, <2>5, <3>2
    <3>3. CASE x # k + 1 /\ y # k + 1
      <4>1. s[from(x)].obj = s[from(y)].obj /\ from(x) \in DOMAIN s /\ from(y) \in DOMAIN s
        BY <2>3, <2>5, <3>3
      <4>2. from(x) = from(y)
        BY <4>1 DEF NoRepeat
      <4> QED BY <1>1, <3>3, <4>2
    <3> QED BY <3>1, <3>2, <3>3
  <2> QED BY <2>1, <2>5 DEF NoRepeat, t
<1>4. NoRepeat(<<m>>)
  BY DEF NoRepeat
<1> QED BY <1>2, <1>3, <1>4

-----------------------------------------------------------------------------
(* Each connected client has settings of its own, with a priority that is  *)
(* one: a message is always queued to one of the five queues.              *)
ConnectedInv ==
  /\ \A f \in Fds : Connected(f) =>
       fdUid[f] \in 1 .. maxUid /\ settings[fdUid[f]].active /\ settings[fdUid[f]].priority # 0
  /\ \A f, g \in Fds : Connected(f) /\ fdUid[f] = fdUid[g] => f = g

(* Only these steps write the settings of a client that stays connected,   *)
(* or what says who is connected.                                          *)
LEMMA ConnectedStep ==
  ASSUME TypeOK, ConnectedInv, [Next]_vars
  PROVE  ConnectedInv'
<1> USE SpeakingAssumption
<1>1. ASSUME UNCHANGED <<fdUid, maxUid>>,
             \A u \in Client : settings[u].active /\ settings[u].priority # 0
                => settings'[u].active /\ settings'[u].priority # 0
      PROVE  ConnectedInv'
  BY <1>1 DEF ConnectedInv, Connected, TypeOK, ClientOK, Client
<1>2. ASSUME NEW f \in Fds, Connect(f) PROVE ConnectedInv'
  <2>1. /\ maxUid' = maxUid + 1 /\ maxUid + 1 \in Client /\ maxUid \in Nat
        /\ fdUid \in [Fds -> 0 .. MaxClients] /\ fdUid' = [fdUid EXCEPT ![f] = maxUid + 1]
    BY <1>2 DEF Connect, TypeOK, ClientOK, Client
  <2>2. /\ settings'[maxUid + 1].active /\ settings'[maxUid + 1].priority # 0
        /\ \A u \in Client : u # maxUid + 1 => settings'[u] = settings[u]
    BY <1>2, <2>1 DEF Connect, TypeOK, ClientOK, SPD_MESSAGE
  <2>3. \A g \in Fds \ {f} : fdUid[g] # 0 => fdUid[g] \in 1 .. maxUid /\ fdUid[g] \in Client
    BY DEF ConnectedInv, Connected, TypeOK, ClientOK, Client
  <2>4. \A g \in Fds : fdUid'[g] = IF g = f THEN maxUid + 1 ELSE fdUid[g]
    BY <2>1
  <2> QED BY <2>1, <2>2, <2>3, <2>4 DEF ConnectedInv, Connected
<1>3. ASSUME NEW f \in Fds, Disconnect(f) PROVE ConnectedInv'
  <2>1. /\ fdUid \in [Fds -> 0 .. MaxClients] /\ fdUid' = [fdUid EXCEPT ![f] = 0]
        /\ UNCHANGED maxUid /\ Connected(f)
    BY <1>3 DEF Disconnect, TypeOK, ClientOK
  <2>2. \A u \in Client : u # fdUid[f] => settings'[u] = settings[u]
    BY <1>3 DEF Disconnect, TypeOK, ClientOK
  <2>3. \A g \in Fds : fdUid'[g] # 0 => g # f /\ fdUid'[g] = fdUid[g] /\ fdUid[g] \in Client
    BY <2>1 DEF Client
  <2> QED BY <2>1, <2>2, <2>3 DEF ConnectedInv, Connected
<1>4. ASSUME NEW f \in Fds, NEW p \in Prios, SetPriority(f, p) PROVE ConnectedInv'
  <2>1. p # 0
    BY DEF Priority, SPD_IMPORTANT, SPD_PROGRESS
  <2>2. \A u \in Client : settings'[u].active = settings[u].active
                         /\ settings'[u].priority \in {settings[u].priority, p}
    BY <1>4 DEF SetPriority, TypeOK, ClientOK, Settings
  <2>3. UNCHANGED <<fdUid, maxUid>>
    BY <1>4 DEF SetPriority
  <2> QED BY <1>1, <2>1, <2>2, <2>3
<1>5. CASE ResumeClient
  <2>1. \A u \in Client : /\ settings'[u].active = settings[u].active
                         /\ settings'[u].priority = settings[u].priority
    BY <1>5 DEF ResumeClient, TypeOK, ClientOK, Settings
  <2>2. UNCHANGED <<fdUid, maxUid>>
    BY <1>5 DEF ResumeClient
  <2> QED BY <1>1, <2>1, <2>2
<1>6. CASE HandlePause
  <2>1. \A u \in Client : /\ settings'[u].active = settings[u].active
                         /\ settings'[u].priority = settings[u].priority
    BY <1>6 DEF HandlePause, TypeOK, ClientOK, Settings
  <2>2. UNCHANGED <<fdUid, maxUid>>
    BY <1>6 DEF HandlePause
  <2> QED BY <1>1, <2>1, <2>2
<1>7. CASE TakeSpeak
  <2>1. settings' = settings \/ (/\ settings' = [settings EXCEPT ![current.uid] = NoSettings]
                                 /\ ~settings[current.uid].active)
    BY <1>7 DEF TakeSpeak, ReleaseCurrent, Forgets
  <2>2. \A u \in Client : settings[u].active => settings'[u] = settings[u]
    BY <2>1 DEF TypeOK, ClientOK
  <2>3. UNCHANGED <<fdUid, maxUid>>
    BY <1>7 DEF TakeSpeak
  <2> QED BY <1>1, <2>2, <2>3
<1>8. CASE UNCHANGED <<fdUid, maxUid, settings>>
  BY <1>1, <1>8
<1>9. \/ \E f \in Fds : Connect(f) \/ Disconnect(f) \/ \E p \in Prios : SetPriority(f, p)
      \/ ResumeClient \/ HandlePause \/ TakeSpeak
      \/ UNCHANGED <<fdUid, maxUid, settings>>
  <2>1. ASSUME NEW f \in Fds, Queue(f) \/ BlockBegin(f) \/ BlockEnd(f)
        PROVE  UNCHANGED <<fdUid, maxUid, settings>>
    BY <2>1 DEF Queue, BlockBegin, BlockEnd, client
  <2>2. CASE \/ \E u \in 1 .. maxUid : Stop(u) \/ Cancel(u) \/ Pause(u) \/ Resume("resume", {u})
             \/ StopAll \/ CancelAll \/ PauseAll \/ Resume("resumeAll", UpToMaxFd)
             \/ CancelAllQueues \/ PausePost \/ ResumePost
    BY <2>2 DEF Stop, Cancel, Pause, Resume, StopAll, CancelAll, PauseAll, CancelAllQueues, PausePost,
                ResumePost, client
  <2>3. CASE \/ PollWake \/ HandleBegin \/ HandleMark \/ HandleDone \/ HandlePaused \/ HandleBroken
             \/ ClearPause \/ CheckSpeaking \/ ResumeOne \/ ResumeEnd \/ ResumeClear
             \/ TransferOne \/ TransferLast \/ TakeNothing \/ TakeFails
    BY <2>3 DEF PollWake, HandleBegin, HandleMark, HandleDone, HandlePaused, HandleBroken, Handle,
                ClearPause, CheckSpeaking, ResumeOne, ResumeEnd, ResumeClear, TransferOne, TransferLast,
                TakeNothing, TakeFails, client
  <2>4. CASE ModuleStep
    BY <2>4 DEF ModuleStep, EmitBegin, EmitMark, EmitTerminal, Emit, client
  <2>5. CASE UNCHANGED vars
    BY <2>5 DEF vars, client
  <2> QED BY <2>1, <2>2, <2>3, <2>4, <2>5 DEF Next, MainStep, MainGoesOn, SpeakStep
<1> QED BY <1>2, <1>3, <1>4, <1>5, <1>6, <1>7, <1>8, <1>9

(* What queue_message() queues, and where.                                 *)
LEMMA Queues ==
  ASSUME TypeOK, ConnectedInv, NEW f \in Fds, Queue(f)
  PROVE  \E m \in Message :
           /\ m = [id |-> lastId + 1, obj |-> lastObj + 1, uid |-> fdUid[f],
                   fd |-> f, gid |-> inside[f]]
           /\ settings[fdUid[f]].priority \in Priority
           /\ Enqueue(m, settings[fdUid[f]].priority, lastObj + 2)
<1> DEFINE m == [id |-> lastId + 1, obj |-> lastObj + 1, uid |-> fdUid[f],
                fd |-> f, gid |-> inside[f]]
<1> USE SpeakingAssumption
<1>1. lastId + 1 \in MsgId /\ lastObj + 1 \in Nat \ {0}
  BY DEF Queue, TypeOK, ObjectsOK, MsgId
<1>2. fdUid[f] \in Client /\ inside[f] \in Nat
  BY DEF Queue, TypeOK, ClientOK, Client, Connected
<1>3. m \in Message
  BY <1>1, <1>2 DEF Message
<1>4. settings[fdUid[f]].priority \in Priority
  <2>1. settings[fdUid[f]].priority # 0 /\ settings[fdUid[f]].priority \in 0 .. SPD_PROGRESS
    BY <1>2 DEF Queue, ConnectedInv, TypeOK, ClientOK, Settings
  <2> QED BY <2>1 DEF Priority, SPD_IMPORTANT, SPD_PROGRESS
<1> QED BY <1>3, <1>4 DEF Queue

-----------------------------------------------------------------------------
(* Who owns an object: the five queues q, the paused list pl, the progress *)
(* messages l5 and the current message c, when n objects were allocated.   *)
Owner(q, pl, l5, c, n) ==
  /\ \A p \in Priority : NoRepeat(q[p])
  /\ NoRepeat(pl) /\ NoRepeat(l5)
  /\ \A p, r \in Priority : \A x \in Elements(q[p]), y \in Elements(q[r]) : x.obj = y.obj => p = r
  /\ \A p \in Priority : \A x \in Elements(q[p]) :
       /\ \A y \in Elements(pl) \cup Elements(l5) : x.obj # y.obj
       /\ x.obj <= n /\ x.obj # c.obj
  /\ \A x \in Elements(l5) : x.obj <= n /\ x.obj # c.obj /\ \A y \in Elements(pl) : x.obj # y.obj
  /\ \A x \in Elements(pl) : x.obj <= n /\ (x.obj = c.obj => x = c)
  /\ c.obj <= n
OwnerInv == Owner(queue, pausedList, lastP5, current, lastObj)

(* No list holds the object o, nor is it current.                          *)
Free(o, q, pl, l5, c) ==
  /\ \A p \in Priority : \A x \in Elements(q[p]) : x.obj # o
  /\ \A x \in Elements(pl) \cup Elements(l5) : x.obj # o
  /\ c.obj # o

(* Removals take an object from its owner and give it to no one; it may    *)
(* stop being the current one.                                             *)
LEMMA OwnerShrinks ==
  ASSUME NEW q, NEW pl, NEW l5, NEW c, NEW n \in Nat, Owner(q, pl, l5, c, n),
         NEW q2, NEW pl2, NEW l2, NEW c2, NEW n2 \in Nat,
         q \in [Priority -> Seq(Message)], pl \in Seq(Message), l5 \in Seq(Message),
         c \in Message \cup {NoMessage},
         \A p \in Priority : Shrinks(q2[p], q[p]), Shrinks(pl2, pl), Shrinks(l2, l5),
         c2 = c \/ c2 = NoMessage, n <= n2
  PROVE  Owner(q2, pl2, l2, c2, n2)
<1>1. \A x \in Message : x.obj \in Nat /\ x.obj # 0
  BY DEF Message
<1>2. NoMessage.obj = 0 /\ c.obj \in Nat
  BY <1>1 DEF NoMessage
<1>3. /\ \A p \in Priority : Elements(q[p]) \subseteq Message
      /\ Elements(pl) \subseteq Message /\ Elements(l5) \subseteq Message
  BY ElementsType
<1>4. /\ \A p \in Priority : NoRepeat(q2[p]) /\ Elements(q2[p]) \subseteq Elements(q[p])
      /\ NoRepeat(pl2) /\ Elements(pl2) \subseteq Elements(pl)
      /\ NoRepeat(l2) /\ Elements(l2) \subseteq Elements(l5)
  BY DEF Shrinks, Owner
<1>5. c2.obj = c.obj \/ c2.obj = 0
  BY <1>2
<1>6. \A p, r \in Priority : \A x \in Elements(q2[p]), y \in Elements(q2[r]) : x.obj = y.obj => p = r
  BY <1>4 DEF Owner
<1>7. ASSUME NEW p \in Priority, NEW x \in Elements(q2[p])
      PROVE  /\ \A y \in Elements(pl2) \cup Elements(l2) : x.obj # y.obj
             /\ x.obj <= n2 /\ x.obj # c2.obj
  <2>1. x \in Elements(q[p]) /\ x \in Message
    BY <1>3, <1>4
  <2>2. x.obj <= n /\ x.obj # c.obj /\ \A y \in Elements(pl) \cup Elements(l5) : x.obj # y.obj
    BY <2>1 DEF Owner
  <2> QED BY <1>1, <1>4, <1>5, <2>1, <2>2
<1>8. ASSUME NEW x \in Elements(l2)
      PROVE  x.obj <= n2 /\ x.obj # c2.obj /\ \A y \in Elements(pl2) : x.obj # y.obj
  <2>1. x \in Elements(l5) /\ x \in Message
    BY <1>3, <1>4
  <2>2. x.obj <= n /\ x.obj # c.obj /\ \A y \in Elements(pl) : x.obj # y.obj
    BY <2>1 DEF Owner
  <2> QED BY <1>1, <1>4, <1>5, <2>1, <2>2
<1>9. ASSUME NEW x \in Elements(pl2)
      PROVE  x.obj <= n2 /\ (x.obj = c2.obj => x = c2)
  <2>1. x \in Elements(pl) /\ x \in Message
    BY <1>3, <1>4
  <2>2. x.obj <= n /\ (x.obj = c.obj => x = c)
    BY <2>1 DEF Owner
  <2>3. x.obj <= n2
    BY <1>1, <2>1, <2>2
  <2>4. x.obj = c2.obj => x = c2
    BY <1>1, <1>2, <2>1, <2>2
  <2> QED BY <2>3, <2>4
<1>10. c2.obj <= n2
  BY <1>2, <1>5 DEF Owner
<1> QED BY <1>4, <1>6, <1>7, <1>8, <1>9, <1>10 DEF Owner

(* A free object may be put into one of the queues.                        *)
LEMMA OwnerQueues ==
  ASSUME NEW q, NEW pl, NEW l5, NEW c, NEW n \in Nat, Owner(q, pl, l5, c, n),
         NEW m \in Message, Free(m.obj, q, pl, l5, c), NEW n2 \in Nat, n <= n2, m.obj <= n2,
         q \in [Priority -> Seq(Message)], pl \in Seq(Message), l5 \in Seq(Message),
         c \in Message \cup {NoMessage},
         NEW p \in Priority, NEW t, NoRepeat(t), Elements(t) = Elements(q[p]) \cup {m}
  PROVE  Owner([q EXCEPT ![p] = t], pl, l5, c, n2)
<1> DEFINE q2 == [q EXCEPT ![p] = t]
<1>0. /\ \A r \in Priority : Shrinks(q[r], q[r])
      /\ Shrinks(pl, pl) /\ Shrinks(l5, l5)
  BY RemovalsShrink
<1>1. Owner(q, pl, l5, c, n2)
  BY <1>0, OwnerShrinks
<1>2. \A r \in Priority : q2[r] = IF r = p THEN t ELSE q[r]
  OBVIOUS
<1> HIDE DEF q2
<1>3. \A r \in Priority : NoRepeat(q2[r])
  BY <1>1, <1>2 DEF Owner
<1>4. \A r \in Priority : \A x \in Elements(q2[r]) : x \in Elements(q[r]) \/ (r = p /\ x = m)
  BY <1>2
<1>5. \A r, r2 \in Priority : \A x \in Elements(q2[r]), y \in Elements(q2[r2]) :
        x.obj = y.obj => r = r2
  BY <1>1, <1>4 DEF Owner, Free
<1>6. \A r \in Priority : \A x \in Elements(q2[r]) :
        /\ \A y \in Elements(pl) \cup Elements(l5) : x.obj # y.obj
        /\ x.obj <= n2 /\ x.obj # c.obj
  BY <1>1, <1>4 DEF Owner, Free
<1> QED BY <1>1, <1>3, <1>5, <1>6 DEF Owner, q2

(* and a free object may be added to the progress messages.                *)
LEMMA OwnerPostpones ==
  ASSUME NEW q, NEW pl, NEW l5, NEW c, NEW n \in Nat, Owner(q, pl, l5, c, n),
         NEW m \in Message, Free(m.obj, q, pl, l5, c), NEW n2 \in Nat, n <= n2, m.obj <= n2,
         q \in [Priority -> Seq(Message)], pl \in Seq(Message), l5 \in Seq(Message),
         c \in Message \cup {NoMessage},
         NEW t, t = <<m>> \/ t = Append(l5, m)
  PROVE  Owner(q, pl, t, c, n2)
<1>0. /\ \A r \in Priority : Shrinks(q[r], q[r])
      /\ Shrinks(pl, pl) /\ Shrinks(l5, l5)
  BY RemovalsShrink
<1>1. Owner(q, pl, l5, c, n2)
  BY <1>0, OwnerShrinks
<1>2. NoRepeat(t)
  <2>1. NoRepeat(l5) /\ \A x \in Elements(l5) : x.obj # m.obj
    BY DEF Owner, Free
  <2>2. NoRepeat(Append(l5, m)) /\ NoRepeat(<<m>>)
    BY <2>1, NewObject
  <2> QED BY <2>2
<1>3. \A x \in Elements(t) : x \in Elements(l5) \/ x = m
  <2>1. Elements(<<m>>) = {m}
    BY DEF Elements
  <2>2. Elements(Append(l5, m)) = Elements(l5) \cup {m}
    BY ElementsType
  <2> QED BY <2>1, <2>2
<1> QED BY <1>1, <1>2, <1>3 DEF Owner, Free

(* resolve_priorities() only removes.                                      *)
LEMMA ResolvedShrinks ==
  ASSUME NEW q \in [Priority -> Seq(Message)], NEW p \in Priority, q[p] # <<>>
  PROVE  \A r \in Priority : Shrinks(Resolved(q, p)[r], q[r])
<1> TAKE r \in Priority
<1>1. Resolved(q, p)[r] = IF r \in Emptied(p) THEN <<>>
                          ELSE IF r \in Thinned(p) THEN Newest(q[r], r) ELSE q[r]
  BY DEF Resolved
<1>2. r \in Thinned(p) => r = p
  BY DEF Thinned
<1>3. Shrinks(q[r], q[r]) /\ Shrinks(<<>>, q[r])
  BY RemovalsShrink
<1>4. r = p => Shrinks(Newest(q[r], r), q[r])
  <2>1. q[p] \in Seq(Message)
    OBVIOUS
  <2>2. Shrinks(<<LastOf(q[p])>>, q[p]) /\ \A D : Shrinks(Without(q[p], D), q[p])
    BY <2>1, RemovalsShrink
  <2> QED BY <2>2 DEF Newest
<1> QED BY <1>1, <1>2, <1>3, <1>4

(* queue_message() gives the message, and its copy, one owner each.        *)
LEMMA EnqueueOwner ==
  ASSUME TypeOK, NEW m \in Message, NEW p \in Priority, NEW obj \in {lastObj + 1, lastObj + 2},
         Enqueue(m, p, obj), NEW pl \in Seq(Message), NEW c \in Message \cup {NoMessage},
         Owner(queue, pl, lastP5, c, lastObj), Free(m.obj, queue, pl, lastP5, c), m.obj < obj
  PROVE  Owner(queue', pl, lastP5', c, lastObj')
<1> DEFINE q == [queue EXCEPT ![p] = Append(@, m)]
           d == Copy(m, obj)
<1>1. /\ queue \in [Priority -> Seq(Message)] /\ lastP5 \in Seq(Message) /\ lastObj \in Nat
      /\ m.obj \in Nat
  BY DEF TypeOK, ListsOK, ObjectsOK, Message
<1>2. queue[p] \in Seq(Message)
  BY <1>1
<1>3. /\ Elements(Append(queue[p], m)) = Elements(queue[p]) \cup {m}
      /\ NoRepeat(Append(queue[p], m))
  BY <1>2, ElementsType, NewObject DEF Owner, Free
<1>4. q = [queue EXCEPT ![p] = Append(queue[p], m)]
  BY <1>1
<1>5. obj - 1 \in Nat /\ lastObj <= obj - 1 /\ m.obj <= obj - 1
  BY <1>1
<1>6. Owner(q, pl, lastP5, c, obj - 1)
  BY <1>1, <1>3, <1>4, <1>5, OwnerQueues
<1>7. q \in [Priority -> Seq(Message)] /\ q[p] # <<>>
  <2>1. ASSUME NEW s \in Seq(Message)
        PROVE  Append(s, m) \in Seq(Message) /\ Append(s, m) # <<>>
    OBVIOUS
  <2> QED BY <1>1, <2>1
<1>8. queue' = Resolved(q, p)
  BY DEF Enqueue
<1> HIDE DEF q
<1>9. Shrinks(pl, pl) /\ Shrinks(lastP5, lastP5)
  BY <1>1, RemovalsShrink
<1>10. Owner(queue', pl, lastP5, c, obj - 1)
  <2>1. \A r \in Priority : Shrinks(queue'[r], q[r])
    BY <1>7, <1>8, ResolvedShrinks
  <2> DEFINE k == obj - 1
  <2>2. k \in Nat /\ k <= k /\ Owner(q, pl, lastP5, c, k)
    BY <1>5, <1>6
  <2>3. q \in [Priority -> Seq(Message)] /\ lastP5 \in Seq(Message)
    BY <1>1, <1>7
  <2> HIDE DEF k
  <2>4. Owner(queue', pl, lastP5, c, k)
    BY <1>9, <2>1, <2>2, <2>3, OwnerShrinks
  <2> QED BY <2>4 DEF k
<1>11. CASE p # SPD_PROGRESS
  BY <1>10, <1>11 DEF Enqueue
<1>12. CASE p = SPD_PROGRESS
  <2>1. lastP5' \in {<<d>>, Append(lastP5, d)} /\ lastObj' = obj
    BY <1>12 DEF Enqueue
  <2>2. d \in Message /\ d.obj = obj /\ obj \in Nat /\ obj - 1 <= obj
    <3>1. obj \in Nat \ {0} /\ obj - 1 <= obj
      BY <1>1
    <3> QED BY <3>1, CopyType DEF Copy, Message
  <2>3. queue' \in [Priority -> Seq(Message)]
    BY <1>7, <1>8, ResolvedType
  <2>4. \A x \in Message : x.obj \in Nat
    BY DEF Message
  <2>5. Free(obj, queue', pl, lastP5, c)
    <3>1. \A r \in Priority : Elements(queue'[r]) \subseteq Message
      BY <2>3, ElementsType
    <3>2. Elements(pl) \subseteq Message /\ Elements(lastP5) \subseteq Message
      BY <1>1, ElementsType
    <3>3. c.obj \in Nat
      BY <2>4 DEF NoMessage
    <3>4. \A k \in Nat : k <= obj - 1 => k # obj
      BY <2>2
    <3>5. \A r \in Priority : \A x \in Elements(queue'[r]) : x.obj # obj
      BY <1>10, <2>4, <3>1, <3>4 DEF Owner
    <3>6. \A x \in Elements(pl) \cup Elements(lastP5) : x.obj # obj
      BY <1>10, <2>4, <3>2, <3>4 DEF Owner
    <3>7. c.obj # obj
      BY <1>10, <3>3, <3>4 DEF Owner
    <3> QED BY <3>5, <3>6, <3>7 DEF Free
  <2>6. Owner(queue', pl, lastP5', c, obj)
    <3>1. lastP5' = <<d>> \/ lastP5' = Append(lastP5, d)
      BY <2>1
    <3>2. obj - 1 \in Nat /\ d.obj <= obj
      BY <1>5, <2>2
    <3> HIDE DEF d
    <3> QED BY <1>1, <1>10, <2>2, <2>3, <2>5, <3>1, <3>2, OwnerPostpones
  <2> QED BY <2>1, <2>6
<1> QED BY <1>11, <1>12

(* A free object may become the current message of a thread that has none. *)
LEMMA OwnerTakes ==
  ASSUME NEW q, NEW pl, NEW l5, NEW n, Owner(q, pl, l5, NoMessage, n), NEW m,
         Free(m.obj, q, pl, l5, NoMessage), m.obj <= n
  PROVE  Owner(q, pl, l5, m, n)
BY DEF Owner, Free

(* Objects without a repetition stand for their messages.                  *)
LEMMA ObjectsDiffer ==
  ASSUME NEW s, NoRepeat(s)
  PROVE  \A x, y \in Elements(s) : x.obj = y.obj => x = y
BY DEF NoRepeat, Elements

(* The head of a list is not in its tail.                                  *)
LEMMA HeadLeaves ==
  ASSUME NEW S, NEW s \in Seq(S), s # <<>>, NoRepeat(s)
  PROVE  \A x \in Elements(Tail(s)) : x.obj # Head(s).obj
<1>1. /\ DOMAIN s = 1 .. Len(s) /\ Len(s) \in Nat /\ DOMAIN Tail(s) = 1 .. Len(s) - 1
      /\ \A i \in 1 .. Len(s) - 1 : Tail(s)[i] = s[i + 1]
      /\ Head(s) = s[1] /\ 1 \in DOMAIN s
  OBVIOUS
<1>2. ASSUME NEW i \in DOMAIN Tail(s), Tail(s)[i].obj = Head(s).obj PROVE FALSE
  <2>1. i + 1 \in DOMAIN s /\ s[i + 1].obj = s[1].obj
    BY <1>1, <1>2
  <2>2. i + 1 = 1 /\ i \in 1 .. Len(s) - 1
    BY <1>1, <1>2, <2>1 DEF NoRepeat
  <2> QED BY <1>1, <2>2
<1> QED BY <1>2 DEF Elements

(* Nothing follows the only element of a list.                             *)
LEMMA SingleTail ==
  ASSUME NEW S, NEW s \in Seq(S), Len(s) = 1
  PROVE  Tail(s) = <<>>
<1>1. Tail(s) \in Seq(S) /\ Len(Tail(s)) = 0
  OBVIOUS
<1>2. \A t \in Seq(S) : Len(t) = 0 => t = <<>>
  OBVIOUS
<1> QED BY <1>1, <1>2

(* The steps that write a list or current_message.                         *)
ListSteps ==
  \/ \E f \in Fds : Queue(f)
  \/ \E u \in 1 .. maxUid : Stop(u) \/ Cancel(u)
  \/ StopAll \/ CancelAllQueues \/ HandlePaused \/ HandlePause \/ ResumeOne
  \/ TransferOne \/ TransferLast \/ TakeFails \/ TakeSpeak
owners == <<queue, pausedList, lastP5, current, lastObj>>

(* The others leave them alone.                                            *)
LEMMA OtherSteps ==
  ASSUME [Next]_vars, ~ListSteps
  PROVE  UNCHANGED owners
<1> USE DEF owners, lists, objects, speaking
<1>1. ASSUME NEW f \in Fds,
             Connect(f) \/ Disconnect(f) \/ BlockBegin(f) \/ BlockEnd(f)
               \/ \E p \in Prios : SetPriority(f, p)
      PROVE  UNCHANGED owners
  BY <1>1 DEF Connect, Disconnect, BlockBegin, BlockEnd, SetPriority
<1>2. CASE \/ \E u \in 1 .. maxUid : Pause(u) \/ Resume("resume", {u})
           \/ CancelAll \/ PauseAll \/ Resume("resumeAll", UpToMaxFd)
           \/ PausePost \/ ResumeClient \/ ResumePost
  BY <1>2 DEF Pause, Resume, CancelAll, PauseAll, PausePost, ResumeClient, ResumePost
<1>3. CASE PollWake \/ ClearPause \/ CheckSpeaking \/ ResumeEnd \/ ResumeClear \/ TakeNothing
  BY <1>3 DEF PollWake, ClearPause, CheckSpeaking, ResumeEnd, ResumeClear, TakeNothing
<1>4. CASE HandleBegin \/ HandleMark \/ HandleDone \/ HandleBroken
  BY <1>4 DEF HandleBegin, HandleMark, HandleDone, HandleBroken, Handle
<1>5. CASE ModuleStep
  BY <1>5 DEF ModuleStep, EmitBegin, EmitMark, EmitTerminal, Emit
<1>6. CASE UNCHANGED vars
  BY <1>6 DEF vars
<1> QED BY <1>1, <1>2, <1>3, <1>4, <1>5, <1>6 DEF Next, MainStep, MainGoesOn, SpeakStep, ListSteps

(* What get_message_from_queues() takes has left its queue, and was in no  *)
(* other list.                                                             *)
LEMMA TakenLeaves ==
  ASSUME TypeOK, TakeNext
  PROVE  /\ First(Ready) \in Priority /\ Next1 \in Message
         /\ Next1 \in Elements(queue[First(Ready)])
         /\ \A p \in Priority : Shrinks(queue'[p], queue[p])
         /\ \A p \in Priority : Elements(queue'[p])
                = IF p = First(Ready) THEN Elements(queue[p]) \ {Next1} ELSE Elements(queue[p])
         /\ OwnerInv => Free(Next1.obj, queue', pausedList, lastP5, NoMessage) /\ Next1.obj <= lastObj
<1> DEFINE r == First(Ready)
<1>1. r \in Priority /\ Next1 \in Message /\ queue[r] \in Seq(Message) /\ r \in Ready
  <2>1. Ready \subseteq Priority /\ Priority \subseteq Nat /\ IsFiniteSet(Priority)
    <3>1. 1 \in Int /\ 5 \in Int
      OBVIOUS
    <3>2. IsFiniteSet(1 .. 5)
      BY <3>1, FS_Interval
    <3> QED BY <3>2 DEF Ready, Priority, SPD_IMPORTANT, SPD_PROGRESS
  <2>2. IsFiniteSet(Ready) /\ Ready # {} /\ Ready \subseteq Nat
    BY <2>1, FS_Subset DEF TakeNext
  <2>3. r \in Ready
    BY <2>2, FirstType
  <2> QED BY <2>1, <2>3, TakenType DEF TypeOK, ListsOK
<1>2. Next1 \in Elements(queue[r])
  <2>1. Speakable(queue[r]) # {}
    BY <1>1 DEF Ready
  <2>2. First(Speakable(queue[r])) \in DOMAIN queue[r]
    BY <1>1, <2>1, FirstSpeakable
  <2> QED BY <2>2 DEF Next1, Elements
<1>3. queue' = [queue EXCEPT ![r] = Without(queue[r], {Next1})] /\ queue \in [Priority -> Seq(Message)]
  BY DEF TakeNext, TypeOK, ListsOK
<1> HIDE DEF r
<1>4. \A p \in Priority : queue'[p] = IF p = r THEN Without(queue[r], {Next1}) ELSE queue[p]
  BY <1>3
<1>5. \A p \in Priority : Shrinks(queue'[p], queue[p])
  BY <1>1, <1>3, <1>4, RemovalsShrink
<1>6. Elements(Without(queue[r], {Next1})) = Elements(queue[r]) \ {Next1}
  BY <1>1, WithoutType
<1>7. \A p \in Priority : Elements(queue'[p])
         = IF p = r THEN Elements(queue[p]) \ {Next1} ELSE Elements(queue[p])
  BY <1>4, <1>6
<1>8. ASSUME OwnerInv
      PROVE  Free(Next1.obj, queue', pausedList, lastP5, NoMessage) /\ Next1.obj <= lastObj
  <2>1. \A x \in Elements(queue[r]) : x.obj = Next1.obj => x = Next1
    BY <1>1, <1>2, <1>8, ObjectsDiffer DEF OwnerInv, Owner
  <2>2. \A p \in Priority : \A x \in Elements(queue'[p]) : x.obj # Next1.obj
    <3> SUFFICES ASSUME NEW p \in Priority, NEW x \in Elements(queue'[p]), x.obj = Next1.obj
                 PROVE  FALSE
      OBVIOUS
    <3>1. x \in Elements(queue[p]) /\ p = r
      BY <1>1, <1>2, <1>7, <1>8 DEF OwnerInv, Owner
    <3> QED BY <1>7, <2>1, <3>1
  <2>3. NoMessage.obj # Next1.obj
    BY <1>1 DEF Message, NoMessage
  <2>4. \A x \in Elements(pausedList) \cup Elements(lastP5) : x.obj # Next1.obj
    BY <1>1, <1>2, <1>8 DEF OwnerInv, Owner
  <2> QED BY <1>1, <1>2, <1>8, <2>2, <2>3, <2>4 DEF Free, OwnerInv, Owner
<1> QED BY <1>1, <1>2, <1>5, <1>7, <1>8 DEF r

(* STOP and CANCEL only remove.                                            *)
LEMMA StopsShrink ==
  ASSUME TypeOK, NEW u
  PROVE  /\ \A p \in Priority : Shrinks(AfterStop(u)[p], queue[p])
         /\ \A D : \A p \in Priority : Shrinks([queue EXCEPT ![highest] = DropTrailing(@, D)][p], queue[p])
<1>1. queue \in [Priority -> Seq(Message)]
  BY DEF TypeOK, ListsOK
<1>2. \A p \in Priority : Shrinks(queue[p], queue[p])
  BY <1>1, RemovalsShrink
<1>3. ASSUME NEW D, NEW p \in Priority
      PROVE  Shrinks([queue EXCEPT ![highest] = DropTrailing(@, D)][p], queue[p])
  <2>1. [queue EXCEPT ![highest] = DropTrailing(@, D)][p]
          = IF p = highest THEN DropTrailing(queue[p], D) ELSE queue[p]
    BY <1>1
  <2>2. Shrinks(DropTrailing(queue[p], D), queue[p])
    BY <1>1, RemovalsShrink
  <2> QED BY <1>2, <2>1, <2>2
<1> QED BY <1>2, <1>3 DEF AfterStop

(* Two removals in a row are a removal.                                    *)
LEMMA ShrinksTwice ==
  ASSUME NEW r, NEW s, NEW t, Shrinks(r, s), Shrinks(s, t)
  PROVE  Shrinks(r, t)
BY DEF Shrinks

(* What speak() brings back from the paused list has one owner.            *)
LEMMA ResumeOwner ==
  ASSUME TypeOK, OwnerInv, ResumeOne
  PROVE  OwnerInv'
<1> DEFINE m == pausedList[First(Speakable(pausedList))]
           m0 == [m EXCEPT !.gid = 0]
<1>1. /\ queue \in [Priority -> Seq(Message)] /\ pausedList \in Seq(Message)
      /\ lastP5 \in Seq(Message) /\ current \in Message \cup {NoMessage} /\ lastObj \in Nat
  BY DEF TypeOK, ListsOK, SpeakingOK, ObjectsOK
<1>2. m \in Message /\ m \in Elements(pausedList)
  BY <1>1, FirstSpeakable DEF ResumeOne, Elements
<1>3. /\ pausedList' = Without(pausedList, {m}) /\ current' = CurrentAfter(m)
  BY DEF ResumeOne
<1>4. \/ UNCHANGED <<queue, lastP5, lastObj>>
      \/ HasSettings(m.uid) /\ Enqueue(m0, settings[m.uid].priority, lastObj + 1)
  <2>1. \/ UNCHANGED <<queue, lastP5, pausedWhile, marked, lastObj, sess, pipe, life, fault>>
        \/ UNCHANGED <<queue, lastP5, pausedWhile, marked, lastObj, sess, pipe, life>>
        \/ HasSettings(m.uid) /\ Enqueue(m0, settings[m.uid].priority, lastObj + 1)
    BY DEF ResumeOne
  <2> QED BY <2>1
<1>5. m0 \in Message /\ m0.obj = m.obj
  BY <1>2 DEF Message
<1>6. HasSettings(m.uid) => settings[m.uid].priority \in Priority
  BY DEF HasSettings, TypeOK, ClientOK, Settings, Priority, SPD_IMPORTANT, SPD_PROGRESS
<1> HIDE DEF m, m0
<1>7. /\ Shrinks(pausedList', pausedList) /\ pausedList' \in Seq(Message)
      /\ Elements(pausedList') = Elements(pausedList) \ {m}
  BY <1>1, <1>3, RemovalsShrink, WithoutType
<1>8. /\ \A p \in Priority : Shrinks(queue[p], queue[p])
      /\ Shrinks(lastP5, lastP5)
  BY <1>1, RemovalsShrink
<1>9. Owner(queue, pausedList', lastP5, current', lastObj)
  <2>1. current' = current \/ current' = NoMessage
    BY <1>3 DEF CurrentAfter
  <2>2. Owner(queue, pausedList, lastP5, current, lastObj) /\ lastObj <= lastObj
    BY <1>1 DEF OwnerInv
  <2> QED BY <1>1, <1>7, <1>8, <2>1, <2>2, OwnerShrinks
<1>10. Free(m.obj, queue, pausedList', lastP5, current')
  <2>1. \A x \in Elements(pausedList') : x.obj # m.obj
    BY <1>2, <1>7, ObjectsDiffer DEF OwnerInv, Owner
  <2>2. current'.obj # m.obj
    BY <1>2, <1>3 DEF CurrentAfter, OwnerInv, Owner, Message, NoMessage
  <2> QED BY <1>2, <2>1, <2>2 DEF Free, OwnerInv, Owner
<1>11. m.obj < lastObj + 1
  BY <1>1, <1>2 DEF OwnerInv, Owner, Message
<1>12. CASE UNCHANGED <<queue, lastP5, lastObj>>
  BY <1>9, <1>12 DEF OwnerInv
<1>13. CASE HasSettings(m.uid) /\ Enqueue(m0, settings[m.uid].priority, lastObj + 1)
  <2>1. current' \in Message \cup {NoMessage}
    BY <1>1, <1>3 DEF CurrentAfter
  <2> QED BY <1>1, <1>5, <1>6, <1>7, <1>9, <1>10, <1>11, <1>13, <2>1, EnqueueOwner DEF OwnerInv
<1> QED BY <1>4, <1>12, <1>13

(* Every step leaves each object to one owner.                             *)
LEMMA OwnerStep ==
  ASSUME TypeOK, ConnectedInv, OwnerInv, SessionInv, [Next]_vars
  PROVE  OwnerInv'
<1>0. /\ queue \in [Priority -> Seq(Message)] /\ pausedList \in Seq(Message)
      /\ lastP5 \in Seq(Message) /\ current \in Message \cup {NoMessage} /\ lastObj \in Nat
  BY DEF TypeOK, ListsOK, SpeakingOK, ObjectsOK
<1>1. /\ \A p \in Priority : Shrinks(queue[p], queue[p]) /\ Shrinks(<<>>, queue[p])
      /\ Shrinks(lastP5, lastP5) /\ Shrinks(<<>>, lastP5) /\ Shrinks(pausedList, pausedList)
  BY <1>0, RemovalsShrink
<1>2. ASSUME \A p \in Priority : Shrinks(queue'[p], queue[p]),
             Shrinks(pausedList', pausedList), Shrinks(lastP5', lastP5),
             current' = current \/ current' = NoMessage, UNCHANGED lastObj
      PROVE  OwnerInv'
  BY <1>0, <1>2, OwnerShrinks DEF OwnerInv
<1>3. ASSUME NEW f \in Fds, Queue(f) PROVE OwnerInv'
  <2>1. PICK m \in Message : /\ m.obj = lastObj + 1 /\ settings[fdUid[f]].priority \in Priority
                             /\ Enqueue(m, settings[fdUid[f]].priority, lastObj + 2)
    BY <1>3, Queues
  <2>3. UNCHANGED <<pausedList, current>>
    BY <1>3 DEF Queue, speaking
  <2>4. Free(m.obj, queue, pausedList, lastP5, current)
    <3>1. \A x \in Message : x.obj \in Nat
      BY DEF Message
    <3>2. \A p \in Priority : Elements(queue[p]) \subseteq Message
      BY <1>0, ElementsType
    <3>3. Elements(pausedList) \subseteq Message /\ Elements(lastP5) \subseteq Message
      BY <1>0, ElementsType
    <3>4. current.obj \in Nat
      BY CurrentObject
    <3>5. \A k \in Nat : k <= lastObj => k # m.obj
      BY <1>0, <2>1
    <3>6. \A p \in Priority : \A x \in Elements(queue[p]) : x.obj # m.obj
      BY <3>1, <3>2, <3>5 DEF OwnerInv, Owner
    <3>7. \A x \in Elements(pausedList) \cup Elements(lastP5) : x.obj # m.obj
      BY <3>1, <3>3, <3>5 DEF OwnerInv, Owner
    <3>8. current.obj # m.obj
      BY <3>4, <3>5 DEF OwnerInv, Owner
    <3> QED BY <3>6, <3>7, <3>8 DEF Free
  <2>5. m.obj < lastObj + 2 /\ lastObj + 2 \in {lastObj + 1, lastObj + 2}
    BY <1>0, <2>1
  <2> QED BY <1>0, <2>1, <2>3, <2>4, <2>5, EnqueueOwner DEF OwnerInv
<1>4. ASSUME NEW u \in 1 .. maxUid, Stop(u) \/ Cancel(u) PROVE OwnerInv'
  <2>1. UNCHANGED <<pausedList, lastP5, current, lastObj>>
    BY <1>4 DEF Stop, Cancel, objects
  <2>2. AfterStop(u) \in [Priority -> Seq(Message)] /\ \A p \in Priority : Shrinks(AfterStop(u)[p], queue[p])
    BY AfterStopType, StopsShrink
  <2>3. \A p \in Priority : \A D : Shrinks(Without(AfterStop(u)[p], D), queue[p])
    BY <2>2, RemovalsShrink, ShrinksTwice
  <2>4. \A p \in Priority : Shrinks(queue'[p], queue[p])
    BY <1>4, <2>2, <2>3 DEF Stop, Cancel
  <2> QED BY <1>1, <1>2, <2>1, <2>4
<1>5. CASE StopAll
  <2>1. UNCHANGED <<pausedList, lastP5, current, lastObj>>
    BY <1>5 DEF StopAll, objects, speaking
  <2>2. UNCHANGED queue \/ \E D : queue' = [queue EXCEPT ![highest] = DropTrailing(@, D)]
    BY <1>5 DEF StopAll
  <2> QED BY <1>1, <1>2, <2>1, <2>2, StopsShrink
<1>6. CASE CancelAllQueues \/ HandlePaused
  <2>1. /\ UNCHANGED <<pausedList, lastP5, lastObj>> /\ current' \in {current, NoMessage}
        /\ \A p \in Priority : queue'[p] \in {queue[p], <<>>}
    BY <1>6 DEF CancelAllQueues, HandlePaused, Handle, objects, speaking, lists
  <2> QED BY <1>1, <1>2, <2>1
<1>7. CASE HandlePause
  <2>1. UNCHANGED <<queue, lastP5, current, lastObj>>
    BY <1>7 DEF HandlePause, speaking
  <2>2. \/ pausedList' = pausedList
        \/ pausedList' = Append(pausedList, current) /\ current \in Message /\ current \notin Elements(pausedList)
    BY <1>0, <1>7 DEF HandlePause, PutAside
  <2>3. CASE pausedList' = Append(pausedList, current) /\ current \in Message /\ current \notin Elements(pausedList)
    <3>1. \A x \in Elements(pausedList) : x.obj # current.obj
      BY <2>3 DEF OwnerInv, Owner
    <3>2. NoRepeat(pausedList') /\ Elements(pausedList') = Elements(pausedList) \cup {current}
      BY <1>0, <2>3, <3>1, NewObject, ElementsType DEF OwnerInv, Owner
    <3> QED BY <2>1, <3>2 DEF OwnerInv, Owner
  <2> QED BY <1>1, <1>2, <2>1, <2>2, <2>3
<1>8. CASE ResumeOne
  BY <1>8, ResumeOwner
<1>9. CASE TransferOne \/ TransferLast
  <2> DEFINE m == Head(lastP5)
             t == InsertById(queue[SPD_MESSAGE], m)
             q == [queue EXCEPT ![SPD_MESSAGE] = t]
  <2>1. /\ lastP5 # <<>> /\ lastP5' = Tail(lastP5) /\ SPD_MESSAGE \in Priority
        /\ UNCHANGED <<pausedList, current, lastObj>>
    <3>1. Len(lastP5) = 1 => Tail(lastP5) = <<>>
      BY <1>0, SingleTail
    <3>2. lastP5 # <<>> /\ (lastP5' = Tail(lastP5) \/ (Len(lastP5) = 1 /\ lastP5' = <<>>))
      BY <1>9 DEF TransferOne, TransferLast, Transfer
    <3>3. UNCHANGED <<pausedList, current, lastObj>>
      BY <1>9 DEF TransferOne, TransferLast, objects, speaking
    <3>4. SPD_MESSAGE \in Priority
      BY DEF Priority, SPD_IMPORTANT, SPD_MESSAGE, SPD_PROGRESS
    <3> QED BY <3>1, <3>2, <3>3, <3>4
  <2>2. m \in Message /\ lastP5' \in Seq(Message) /\ Shrinks(lastP5', lastP5) /\ m \in Elements(lastP5)
    <3>1. /\ Head(lastP5) \in Message /\ Tail(lastP5) \in Seq(Message)
          /\ Elements(lastP5) = {Head(lastP5)} \cup Elements(Tail(lastP5))
      BY <1>0, <2>1, ElementsType
    <3>2. Shrinks(Tail(lastP5), lastP5)
      BY <1>0, <2>1, RemovalsShrink
    <3> QED BY <2>1, <3>1, <3>2
  <2>3. Owner(queue, pausedList, lastP5', current, lastObj)
    BY <1>0, <1>1, <2>2, OwnerShrinks DEF OwnerInv
  <2>4. Free(m.obj, queue, pausedList, lastP5', current) /\ m.obj <= lastObj
    <3>1. \A x \in Elements(lastP5') : x.obj # m.obj
      BY <1>0, <2>1, HeadLeaves DEF OwnerInv, Owner
    <3> QED BY <2>2, <3>1 DEF Free, OwnerInv, Owner
  <2>5. queue[SPD_MESSAGE] \in Seq(Message)
    BY <1>0, <2>1
  <2>6. NoRepeat(t) /\ Elements(t) = Elements(queue[SPD_MESSAGE]) \cup {m} /\ t \in Seq(Message)
    <3>1. NoRepeat(queue[SPD_MESSAGE]) /\ \A x \in Elements(queue[SPD_MESSAGE]) : x.obj # m.obj
      BY <2>1, <2>4 DEF Free, OwnerInv, Owner
    <3> HIDE DEF m
    <3>2. NoRepeat(t)
      BY <2>2, <2>5, <3>1, NewObject
    <3>3. Elements(t) = Elements(queue[SPD_MESSAGE]) \cup {m} /\ t \in Seq(Message)
      BY <2>2, <2>5, InsertByIdType
    <3> QED BY <3>2, <3>3
  <2> HIDE DEF m, t
  <2>7. Owner(q, pausedList, lastP5', current, lastObj)
    <3>1. lastObj <= lastObj
      BY <1>0
    <3> QED BY <1>0, <2>1, <2>2, <2>3, <2>4, <2>6, <3>1, OwnerQueues
  <2>8. q \in [Priority -> Seq(Message)]
    BY <1>0, <2>6
  <2>9. \A p \in Priority : Shrinks(queue'[p], q[p])
    <3>1. CASE TransferOne
      <4>1. queue' = q
        BY <3>1 DEF TransferOne, m, t
      <4> QED BY <2>8, <4>1, RemovalsShrink
    <3>2. CASE TransferLast
      <4>1. Len(lastP5) = 1 /\ LastOf(lastP5) = m
        BY <1>0, <3>2 DEF TransferLast, LastOf, m
      <4>2. PICK D : queue' = [queue EXCEPT ![SPD_MESSAGE] = t, ![SPD_TEXT] = Without(@, D),
                                            ![SPD_NOTIFICATION] = <<>>]
        BY <3>2, <4>1 DEF TransferLast, t
      <4>3. \A p \in Priority : queue'[p] = IF p = SPD_MESSAGE THEN t
                                           ELSE IF p = SPD_TEXT THEN Without(queue[p], D)
                                           ELSE IF p = SPD_NOTIFICATION THEN <<>> ELSE queue[p]
        BY <1>0, <4>2 DEF SPD_MESSAGE, SPD_TEXT, SPD_NOTIFICATION
      <4>4. \A p \in Priority : q[p] = IF p = SPD_MESSAGE THEN t ELSE queue[p]
        BY <1>0
      <4> HIDE DEF q
      <4>5. \A p \in Priority : queue'[p] = q[p] \/ queue'[p] = <<>> \/ queue'[p] = Without(q[p], D)
        BY <4>3, <4>4 DEF SPD_MESSAGE, SPD_TEXT
      <4> QED BY <2>8, <4>5, RemovalsShrink
    <3> QED BY <1>9, <3>1, <3>2
  <2> HIDE DEF q
  <2>10. Shrinks(pausedList', pausedList) /\ Shrinks(lastP5', lastP5') /\ lastObj <= lastObj
    <3>1. Shrinks(lastP5', lastP5')
      BY <2>2, RemovalsShrink
    <3>2. lastObj <= lastObj
      BY <1>0
    <3> QED BY <1>1, <2>1, <3>1, <3>2
  <2> QED BY <1>0, <2>1, <2>2, <2>7, <2>8, <2>9, <2>10, OwnerShrinks DEF OwnerInv
<1>10. CASE TakeFails
  <2>1. UNCHANGED <<pausedList, lastP5, current, lastObj>>
    BY <1>10 DEF TakeFails, objects
  <2>2. \A p \in Priority : Shrinks(queue'[p], queue[p])
    BY <1>10, TakenLeaves DEF TakeFails
  <2> QED BY <1>1, <1>2, <2>1, <2>2
<1>11. CASE TakeSpeak
  <2>1. TakeNext
    BY <1>11 DEF TakeSpeak
  <2>2. /\ \A p \in Priority : Shrinks(queue'[p], queue[p])
        /\ Free(Next1.obj, queue', pausedList, lastP5, NoMessage) /\ Next1.obj <= lastObj
    BY <2>1, TakenLeaves
  <2>3. /\ UNCHANGED <<pausedList, lastObj>> /\ current' = Next1
        /\ lastP5' = lastP5 \/ lastP5' = <<>>
    BY <1>11 DEF TakeSpeak, objects
  <2>4. Owner(queue', pausedList, lastP5', NoMessage, lastObj)
    <3>1. Shrinks(lastP5', lastP5) /\ lastObj <= lastObj
      BY <1>0, <1>1, <2>3
    <3> QED BY <1>0, <1>1, <2>2, <3>1, OwnerShrinks DEF OwnerInv
  <2>5. Free(Next1.obj, queue', pausedList, lastP5', NoMessage)
    BY <2>2, <2>3 DEF Free, Elements
  <2>6. Owner(queue', pausedList, lastP5', Next1, lastObj)
    BY <2>2, <2>4, <2>5, OwnerTakes
  <2> QED BY <2>3, <2>6 DEF OwnerInv
<1>12. CASE ~ListSteps
  <2>1. UNCHANGED owners
    BY <1>12, OtherSteps
  <2> QED BY <1>1, <1>2, <2>1 DEF owners
<1> QED BY <1>3, <1>4, <1>5, <1>6, <1>7, <1>8, <1>9, <1>10, <1>11, <1>12 DEF ListSteps

(* The server starts with empty lists and without clients.                 *)
LEMMA OwnerInit ==
  ASSUME Init
  PROVE  ConnectedInv /\ OwnerInv
<1>1. \A p \in Priority : queue[p] = <<>>
  BY DEF Init
<1>2. ConnectedInv
  BY DEF Init, ConnectedInv, Connected
<1>3. lastObj = 0 /\ current.obj = 0
  BY DEF Init, NoMessage
<1>4. pausedList = <<>> /\ lastP5 = <<>> /\ DOMAIN (<<>>) = {}
  BY DEF Init
<1>5. OwnerInv
  BY <1>1, <1>3, <1>4 DEF OwnerInv, Owner, NoRepeat, Elements
<1> QED BY <1>2, <1>5

(* The invariants that the other proofs about Speaking start from.         *)
BaseInv == TypeOK /\ SessionInv /\ ConnectedInv /\ OwnerInv

(* They hold at first and every step keeps them.                           *)
LEMMA BaseStep ==
  /\ Init => BaseInv
  /\ BaseInv /\ [Next]_vars => BaseInv'
<1>1. Init => BaseInv
  BY InitType, InitSession, OwnerInit DEF BaseInv
<1>2. BaseInv /\ [Next]_vars => BaseInv'
  BY TypeStep, SessionStep, ConnectedStep, OwnerStep DEF BaseInv
<1> QED BY <1>1, <1>2

(* So they hold in every behaviour of the specification.                   *)
LEMMA BaseInvariant == Spec => []BaseInv
  BY BaseStep, PTL DEF Spec

(* A list without repetitions has as many objects as places.               *)
LEMMA ObjectsCounted ==
  ASSUME NEW s \in Seq(Message), NoRepeat(s)
  PROVE  Cardinality({m.obj : m \in Elements(s)}) = Len(s)
<1> DEFINE f == [i \in 1 .. Len(s) |-> s[i].obj]
           T == {m.obj : m \in Elements(s)}
<1>1. DOMAIN s = 1 .. Len(s) /\ Len(s) \in Nat
  OBVIOUS
<1>2. f \in [1 .. Len(s) -> T]
  BY <1>1 DEF Elements
<1>3. f \in Injection(1 .. Len(s), T)
  BY <1>1, <1>2, Fun_IsInj DEF NoRepeat
<1>4. \A t \in T : \E i \in 1 .. Len(s) : f[i] = t
  BY <1>1 DEF Elements
<1>5. f \in Bijection(1 .. Len(s), T)
  BY <1>2, <1>3, <1>4, Fun_IsSurj DEF Bijection
<1>6. IsFiniteSet(1 .. Len(s)) /\ Cardinality(1 .. Len(s)) = Len(s)
  BY <1>1, FS_Interval
<1>7. ExistsBijection(1 .. Len(s), T)
  BY <1>5 DEF ExistsBijection
<1> HIDE DEF f, T
<1>8. Cardinality(T) = Cardinality(1 .. Len(s))
  BY <1>6, <1>7, FS_Bijection
<1> QED BY <1>6, <1>8 DEF T

(* Each message object is in one list only, once, and the message that was *)
(* taken last is in none but the paused list: speaking.c and server.c free *)
(* a message when it leaves its list, so nothing is freed twice.           *)
THEOREM SingleOwnerCorrect == Spec => []SingleOwner
<1>1. BaseInv => SingleOwner
  <2> SUFFICES ASSUME BaseInv PROVE SingleOwner
    OBVIOUS
  <2> DEFINE Objs(s) == {m.obj : m \in Elements(s)}
             all == [i \in 1 .. 7 |-> IF i = 6 THEN pausedList
                                      ELSE IF i = 7 THEN lastP5 ELSE queue[i]]
  <2>1. /\ queue \in [Priority -> Seq(Message)] /\ pausedList \in Seq(Message) /\ lastP5 \in Seq(Message)
        /\ OwnerInv
    BY DEF BaseInv, TypeOK, ListsOK
  <2>2. \A i \in 1 .. 7 : \/ i \in Priority /\ i # 6 /\ i # 7 /\ all[i] = queue[i]
                          \/ i = 6 /\ all[i] = pausedList
                          \/ i = 7 /\ all[i] = lastP5
    BY DEF Priority, SPD_IMPORTANT, SPD_PROGRESS
  <2> HIDE DEF all
  <2>3. ASSUME NEW i \in 1 .. 7, NEW j \in 1 .. 7, i # j,
               NEW x \in Elements(all[i]), NEW y \in Elements(all[j])
        PROVE  x.obj # y.obj
    <3>1. CASE i \in {6, 7} /\ j \in {6, 7}
      BY <2>1, <2>2, <2>3, <3>1 DEF OwnerInv, Owner
    <3>2. CASE i \in Priority /\ j \in {6, 7} /\ all[i] = queue[i]
      BY <2>1, <2>2, <2>3, <3>2 DEF OwnerInv, Owner
    <3>3. CASE i \in {6, 7} /\ j \in Priority /\ all[j] = queue[j]
      BY <2>1, <2>2, <2>3, <3>3 DEF OwnerInv, Owner
    <3>4. CASE i \in Priority /\ all[i] = queue[i] /\ j \in Priority /\ all[j] = queue[j]
      BY <2>1, <2>3, <3>4 DEF OwnerInv, Owner
    <3> QED BY <2>2, <3>1, <3>2, <3>3, <3>4
  <2>4. \A i, j \in 1 .. 7 : i # j => Objs(all[i]) \cap Objs(all[j]) = {}
    BY <2>3
  <2>5. \A i \in 1 .. 7 : Cardinality(Objs(all[i])) = Len(all[i])
    <3> TAKE i \in 1 .. 7
    <3>1. all[i] \in Seq(Message) /\ NoRepeat(all[i])
      BY <2>1, <2>2 DEF OwnerInv, Owner
    <3> QED BY <3>1, ObjectsCounted
  <2>6. \A i \in (1 .. 7) \ {6} : current.obj \notin Objs(all[i])
    BY <2>1, <2>2 DEF OwnerInv, Owner
  <2> QED BY <2>4, <2>5, <2>6 DEF SingleOwner, all
<1> QED BY <1>1, BaseInvariant, PTL
-----------------------------------------------------------------------------
(* A list that was appended to is not empty.                               *)
LEMMA AppendType ==
  ASSUME NEW S, NEW s \in Seq(S), NEW m \in S
  PROVE  Append(s, m) \in Seq(S) /\ Append(s, m) # <<>>
<1>1. Append(s, m) \in Seq(S) /\ Len(Append(s, m)) = Len(s) + 1 /\ Len(s) \in Nat
  OBVIOUS
<1>2. Len(<<>>) = 0
  OBVIOUS
<1> QED BY <1>1, <1>2

(* What the steps that add to a queue leave in the five queues.            *)
LEMMA EnqueueElements ==
  ASSUME TypeOK, NEW m \in Message, NEW p \in Priority, NEW obj, Enqueue(m, p, obj)
  PROVE  \A r \in Priority : /\ r # p => Elements(queue'[r]) \subseteq Elements(queue[r])
                             /\ r = p => Elements(queue'[r]) \subseteq Elements(queue[r]) \cup {m}
<1> DEFINE q == [queue EXCEPT ![p] = Append(@, m)]
<1>1. queue \in [Priority -> Seq(Message)]
  BY DEF TypeOK, ListsOK
<1>2. q \in [Priority -> Seq(Message)] /\ q[p] # <<>>
  BY <1>1, AppendType
<1>3. \A r \in Priority : q[r] = IF r = p THEN Append(queue[p], m) ELSE queue[r]
  BY <1>1
<1>4. queue' = Resolved(q, p)
  BY DEF Enqueue
<1> HIDE DEF q
<1>5. \A r \in Priority : Elements(queue'[r]) \subseteq Elements(q[r])
  BY <1>2, <1>4, ResolvedShrinks DEF Shrinks
<1>6. Elements(Append(queue[p], m)) = Elements(queue[p]) \cup {m}
  BY <1>1, ElementsType
<1> QED BY <1>3, <1>5, <1>6

(* speak() moves the first of the postponed progress messages, and the     *)
(* last one purges what an arriving message would.                         *)
LEMMA TransferElements ==
  ASSUME TypeOK, TransferOne \/ TransferLast
  PROVE  /\ lastP5 # <<>> /\ Head(lastP5) \in Message /\ lastP5' = Tail(lastP5)
         /\ Elements(lastP5) = {Head(lastP5)} \cup Elements(lastP5')
         /\ queue[SPD_PROGRESS] = <<>>
         /\ \A p \in Priority :
              /\ p # SPD_MESSAGE => Elements(queue'[p]) \subseteq Elements(queue[p])
              /\ p = SPD_MESSAGE => Elements(queue'[p]) = Elements(queue[p]) \cup {Head(lastP5)}
<1> DEFINE m == Head(lastP5)
           t == InsertById(queue[SPD_MESSAGE], m)
<1>1. queue \in [Priority -> Seq(Message)] /\ lastP5 \in Seq(Message) /\ SPD_MESSAGE \in Priority
  BY DEF TypeOK, ListsOK, Priority, SPD_IMPORTANT, SPD_MESSAGE, SPD_PROGRESS
<1>2. lastP5 # <<>> /\ (lastP5' = Tail(lastP5) \/ (Len(lastP5) = 1 /\ lastP5' = <<>>))
      /\ queue[SPD_PROGRESS] = <<>>
  BY DEF TransferOne, TransferLast, Transfer
<1>3. lastP5' = Tail(lastP5)
  BY <1>1, <1>2, SingleTail
<1>4. /\ Head(lastP5) \in Message
      /\ Elements(lastP5) = {Head(lastP5)} \cup Elements(lastP5')
  BY <1>1, <1>2, <1>3, ElementsType
<1>5. queue[SPD_MESSAGE] \in Seq(Message)
  BY <1>1
<1>6. Elements(t) = Elements(queue[SPD_MESSAGE]) \cup {m}
  BY <1>4, <1>5, InsertByIdType
<1>7. CASE TransferOne
  BY <1>1, <1>2, <1>3, <1>4, <1>6, <1>7 DEF TransferOne
<1>8. CASE TransferLast
  <2>1. Len(lastP5) = 1 /\ LastOf(lastP5) = m
    BY <1>1, <1>8 DEF TransferLast, LastOf
  <2>2. PICK D : queue' = [queue EXCEPT ![SPD_MESSAGE] = t, ![SPD_TEXT] = Without(@, D),
                                        ![SPD_NOTIFICATION] = <<>>]
    BY <1>8, <2>1 DEF TransferLast
  <2> HIDE DEF t
  <2>3. \A p \in Priority : queue'[p] = IF p = SPD_MESSAGE THEN t
                                       ELSE IF p = SPD_TEXT THEN Without(queue[p], D)
                                       ELSE IF p = SPD_NOTIFICATION THEN <<>> ELSE queue[p]
    BY <1>1, <2>2 DEF SPD_MESSAGE, SPD_TEXT, SPD_NOTIFICATION
  <2>4. \A p \in Priority : /\ Elements(Without(queue[p], D)) \subseteq Elements(queue[p])
                            /\ Elements(<<>>) \subseteq Elements(queue[p])
    BY <1>1, RemovalsShrink DEF Shrinks
  <2>5. ASSUME NEW p \in Priority, p # SPD_MESSAGE PROVE Elements(queue'[p]) \subseteq Elements(queue[p])
    BY <2>3, <2>4, <2>5
  <2> QED BY <1>2, <1>3, <1>4, <1>6, <2>3, <2>5
<1> QED BY <1>7, <1>8

(* All other steps only remove from the queues.                            *)
LEMMA QueuesShrink ==
  ASSUME TypeOK, [Next]_vars, ~(\E f \in Fds : Queue(f)), ~ResumeOne, ~TransferOne, ~TransferLast
  PROVE  \A p \in Priority : Elements(queue'[p]) \subseteq Elements(queue[p])
<1>0. queue \in [Priority -> Seq(Message)]
  BY DEF TypeOK, ListsOK
<1>1. ASSUME NEW u \in 1 .. maxUid, Stop(u) \/ Cancel(u)
      PROVE  \A p \in Priority : Elements(queue'[p]) \subseteq Elements(queue[p])
  <2>2. AfterStop(u) \in [Priority -> Seq(Message)] /\ \A p \in Priority : Shrinks(AfterStop(u)[p], queue[p])
    BY AfterStopType, StopsShrink
  <2>3. \A p \in Priority : \A D : Shrinks(Without(AfterStop(u)[p], D), queue[p])
    BY <2>2, RemovalsShrink, ShrinksTwice
  <2>4. \A p \in Priority : Shrinks(queue'[p], queue[p])
    BY <1>1, <2>2, <2>3 DEF Stop, Cancel
  <2> QED BY <2>4 DEF Shrinks
<1>2. CASE StopAll
  <2>1. UNCHANGED queue \/ \E D : queue' = [queue EXCEPT ![highest] = DropTrailing(@, D)]
    BY <1>2 DEF StopAll
  <2> QED BY <2>1, StopsShrink DEF Shrinks
<1>3. CASE CancelAllQueues \/ HandlePaused \/ HandlePause
  <2>1. \A p \in Priority : queue'[p] \in {queue[p], <<>>}
    BY <1>3 DEF CancelAllQueues, HandlePaused, HandlePause, Handle, lists
  <2> QED BY <1>0, <2>1, RemovalsShrink DEF Shrinks
<1>4. CASE TakeFails \/ TakeSpeak
  BY <1>4, TakenLeaves DEF TakeFails, TakeSpeak
<1>5. CASE ~ListSteps
  BY <1>5, OtherSteps DEF owners
<1> QED BY <1>1, <1>2, <1>3, <1>4, <1>5 DEF ListSteps

(* A message that speak() brings back is the client's, in no block.        *)
LEMMA ResumeElements ==
  ASSUME TypeOK, ResumeOne
  PROVE  \E m \in Message :
           /\ m \in Elements(pausedList) /\ [m EXCEPT !.gid = 0] \in Message
           /\ pausedList' = Without(pausedList, {m}) /\ current' = CurrentAfter(m)
           /\ Elements(pausedList') = Elements(pausedList) \ {m}
           /\ \/ /\ HasSettings(m.uid) /\ settings[m.uid].priority \in Priority
                 /\ Enqueue([m EXCEPT !.gid = 0], settings[m.uid].priority, lastObj + 1)
                 /\ UNCHANGED fault
              \/ /\ MayFail
                 /\ UNCHANGED <<queue, lastP5, pausedWhile, marked, lastObj, sess, pipe, life, fault>>
              \/ /\ fault' # "none"
                 /\ UNCHANGED <<queue, lastP5, pausedWhile, marked, lastObj, sess, pipe, life>>
<1> DEFINE m == pausedList[First(Speakable(pausedList))]
<1>1. m \in Message /\ m \in Elements(pausedList)
  BY FirstSpeakable DEF ResumeOne, Elements, TypeOK, ListsOK
<1>2. [m EXCEPT !.gid = 0] \in Message
  BY <1>1 DEF Message
<1>3. /\ pausedList' = Without(pausedList, {m}) /\ current' = CurrentAfter(m)
  BY DEF ResumeOne
<1>4. Elements(pausedList') = Elements(pausedList) \ {m}
  BY <1>3, WithoutType DEF TypeOK, ListsOK
<1>5. HasSettings(m.uid) => settings[m.uid].priority \in Priority
  BY DEF HasSettings, TypeOK, ClientOK, Settings, Priority, SPD_IMPORTANT, SPD_PROGRESS
<1>6. \/ /\ HasSettings(m.uid)
         /\ Enqueue([m EXCEPT !.gid = 0], settings[m.uid].priority, lastObj + 1)
         /\ UNCHANGED fault
      \/ /\ MayFail
         /\ UNCHANGED <<queue, lastP5, pausedWhile, marked, lastObj, sess, pipe, life, fault>>
      \/ /\ fault' # "none"
         /\ UNCHANGED <<queue, lastP5, pausedWhile, marked, lastObj, sess, pipe, life>>
  BY DEF ResumeOne
<1> HIDE DEF m
<1> QED BY <1>1, <1>2, <1>3, <1>4, <1>5, <1>6
-----------------------------------------------------------------------------
(* The queue of the new message, when it is one of text or notification,   *)
(* holds that message or its block afterwards.                             *)
LEMMA EnqueueThins ==
  ASSUME TypeOK, NEW m \in Message, NEW p \in {SPD_TEXT, SPD_NOTIFICATION}, NEW obj, Enqueue(m, p, obj)
  PROVE  \A x, y \in Elements(queue'[p]) : x # y => x.gid = y.gid /\ x.gid # 0
<1> DEFINE q == [queue EXCEPT ![p] = Append(@, m)]
<1>1. queue \in [Priority -> Seq(Message)] /\ p \in Priority
  BY DEF TypeOK, ListsOK, Priority, SPD_IMPORTANT, SPD_TEXT, SPD_NOTIFICATION, SPD_PROGRESS
<1>2. q[p] \in Seq(Message) /\ q[p] # <<>>
  BY <1>1, AppendType
<1>3. queue'[p] = <<>> \/ queue'[p] = Newest(q[p], p)
  BY <1>1 DEF Enqueue, Resolved, Thinned
<1> HIDE DEF q
<1>4. CASE queue'[p] = <<>>
  BY <1>4 DEF Elements
<1>5. CASE queue'[p] = <<LastOf(q[p])>>
  BY <1>5 DEF Elements
<1>6. CASE /\ KeepsBlock(q[p], p)
           /\ queue'[p] = Without(q[p], {x \in Elements(q[p]) : x.gid # LastOf(q[p]).gid})
  <2>1. \A x \in Elements(queue'[p]) : x.gid = LastOf(q[p]).gid
    BY <1>2, <1>6, WithoutType
  <2>2. LastOf(q[p]).gid # 0
    BY <1>6 DEF KeepsBlock
  <2> QED BY <2>1, <2>2
<1> QED BY <1>3, <1>4, <1>5, <1>6 DEF Newest

(* The text and the notification queue hold one message, or messages of    *)
(* one block, whatever is queued, resumed, stopped, cancelled and taken.   *)
THEOREM OneBlockCorrect == Spec => []OneBlockPerQueue
<1> DEFINE Inv == BaseInv /\ OneBlockPerQueue
<1>1. Init => OneBlockPerQueue
  BY DEF Init, OneBlockPerQueue, Elements, Priority, SPD_IMPORTANT, SPD_TEXT, SPD_NOTIFICATION, SPD_PROGRESS
<1>2. Inv /\ [Next]_vars => OneBlockPerQueue'
  <2> SUFFICES ASSUME BaseInv, OneBlockPerQueue, [Next]_vars PROVE OneBlockPerQueue'
    OBVIOUS
  <2> USE DEF BaseInv
  <2>1. SPD_TEXT \in Priority /\ SPD_NOTIFICATION \in Priority
        /\ SPD_MESSAGE # SPD_TEXT /\ SPD_MESSAGE # SPD_NOTIFICATION
    BY DEF Priority, SPD_IMPORTANT, SPD_MESSAGE, SPD_TEXT, SPD_NOTIFICATION, SPD_PROGRESS
  <2>2. ASSUME NEW p \in {SPD_TEXT, SPD_NOTIFICATION}, Elements(queue'[p]) \subseteq Elements(queue[p])
        PROVE  \A x, y \in Elements(queue'[p]) : x # y => x.gid = y.gid /\ x.gid # 0
    BY <2>2 DEF OneBlockPerQueue
  <2>3. ASSUME NEW m \in Message, NEW r \in Priority, NEW obj, Enqueue(m, r, obj)
        PROVE  OneBlockPerQueue'
    <3> SUFFICES ASSUME NEW p \in {SPD_TEXT, SPD_NOTIFICATION}
                 PROVE  \A x, y \in Elements(queue'[p]) : x # y => x.gid = y.gid /\ x.gid # 0
      BY DEF OneBlockPerQueue
    <3>1. CASE p = r
      BY <2>3, <3>1, EnqueueThins
    <3>2. CASE p # r
      BY <2>1, <2>2, <2>3, <3>2, EnqueueElements
    <3> QED BY <3>1, <3>2
  <2>4. CASE \E f \in Fds : Queue(f)
    BY <2>3, <2>4, Queues
  <2>5. CASE ResumeOne
    <3>1. UNCHANGED queue \/ \E m \in Message, r \in Priority : Enqueue(m, r, lastObj + 1)
      BY <2>5, ResumeElements
    <3> QED BY <2>3, <3>1 DEF OneBlockPerQueue
  <2>6. CASE TransferOne \/ TransferLast
    BY <2>1, <2>2, <2>6, TransferElements DEF OneBlockPerQueue
  <2>7. CASE ~(\E f \in Fds : Queue(f)) /\ ~ResumeOne /\ ~TransferOne /\ ~TransferLast
    BY <2>1, <2>2, <2>7, QueuesShrink DEF OneBlockPerQueue
  <2> QED BY <2>4, <2>5, <2>6, <2>7
<1> QED BY <1>1, <1>2, BaseInvariant, PTL DEF Spec

-----------------------------------------------------------------------------
(* What becomes of the messages.                                           *)


(* The messages that the server holds.                                     *)
Known == {x \in Message : \/ \E p \in Priority : x \in Elements(queue[p])
                          \/ x \in Elements(lastP5) \cup Elements(pausedList)
                          \/ x = current}

(* x is y, or a copy of y, or y brought back without its block.            *)
Same(x, y) == x.id = y.id /\ x.uid = y.uid /\ x.fd = y.fd /\ x.gid \in {y.gid, 0}

(* What queue_message() and reload_message() leave in last_p5_block.       *)
LEMMA EnqueuePostpones ==
  ASSUME TypeOK, NEW m \in Message, NEW p \in Priority, NEW obj \in Nat \ {0}, Enqueue(m, p, obj)
  PROVE  /\ Copy(m, obj) \in Message
         /\ Elements(lastP5') \subseteq Elements(lastP5) \cup {Copy(m, obj)}
         /\ \A y \in Message : Same(m, y) => Same(Copy(m, obj), y)
<1> DEFINE c == Copy(m, obj)
<1>1. c \in Message
  BY CopyType
<1>2. lastP5' \in {lastP5, <<c>>, Append(lastP5, c)}
  BY DEF Enqueue
<1>3. Elements(<<c>>) = {c}
  BY DEF Elements
<1>4. Elements(Append(lastP5, c)) = Elements(lastP5) \cup {c}
  BY ElementsType DEF TypeOK, ListsOK
<1>5. \A y \in Message : Same(m, y) => Same(c, y)
  BY DEF Same, Copy, Message
<1> QED BY <1>1, <1>2, <1>3, <1>4, <1>5

(* A message that the server holds after a step is one that it held, or    *)
(* the one that queue_message() made.                                      *)
LEMMA Origin ==
  ASSUME TypeOK, ConnectedInv, [Next]_vars, NEW x \in Known'
  PROVE  \/ \E y \in Known : Same(x, y)
         \/ \E f \in Fds : /\ Queue(f) /\ x.id = lastId + 1 /\ x.uid = fdUid[f]
                           /\ x.fd = f /\ x.gid = inside[f]
<1>1. /\ queue \in [Priority -> Seq(Message)] /\ pausedList \in Seq(Message)
      /\ lastP5 \in Seq(Message) /\ lastObj \in Nat
  BY DEF TypeOK, ListsOK, ObjectsOK
<1>2. /\ \A p \in Priority : Elements(queue[p]) \subseteq Known
      /\ Elements(lastP5) \subseteq Known /\ Elements(pausedList) \subseteq Known
      /\ current \in Message => current \in Known
  <2>1. /\ \A p \in Priority : Elements(queue[p]) \subseteq Message
        /\ Elements(lastP5) \subseteq Message /\ Elements(pausedList) \subseteq Message
    BY <1>1, ElementsType
  <2> QED BY <2>1 DEF Known
<1>3. /\ x \in Message
      /\ \/ \E p \in Priority : x \in Elements(queue'[p])
         \/ x \in Elements(lastP5') \/ x \in Elements(pausedList')
         \/ x = current'
  BY DEF Known
<1>4. \A y \in Message : Same(y, y)
  BY DEF Same
<1>5. ASSUME x \in Known PROVE \E y \in Known : Same(x, y)
  BY <1>3, <1>4, <1>5
<1>6. ASSUME \A p \in Priority : Elements(queue'[p]) \subseteq Known,
             Elements(lastP5') \subseteq Known, Elements(pausedList') \subseteq Known,
             current' \in Message => current' \in Known
      PROVE  x \in Known
  BY <1>3, <1>6
<1>7. ASSUME NEW f \in Fds, Queue(f) PROVE (\E y \in Known : Same(x, y)) \/ (
           x.id = lastId + 1 /\ x.uid = fdUid[f] /\ x.fd = f /\ x.gid = inside[f])
  <2>1. PICK m \in Message :
          /\ m = [id |-> lastId + 1, obj |-> lastObj + 1, uid |-> fdUid[f],
                  fd |-> f, gid |-> inside[f]]
          /\ settings[fdUid[f]].priority \in Priority
          /\ Enqueue(m, settings[fdUid[f]].priority, lastObj + 2)
    BY <1>7, Queues
  <2>2. pausedList' = pausedList /\ current' = current
    BY <1>7 DEF Queue, speaking
  <2>3. lastObj + 2 \in Nat \ {0}
    BY <1>1
  <2>4. /\ \A p \in Priority : Elements(queue'[p]) \subseteq Elements(queue[p]) \cup {m}
        /\ Elements(lastP5') \subseteq Elements(lastP5) \cup {Copy(m, lastObj + 2)}
    <3> DEFINE r == settings[fdUid[f]].priority
    <3>1. m \in Message /\ r \in Priority /\ Enqueue(m, r, lastObj + 2)
      BY <2>1
    <3> HIDE DEF r
    <3>2. \A p \in Priority : Elements(queue'[p]) \subseteq Elements(queue[p]) \cup {m}
      BY <3>1, EnqueueElements
    <3>3. Elements(lastP5') \subseteq Elements(lastP5) \cup {Copy(m, lastObj + 2)}
      BY <2>3, <3>1, EnqueuePostpones
    <3> QED BY <3>2, <3>3
  <2>5. x \in Known \/ x = m \/ x = Copy(m, lastObj + 2)
    BY <1>2, <1>3, <2>2, <2>4
  <2>6. Copy(m, lastObj + 2).id = m.id /\ Copy(m, lastObj + 2).uid = m.uid
        /\ Copy(m, lastObj + 2).fd = m.fd /\ Copy(m, lastObj + 2).gid = m.gid
    BY DEF Copy, Message
  <2> QED BY <1>5, <2>1, <2>5, <2>6
<1>8. CASE ResumeOne
  <2>1. PICK m \in Message :
          /\ m \in Elements(pausedList) /\ [m EXCEPT !.gid = 0] \in Message
          /\ current' = CurrentAfter(m) /\ Elements(pausedList') = Elements(pausedList) \ {m}
          /\ \/ \E p \in Priority : Enqueue([m EXCEPT !.gid = 0], p, lastObj + 1)
             \/ UNCHANGED <<queue, lastP5>>
    BY <1>8, ResumeElements
  <2>2. Same([m EXCEPT !.gid = 0], m) /\ m \in Known
    BY <1>2, <2>1 DEF Same, Message
  <2>3. lastObj + 1 \in Nat \ {0}
    BY <1>1
  <2> DEFINE m0 == [m EXCEPT !.gid = 0]
  <2> HIDE DEF m0
  <2>4. ASSUME NEW p \in Priority, Enqueue(m0, p, lastObj + 1)
        PROVE  /\ \A r \in Priority : Elements(queue'[r]) \subseteq Elements(queue[r]) \cup {m0}
               /\ Elements(lastP5') \subseteq Elements(lastP5) \cup {Copy(m0, lastObj + 1)}
               /\ Same(Copy(m0, lastObj + 1), m)
    <3>1. m0 \in Message /\ Same(m0, m)
      BY <2>1, <2>2 DEF m0
    <3>2. \A r \in Priority : Elements(queue'[r]) \subseteq Elements(queue[r]) \cup {m0}
      BY <2>4, <3>1, EnqueueElements
    <3>3. /\ Elements(lastP5') \subseteq Elements(lastP5) \cup {Copy(m0, lastObj + 1)}
          /\ \A y \in Message : Same(m0, y) => Same(Copy(m0, lastObj + 1), y)
      BY <2>3, <2>4, <3>1, EnqueuePostpones
    <3> QED BY <2>1, <3>1, <3>2, <3>3
  <2>5. current' \in Message => current' = current
    BY <2>1 DEF CurrentAfter, NoMessage, Message, MsgId
  <2>6. x \in Known \/ Same(x, m)
    BY <1>2, <1>3, <2>1, <2>2, <2>4, <2>5 DEF m0
  <2> QED BY <1>5, <2>2, <2>6
<1>9. CASE TransferOne \/ TransferLast
  <2>1. /\ Elements(lastP5') \subseteq Elements(lastP5) /\ Head(lastP5) \in Elements(lastP5)
        /\ \A p \in Priority : Elements(queue'[p]) \subseteq Elements(queue[p]) \cup {Head(lastP5)}
    BY <1>9, TransferElements
  <2>2. pausedList' = pausedList /\ current' = current
    BY <1>9 DEF TransferOne, TransferLast, speaking
  <2>3. x \in Known
    BY <1>2, <1>6, <2>1, <2>2
  <2> QED BY <1>5, <2>3
<1>10. CASE ~(\E f \in Fds : Queue(f)) /\ ~ResumeOne /\ ~TransferOne /\ ~TransferLast
  <2>1. \A p \in Priority : Elements(queue'[p]) \subseteq Elements(queue[p])
    BY <1>10, QueuesShrink
  <2>2. CASE HandlePause
    <3>1. lastP5' = lastP5 /\ current' = current /\ (pausedList' = pausedList \/ (
            current # NoMessage /\ pausedList' = PutAside(current)))
      BY <2>2 DEF HandlePause, speaking
    <3>2. current # NoMessage => current \in Message
      BY DEF TypeOK, SpeakingOK
    <3>3. Elements(Append(pausedList, current)) = Elements(pausedList) \cup {current}
      BY <1>1, ElementsType
    <3>4. Elements(pausedList') \subseteq Known
      <4>1. pausedList' \in {pausedList, Append(pausedList, current)}
        BY <3>1 DEF PutAside
      <4>2. CASE pausedList' = pausedList
        BY <1>2, <4>2
      <4>3. CASE pausedList' # pausedList
        <5>1. Elements(pausedList') = Elements(pausedList) \cup {current}
          BY <3>3, <4>1, <4>3
        <5>2. current \in Known
          BY <1>2, <3>1, <3>2, <4>3
        <5> QED BY <1>2, <5>1, <5>2
      <4> QED BY <4>2, <4>3
    <3> QED BY <1>2, <1>5, <1>6, <2>1, <3>1, <3>4
  <2>3. CASE TakeSpeak
    <3>1. /\ current' = Next1 /\ \E p \in Priority : Next1 \in Elements(queue[p])
      BY <2>3, TakenLeaves DEF TakeSpeak
    <3>2. pausedList' = pausedList /\ lastP5' \in {lastP5, <<>>}
      BY <2>3 DEF TakeSpeak
    <3>3. Elements(lastP5') \subseteq Elements(lastP5)
      BY <1>1, <3>2, RemovalsShrink DEF Shrinks
    <3> QED BY <1>2, <1>5, <1>6, <2>1, <3>1, <3>2, <3>3
  <2>4. CASE ~HandlePause /\ ~TakeSpeak
    <3>1. UNCHANGED <<lastP5, pausedList>> /\ current' \in {current, NoMessage}
      <4>1. CASE \/ \E u \in 1 .. maxUid : Stop(u) \/ Cancel(u)
                 \/ StopAll \/ CancelAllQueues \/ TakeFails
        BY <4>1 DEF Stop, Cancel, StopAll, CancelAllQueues, TakeFails, speaking
      <4>2. CASE HandlePaused
        BY <4>2 DEF HandlePaused, Handle, lists
      <4>3. CASE ~ListSteps
        BY <4>3, OtherSteps DEF owners
      <4> QED BY <1>10, <2>4, <4>1, <4>2, <4>3 DEF ListSteps
    <3>2. NoMessage \notin Message
      BY DEF NoMessage, Message, MsgId
    <3> QED BY <1>2, <1>5, <1>6, <2>1, <3>1, <3>2
  <2> QED BY <2>2, <2>3, <2>4
<1> QED BY <1>7, <1>8, <1>9, <1>10

(* Queue r when m has arrived in queue p, before it is resolved.           *)
Arrived(m, p, r) == Elements(queue[r]) \cup (IF r = p THEN {m} ELSE {})

(* Which messages are told CANCEL when m arrives in queue p: some of those *)
(* that waited, or m, and none of them is left in its queue; a message     *)
(* leaves without an event only when m belongs to a block.                 *)
LEMMA EnqueueTells ==
  ASSUME TypeOK, NEW m \in Message, NEW p \in Priority, NEW obj, Enqueue(m, p, obj)
  PROVE  \E D :
           /\ Tell(D, "cancel")
           /\ \A x \in D : \E r \in Priority : x \in Arrived(m, p, r) /\ x \notin Elements(queue'[r])
           /\ \A r \in Priority : \A x \in Arrived(m, p, r) :
                x \in Elements(queue'[r]) \/ x \in D \/ m.gid > 0
<1> DEFINE q == [queue EXCEPT ![p] = Append(@, m)]
           D == Cancelled(q, p)
<1>1. queue \in [Priority -> Seq(Message)]
  BY DEF TypeOK, ListsOK
<1>2. \A r \in Priority : Elements(q[r]) = Arrived(m, p, r)
  <2>1. \A r \in Priority : q[r] = IF r = p THEN Append(queue[p], m) ELSE queue[r]
    BY <1>1
  <2>2. Elements(Append(queue[p], m)) = Elements(queue[p]) \cup {m}
    BY <1>1, ElementsType
  <2> QED BY <2>1, <2>2 DEF Arrived
<1>3. LastOf(q[p]) = m
  <2>1. \A s \in Seq(Message) : LastOf(Append(s, m)) = m
    BY DEF LastOf
  <2> QED BY <1>1, <2>1
<1>4. queue' = Resolved(q, p) /\ Tell(D, "cancel")
  BY DEF Enqueue
<1> HIDE DEF q
<1>5. \A x : x \in D <=> /\ \E r \in Priority : x \in Elements(q[r]) \ Elements(queue'[r])
                          /\ x \notin Silenced(q, p)
  BY <1>4 DEF Cancelled
<1>6. \A x \in Silenced(q, p) : m.gid > 0
  BY <1>3 DEF Silenced, KeepsBlock
<1> HIDE DEF D
<1>7. \A x \in D : \E r \in Priority : x \in Arrived(m, p, r) /\ x \notin Elements(queue'[r])
  BY <1>2, <1>5
<1>8. \A r \in Priority : \A x \in Arrived(m, p, r) :
        x \in Elements(queue'[r]) \/ x \in D \/ m.gid > 0
  BY <1>2, <1>5, <1>6
<1> QED BY <1>4, <1>7, <1>8
-----------------------------------------------------------------------------
(* An event is told of a message that the server holds or has just taken.  *)
LEMMA ToldOf ==
  ASSUME TypeOK, ConnectedInv, [Next]_vars, NEW i \in MsgId, life'[i] # life[i]
  PROVE  \/ \E y \in Known : y.id = i
         \/ i = lastId + 1 /\ lastId' = lastId + 1
<1>1. /\ queue \in [Priority -> Seq(Message)] /\ pausedList \in Seq(Message)
      /\ lastP5 \in Seq(Message) /\ lastObj \in Nat
      /\ current \in Message \cup {NoMessage} /\ life \in [MsgId -> Report]
  BY DEF TypeOK, ListsOK, ObjectsOK, SpeakingOK, ToldOK
<1>2. /\ \A p \in Priority : Elements(queue[p]) \subseteq Known
      /\ Elements(pausedList) \subseteq Known
      /\ current # NoMessage => current \in Known
  <2>1. /\ \A p \in Priority : Elements(queue[p]) \subseteq Message
        /\ Elements(pausedList) \subseteq Message
    BY <1>1, ElementsType
  <2> QED BY <1>1, <2>1 DEF Known
<1>3. ASSUME NEW D, NEW e, Tell(D, e), D \subseteq Known PROVE \E y \in Known : y.id = i
  BY <1>1, <1>3 DEF Tell
<1>4. ASSUME NEW m \in Message, NEW p \in Priority, NEW obj, Enqueue(m, p, obj)
      PROVE  (\E y \in Known : y.id = i) \/ m.id = i
  <2>1. PICK D : /\ Tell(D, "cancel")
                 /\ \A x \in D : \E r \in Priority : x \in Arrived(m, p, r)
    BY <1>4, EnqueueTells
  <2>2. \A x \in D : x \in Known \/ x = m
    BY <1>2, <2>1 DEF Arrived
  <2>3. \E x \in D : x.id = i
    BY <1>1, <2>1 DEF Tell
  <2> QED BY <2>2, <2>3
<1>5. ASSUME NEW f \in Fds, Queue(f) PROVE (\E y \in Known : y.id = i) \/ (i = lastId + 1 /\ lastId' = lastId + 1)
  <2>1. PICK m \in Message :
          /\ m = [id |-> lastId + 1, obj |-> lastObj + 1, uid |-> fdUid[f],
                  fd |-> f, gid |-> inside[f]]
          /\ settings[fdUid[f]].priority \in Priority
          /\ Enqueue(m, settings[fdUid[f]].priority, lastObj + 2)
    BY <1>5, Queues
  <2>2. m.id = lastId + 1 /\ lastId' = lastId + 1
    BY <1>5, <2>1 DEF Queue
  <2> QED BY <1>4, <2>1, <2>2
<1>6. CASE ResumeOne
  <2>1. PICK m \in Message :
          /\ m \in Elements(pausedList) /\ [m EXCEPT !.gid = 0] \in Message
          /\ \/ \E p \in Priority : Enqueue([m EXCEPT !.gid = 0], p, lastObj + 1)
             \/ UNCHANGED life
    BY <1>6, ResumeElements
  <2>2. [m EXCEPT !.gid = 0].id = m.id /\ m \in Known
    BY <1>2, <2>1 DEF Message
  <2> QED BY <1>4, <2>1, <2>2
<1>7. ASSUME NEW u \in 1 .. maxUid, Cancel(u) PROVE \E y \in Known : y.id = i
  <2>1. PICK D : Tell(D, "cancel") /\ \A x \in D : \E p \in Priority : x \in Elements(AfterStop(u)[p])
    BY <1>7 DEF Cancel
  <2>2. \A p \in Priority : Elements(AfterStop(u)[p]) \subseteq Elements(queue[p])
    BY StopsShrink DEF Shrinks
  <2> QED BY <1>2, <1>3, <2>1, <2>2
<1>8. CASE CancelAllQueues
  <2>1. PICK D : Tell(D, "cancel") /\ \A x \in D : \E p \in Priority : x \in Elements(queue[p])
    BY <1>8 DEF CancelAllQueues
  <2> QED BY <1>2, <1>3, <2>1
<1>9. CASE TransferLast
  <2>1. PICK D : Tell(D, "cancel") /\ \A x \in D : \E p \in Priority : x \in Elements(queue[p])
    BY <1>9 DEF TransferLast, Priority, SPD_IMPORTANT, SPD_TEXT, SPD_NOTIFICATION, SPD_PROGRESS
  <2> QED BY <1>2, <1>3, <2>1
<1>10. CASE HandleBegin \/ HandleDone \/ HandlePaused
  <2>1. current # NoMessage /\ \E e : Tell({current}, e)
    BY <1>10 DEF HandleBegin, HandleDone, HandlePaused, Handle
  <2> QED BY <1>2, <1>3, <2>1
<1>11. CASE UNCHANGED life
  BY <1>11
<1> QED BY <1>5, <1>6, <1>7, <1>8, <1>9, <1>10, <1>11
  DEF Next, MainStep, MainGoesOn, SpeakStep, ModuleStep, vars, died, client,
      Connect, Disconnect, BlockBegin, BlockEnd, SetPriority, Stop, Pause, Resume, StopAll, CancelAll,
      PauseAll, PausePost, ResumeClient, ResumePost, PollWake, HandleMark, HandleBroken, Handle, HandlePause,
      ClearPause, CheckSpeaking, ResumeEnd, ResumeClear, TransferOne, TakeNothing, TakeFails, TakeSpeak,
      EmitBegin, EmitMark, EmitTerminal, Emit
-----------------------------------------------------------------------------
(* A message is numbered when it is queued: no number above                *)
(* last_message_id is in use, nor was a client told anything of it.        *)
IdsInv ==
  /\ \A x \in Known : x.id <= lastId
  /\ \A i \in MsgId : i > lastId => life[i] = "none"

(* last_message_id only grows, when a message is queued.                   *)
LEMMA LastIdGrows ==
  ASSUME [Next]_vars, lastId' # lastId
  PROVE  lastId' = lastId + 1 /\ \E f \in Fds : Queue(f)
<1>1. CASE \E f \in Fds : Queue(f)
  BY <1>1 DEF Queue
<1>2. CASE UNCHANGED lastId
  BY <1>2
<1> QED BY <1>1, <1>2
  DEF Next, MainStep, MainGoesOn, SpeakStep, ModuleStep, vars, objects, lists,
      Connect, Disconnect, BlockBegin, BlockEnd, SetPriority, Stop, Cancel, Pause, Resume, StopAll, CancelAll,
      PauseAll, CancelAllQueues, PausePost, ResumeClient, ResumePost, PollWake, HandleBegin, HandleMark,
      HandleDone, HandlePaused, HandleBroken, Handle, HandlePause, ClearPause, CheckSpeaking, ResumeOne,
      ResumeEnd, ResumeClear, TransferOne, TransferLast, TakeNothing, TakeFails, TakeSpeak,
      EmitBegin, EmitMark, EmitTerminal, Emit

(* Every step keeps the numbers in use below last_message_id.              *)
LEMMA IdsStep ==
  ASSUME TypeOK, ConnectedInv, IdsInv, [Next]_vars
  PROVE  IdsInv'
<1> USE SpeakingAssumption
<1>1. lastId \in Nat /\ (lastId' = lastId \/ lastId' = lastId + 1)
  BY LastIdGrows DEF TypeOK, ObjectsOK
<1>2. \A x \in Message : x.id \in Nat
  BY DEF Message, MsgId
<1>3. ASSUME NEW x \in Known' PROVE x.id <= lastId'
  <2>1. x \in Message
    BY DEF Known
  <2>2. CASE \E y \in Known : Same(x, y)
    BY <1>1, <1>2, <2>1, <2>2 DEF IdsInv, Same, Known
  <2>3. CASE \E f \in Fds : Queue(f) /\ x.id = lastId + 1
    BY <1>1, <2>3 DEF Queue
  <2> QED BY <2>2, <2>3, Origin
<1>4. ASSUME NEW i \in MsgId, i > lastId' PROVE life'[i] = "none"
  <2>1. i \in Nat /\ i > lastId
    BY <1>1, <1>4 DEF MsgId
  <2>2. life[i] = "none"
    BY <2>1 DEF IdsInv
  <2>3. \A y \in Known : y.id <= lastId /\ y.id \in Nat
    BY <1>2 DEF IdsInv, Known
  <2>4. ~(\E y \in Known : y.id = i) /\ ~(i = lastId + 1 /\ lastId' = lastId + 1)
    BY <1>1, <1>4, <2>1, <2>3
  <2> QED BY <2>2, <2>4, ToldOf
<1> QED BY <1>3, <1>4 DEF IdsInv

(* The invariants that the proofs below start from.                        *)
NumberInv == BaseInv /\ IdsInv
(* They hold at first and every step keeps them.                           *)
LEMMA NumberInvariant ==
  /\ Init => NumberInv
  /\ NumberInv /\ [Next]_vars => NumberInv'
<1>1. Init => BaseInv
  BY BaseStep
<1>2. ASSUME Init PROVE IdsInv
  <2>1. Known = {}
    <3>1. \A p \in Priority : queue[p] = <<>>
      BY <1>2 DEF Init
    <3>2. Elements(<<>>) = {}
      BY DEF Elements
    <3>3. pausedList = <<>> /\ lastP5 = <<>> /\ current \notin Message
      BY <1>2 DEF Init, NoMessage, Message, MsgId
    <3> QED BY <3>1, <3>2, <3>3 DEF Known
  <2>2. \A i \in MsgId : life[i] = "none"
    BY <1>2 DEF Init
  <2> QED BY <2>1, <2>2 DEF IdsInv
<1>3. NumberInv /\ [Next]_vars => NumberInv'
  BY BaseStep, IdsStep DEF NumberInv, BaseInv
<1> QED BY <1>1, <1>2, <1>3 DEF NumberInv

(* The action of PriorityInterplay for one step.                           *)
Interplay ==
  \A f \in Fds :
    lastId' # lastId /\ Connected(f) /\ sess.state \in {"synth", "begun"}
      /\ (\E p \in Priority : \E m \in Elements(queue'[p]) :
            m.id = lastId' /\ m.fd = f)
      => LET p == settings[fdUid[f]].priority IN
         sess'.stop = (sess.stop \/ (sess.prio \in MayInterrupt[p]
           /\ ~(p = sess.prio /\ SameBlock(inside[f]))))

(* When a message arrives, what is spoken is stopped exactly when the      *)
(* priorities and the blocks say so: highest_priority and speaking_gid,    *)
(* from which the main thread decides, are those of the open session.      *)
THEOREM PriorityCorrect == Spec => PriorityInterplay
<1>1. NumberInv /\ [Next]_vars => Interplay
  <2> SUFFICES ASSUME NumberInv, [Next]_vars, NEW f \in Fds,
                      lastId' # lastId, Connected(f), sess.state \in {"synth", "begun"},
                      NEW r \in Priority, NEW x \in Elements(queue'[r]), x.id = lastId', x.fd = f
               PROVE  LET p == settings[fdUid[f]].priority IN
                      sess'.stop = (sess.stop \/ (sess.prio \in MayInterrupt[p]
                        /\ ~(p = sess.prio /\ SameBlock(inside[f]))))
    BY DEF Interplay
  <2> USE DEF NumberInv, BaseInv
  <2>1. PICK g \in Fds : Queue(g) /\ lastId' = lastId + 1
    BY LastIdGrows
  <2>2. PICK m \in Message :
          /\ m = [id |-> lastId + 1, obj |-> lastObj + 1, uid |-> fdUid[g],
                  fd |-> g, gid |-> inside[g]]
          /\ settings[fdUid[g]].priority \in Priority
          /\ Enqueue(m, settings[fdUid[g]].priority, lastObj + 2)
    BY <2>1, Queues
  <2> DEFINE p == settings[fdUid[g]].priority
             q == [queue EXCEPT ![p] = Append(@, m)]
  <2>3. p \in Priority /\ Enqueue(m, p, lastObj + 2) /\ queue \in [Priority -> Seq(Message)]
    BY <2>2 DEF TypeOK, ListsOK
  <2>4. f = g
    <3> HIDE DEF p
    <3>1. x \in Elements(queue[r]) \/ x = m
      BY <2>3, EnqueueElements
    <3>2. x \notin Elements(queue[r])
      <4> SUFFICES ASSUME x \in Elements(queue[r]) PROVE FALSE
        OBVIOUS
      <4>1. x \in Known
        BY <2>3, ElementsType DEF Known
      <4>2. x.id <= lastId /\ lastId \in Nat
        BY <4>1 DEF IdsInv, TypeOK, ObjectsOK
      <4> QED BY <2>1, <4>2
    <3> QED BY <2>2, <3>1, <3>2
  <2>5. SPEAKING /\ speakingModule /\ highest = sess.prio /\ highest \in Priority
        /\ speakingGid = sess.msg.gid
    BY DEF SessionInv, SessionAgrees, TypeOK, SpeakingOK, Priority, SPD_IMPORTANT, SPD_PROGRESS
  <2>6. LastOf(q[p]) = m
    <3>1. \A s \in Seq(Message) : LastOf(Append(s, m)) = m
      BY DEF LastOf
    <3> QED BY <2>3, <3>1
  <2>7. m.gid = inside[f] /\ inside[f] \in Nat
    BY <2>2, <2>4 DEF TypeOK, ClientOK
  <2>8. sess' = IF Interrupts(q, p) THEN Stopped(sess) ELSE sess
    BY <2>3 DEF Enqueue
  <2>9. Stopped(sess) = [sess EXCEPT !.stop = TRUE]
    BY <2>5 DEF Stopped, Reaches
  <2>10. sess \in Session
    BY DEF TypeOK, OutputOK
  <2>11. KeepsBlock(q[p], p) <=> p # SPD_PROGRESS /\ inside[f] > 0
    BY <2>6, <2>7 DEF KeepsBlock
  <2> HIDE DEF p, q
  <2>12. Interrupts(q, p) <=> sess.prio \in MayInterrupt[p] /\ ~(p = sess.prio /\ SameBlock(inside[f]))
    <3>1. SameBlock(inside[f]) <=> inside[f] > 0 /\ speakingGid = inside[f]
      BY <2>5, <2>7 DEF SameBlock
    <3> USE DEF SPD_IMPORTANT, SPD_MESSAGE, SPD_TEXT, SPD_NOTIFICATION, SPD_PROGRESS, Priority
    <3>2. p \in {1, 2, 3, 4, 5} /\ highest \in {1, 2, 3, 4, 5}
      BY <2>3, <2>5
    <3>3. highest \in MayInterrupt[p] <=> \/ p = 1 /\ highest # 1
                                          \/ p \in {2, 3} /\ highest \in {3, 4, 5}
                                          \/ p \in {4, 5} /\ highest = 4
      <4>1. MayInterrupt[p] = CASE p = SPD_IMPORTANT -> Priority \ {SPD_IMPORTANT}
                                [] p \in {SPD_MESSAGE, SPD_TEXT}
                                     -> {SPD_TEXT, SPD_NOTIFICATION, SPD_PROGRESS}
                                [] OTHER -> {SPD_NOTIFICATION}
        BY <2>3 DEF MayInterrupt
      <4>2. CASE p = 1
        BY <3>2, <4>1, <4>2
      <4>3. CASE p \in {2, 3}
        BY <3>2, <4>1, <4>3
      <4>4. CASE p \in {4, 5}
        BY <3>2, <4>1, <4>4
      <4> QED BY <3>2, <4>2, <4>3, <4>4
    <3>4. highest \in Emptied(p) <=> \/ p \in {1, 3} /\ highest \in {4, 5}
                                     \/ p = 2 /\ highest \in {3, 4, 5}
                                     \/ p = 5 /\ highest = 4
      BY <2>5, <3>2 DEF Emptied
    <3>5. Interrupts(q, p) = \/ p = 1 /\ highest # 1
                             \/ p = 2 /\ highest \notin {1, 2}
                             \/ highest \in Emptied(p)
                             \/ /\ p \in {3, 4} /\ highest = p
                                /\ inside[f] > 0 => speakingGid # inside[f]
      BY <2>5, <2>6, <2>7, <3>2 DEF Interrupts, KeepsBlock
    <3>6. sess.prio = highest
      BY <2>5
    <3>7. CASE p \in {1, 2, 5}
      BY <3>1, <3>2, <3>3, <3>4, <3>5, <3>6, <3>7
    <3>8. CASE p \in {3, 4}
      BY <3>1, <3>2, <3>3, <3>4, <3>5, <3>6, <3>8
    <3> QED BY <3>2, <3>7, <3>8
  <2>13. sess'.stop = (sess.stop \/ Interrupts(q, p))
    BY <2>8, <2>9, <2>10 DEF Session
  <2> QED BY <2>4, <2>12, <2>13 DEF p
<1>2. NumberInv /\ [Next]_vars => [Interplay]_vars
  BY <1>1
<1> QED BY <1>2, NumberInvariant, PTL DEF Spec, PriorityInterplay, Interplay
-----------------------------------------------------------------------------
(* Without PAUSE no client is paused and no message is put aside.          *)
NoPause ==
  /\ pauseReq = 0 /\ main.op # "pause" /\ spc # "pauseClear"
  /\ pausedList = <<>> /\ pausedWhile = {}
  /\ \A u \in Client : ~settings[u].paused

(* speak() and the main thread keep it so.                                 *)
LEMMA NoPauseStep ==
  ASSUME {"pause", "pauseAll"} \cap Commands = {}, TypeOK, NoPause, [Next]_vars
  PROVE  NoPause'
<1>1. ~(\E u : Pause(u)) /\ ~PauseAll /\ ~PausePost /\ ~HandlePause /\ ~ClearPause
  BY DEF Pause, PauseAll, PausePost, HandlePause, ClearPause, Command, NoPause
<1>2. ~ResumeOne
  BY DEF ResumeOne, Speakable, NoPause
<1>3. main \in [op : {"idle", "pause", "resume", "resumePost", "cancelAll"}, uids : SUBSET Client]
      /\ settings \in [Client -> Settings]
  BY DEF TypeOK, ControlOK, ClientOK
<1>6. ASSUME NEW f \in Fds, Connect(f) PROVE NoPause'
  <2>1. \A u \in Client : ~settings'[u].paused
    <3> DEFINE new == [active |-> TRUE, paused |-> FALSE, priority |-> SPD_MESSAGE]
    <3>1. settings' = [settings EXCEPT ![maxUid + 1] = new] /\ ~new.paused
      BY <1>6 DEF Connect
    <3> HIDE DEF new
    <3> QED BY <1>3, <3>1 DEF NoPause
  <2> QED BY <1>6, <2>1 DEF Connect, NoPause, lists, objects, requests
<1>7. ASSUME NEW f \in Fds, \/ Disconnect(f) \/ \E p \in Prios : SetPriority(f, p) PROVE NoPause'
  <2>1. \A u \in Client : ~settings'[u].paused
    <3>1. CASE Disconnect(f)
      BY <1>3, <3>1 DEF Disconnect, NoPause, Settings
    <3>2. ASSUME NEW p \in Prios, SetPriority(f, p) PROVE \A u \in Client : ~settings'[u].paused
      BY <1>3, <3>2 DEF SetPriority, NoPause, Settings
    <3> QED BY <1>7, <3>1, <3>2
  <2> QED BY <1>7, <2>1 DEF Disconnect, SetPriority, NoPause, lists, objects, requests
<1>8. ASSUME NEW f \in Fds, BlockBegin(f) \/ BlockEnd(f) PROVE NoPause'
  BY <1>8 DEF BlockBegin, BlockEnd, NoPause, lists, objects, requests
<1>9. ASSUME NEW f \in Fds, Queue(f) PROVE NoPause'
  <2>1. pausedWhile' = {}
    BY <1>9 DEF Queue, Enqueue, Copied, NoPause
  <2> QED BY <1>9, <2>1 DEF Queue, NoPause, client, requests
<1>10. ASSUME NEW u \in 1 .. maxUid, Stop(u) \/ Cancel(u) PROVE NoPause'
  BY <1>10 DEF Stop, Cancel, NoPause, client, objects, requests
<1>11. ASSUME NEW n, NEW U, Resume(n, U) PROVE NoPause'
  <2>1. main'.op # "pause"
    BY <1>3, <1>11 DEF Resume
  <2> QED BY <1>11, <2>1 DEF Resume, NoPause, client, lists, objects, requests
<1>12. CASE StopAll \/ CancelAll \/ CancelAllQueues
  <2>1. main'.op # "pause"
    BY <1>3, <1>12 DEF StopAll, CancelAll, CancelAllQueues, NoPause
  <2> QED BY <1>12, <2>1 DEF StopAll, CancelAll, CancelAllQueues, NoPause, client, lists, objects, requests
<1>13. CASE ResumeClient
  <2>1. main'.op # "pause" /\ \A u \in Client : ~settings'[u].paused
    BY <1>3, <1>13 DEF ResumeClient, NoPause, Settings
  <2> QED BY <1>13, <2>1 DEF ResumeClient, NoPause, lists, objects, requests
<1>14. CASE ResumePost
  <2>1. main'.op # "pause"
    BY <1>3, <1>14 DEF ResumePost
  <2> QED BY <1>14, <2>1 DEF ResumePost, NoPause, client, lists, objects
<1>15. CASE HandleBegin \/ HandleMark \/ HandleDone \/ HandlePaused \/ HandleBroken
  BY <1>15 DEF HandleBegin, HandleMark, HandleDone, HandlePaused, HandleBroken, Handle, NoPause, client,
               lists, requests
<1>16. CASE PollWake \/ CheckSpeaking \/ ResumeEnd \/ ResumeClear \/ TransferOne \/ TransferLast
            \/ TakeNothing \/ TakeFails
  BY <1>16 DEF PollWake, CheckSpeaking, AfterCheck, ResumeEnd, ResumeClear, TransferOne, TransferLast,
               TakeNothing, TakeFails, TakeNext, NoPause, client, lists, objects, requests
<1>17. CASE TakeSpeak
  <2>1. settings' = settings \/ settings' = [settings EXCEPT ![current.uid] = NoSettings]
    BY <1>17 DEF TakeSpeak, ReleaseCurrent
  <2>2. \A u \in Client : ~settings'[u].paused
    BY <1>3, <2>1 DEF NoPause, NoSettings
  <2> QED BY <1>17, <2>2 DEF TakeSpeak, TakeNext, NoPause, objects, requests
<1>18. CASE ModuleStep \/ UNCHANGED vars
  BY <1>18 DEF ModuleStep, EmitBegin, EmitMark, EmitTerminal, Emit, vars, client, lists, objects, requests,
               NoPause
<1> QED BY <1>1, <1>2, <1>6, <1>7, <1>8, <1>9, <1>10, <1>11, <1>12, <1>13, <1>14, <1>15, <1>16, <1>17,
           <1>18
        DEF Next, MainStep, MainGoesOn, SpeakStep

(* The server starts so.                                                   *)
LEMMA NoPauseInit ==
  ASSUME Init
  PROVE  NoPause
BY DEF Init, NoPause, NoSettings

(* speak() waits without a byte in the pipe and without a session only     *)
(* when no message waits for it.                                           *)
NothingWaits == lastP5 = <<>> /\ \A p \in Priority : queue[p] = <<>>
AwakeInv == (spc = "poll" /\ pipe = 0 /\ ~SPEAKING) => NothingWaits

(* A list without elements is the empty list.                              *)
LEMMA EmptyList ==
  ASSUME NEW S
  PROVE  /\ \A s \in Seq(S) : Elements(s) = {} => s = <<>>
         /\ Elements(<<>>) = {}
<1>1. ASSUME NEW s \in Seq(S), Elements(s) = {} PROVE s = <<>>
  <2>1. DOMAIN s = 1 .. Len(s) /\ Len(s) \in Nat
    OBVIOUS
  <2>2. 1 \notin DOMAIN s
    BY <1>1 DEF Elements
  <2>3. Len(s) = 0
    BY <2>1, <2>2
  <2> QED BY <2>3
<1>2. Elements(<<>>) = {}
  BY DEF Elements
<1> QED BY <1>1, <1>2

(* Nobody is paused: speak() finds nothing to take only in empty queues.   *)
LEMMA TakeNothingWaits ==
  ASSUME TypeOK, ConnectedInv, NoPause, TakeNothing
  PROVE  NothingWaits
<1>1. queue \in [Priority -> Seq(Message)] /\ lastP5 \in Seq(Message)
  BY DEF TypeOK, ListsOK
<1>2. \A p \in Priority : Speakable(queue[p]) = {}
  BY DEF TakeNothing, Ready
<1>3. \A m : ~NotToSpeak(m)
  BY DEF NotToSpeak, HasSettings, NoPause
<1>4. \A p \in Priority : queue[p] = <<>>
  <2> SUFFICES ASSUME NEW p \in Priority PROVE queue[p] = <<>>
    OBVIOUS
  <2>1. Elements(queue[p]) = {}
    BY <1>2, <1>3 DEF Speakable, Elements
  <2>2. queue[p] \in Seq(Message)
    BY <1>1
  <2> QED BY <2>1, <2>2, EmptyList
<1>5. SPD_PROGRESS \in Priority
  BY DEF Priority, SPD_IMPORTANT, SPD_PROGRESS
<1> QED BY <1>4, <1>5 DEF TakeNothing, Transfer, NothingWaits

(* Every step wakes speak() up for what it leaves waiting.                 *)
LEMMA AwakeStep ==
  ASSUME {"pause", "pauseAll"} \cap Commands = {}, MayFail = FALSE,
         TypeOK, ConnectedInv, NoPause, AwakeInv, [Next]_vars
  PROVE  AwakeInv'
<1>1. queue \in [Priority -> Seq(Message)] /\ pipe \in Nat
  BY DEF TypeOK, ListsOK, ControlOK
<1>2. ASSUME pipe' # 0 \/ spc' # "poll" \/ SPEAKING' PROVE AwakeInv'
  BY <1>2 DEF AwakeInv
<1>3. ASSUME NothingWaits, \A p \in Priority : Elements(queue'[p]) \subseteq Elements(queue[p]),
             lastP5' = lastP5, queue' \in [Priority -> Seq(Message)]
      PROVE  NothingWaits'
  <2> SUFFICES ASSUME NEW p \in Priority PROVE queue'[p] = <<>>
    BY <1>3 DEF NothingWaits
  <2>1. queue[p] = <<>>
    BY <1>3 DEF NothingWaits
  <2>2. Elements(queue'[p]) = {} /\ queue'[p] \in Seq(Message)
    BY <1>3, <2>1, EmptyList
  <2> QED BY <2>2, EmptyList
<1>4. queue' \in [Priority -> Seq(Message)]
  BY TypeStep DEF TypeOK, ListsOK
<1>5. ~(\E u : Pause(u)) /\ ~PauseAll /\ ~PausePost /\ ~HandlePause /\ ~ClearPause /\ ~TakeFails
  BY DEF Pause, PauseAll, PausePost, HandlePause, ClearPause, TakeFails, Command, NoPause
<1>6. ~ResumeOne
  BY DEF ResumeOne, Speakable, NoPause
<1>7. CASE (\E f \in Fds : Queue(f)) \/ ResumePost
  <2>1. pipe' = pipe + 1
    BY <1>7 DEF Queue, Enqueue, ResumePost, Posted
  <2> QED BY <1>1, <1>2, <2>1
<1>8. CASE HandleBegin \/ HandleMark \/ HandleDone \/ HandlePaused \/ HandleBroken \/ PollWake
  BY <1>2, <1>8 DEF HandleBegin, HandleMark, HandleDone, HandlePaused, HandleBroken, Handle, PollWake
<1>9. CASE CheckSpeaking \/ ResumeEnd \/ ResumeClear \/ TransferOne \/ TransferLast \/ TakeSpeak
  BY <1>1, <1>2, <1>9 DEF CheckSpeaking, AfterCheck, ResumeEnd, ResumeClear, TransferOne, TransferLast,
     TakeSpeak, Posted, speaking
<1>10. CASE TakeNothing
  BY <1>10, TakeNothingWaits DEF TakeNothing, NothingWaits, AwakeInv, lists
<1>11. CASE \/ \E u \in 1 .. maxUid : Stop(u) \/ Cancel(u)
           \/ StopAll \/ CancelAllQueues
  <2>1. UNCHANGED <<spc, pipe, SPEAKING, lastP5>>
    BY <1>11 DEF Stop, Cancel, StopAll, CancelAllQueues, speaking
  <2>2. \A p \in Priority : Elements(queue'[p]) \subseteq Elements(queue[p])
    <3>1. CASE \E f \in Fds : Queue(f)
      <4>1. lastId' = lastId
        BY <1>11 DEF Stop, Cancel, StopAll, CancelAllQueues, objects
      <4>2. lastId' = lastId + 1 /\ lastId \in Nat
        BY <3>1 DEF Queue, TypeOK, ObjectsOK
      <4> QED BY <4>1, <4>2
    <3>2. ~TransferOne /\ ~TransferLast
      <4>1. lastP5 # <<>> /\ lastP5 \in Seq(Message) => Tail(lastP5) # lastP5
        OBVIOUS
      <4> QED BY <2>1, <4>1 DEF TransferOne, TransferLast, Transfer, TypeOK, ListsOK
    <3> QED BY <1>6, <3>1, <3>2, QueuesShrink
  <2> QED BY <1>3, <1>4, <2>1, <2>2 DEF AwakeInv
<1>12. CASE UNCHANGED <<spc, pipe, SPEAKING, lastP5, queue>>
  BY <1>12 DEF AwakeInv, NothingWaits
<1>13. ASSUME NEW f \in Fds, \/ Connect(f) \/ Disconnect(f) \/ BlockBegin(f) \/ BlockEnd(f)
                             \/ \E p \in Prios : SetPriority(f, p)
       PROVE  UNCHANGED <<spc, pipe, SPEAKING, lastP5, queue>>
  BY <1>13 DEF Connect, Disconnect, BlockBegin, BlockEnd, SetPriority, lists, speaking
<1>14. CASE \/ (\E n, U : Resume(n, U)) \/ CancelAll \/ ResumeClient
            \/ ModuleStep \/ UNCHANGED vars
  BY <1>12, <1>14 DEF Resume, CancelAll, ResumeClient, ModuleStep, EmitBegin, EmitMark, EmitTerminal, Emit,
     vars, lists, speaking
<1> QED BY <1>5, <1>6, <1>7, <1>8, <1>9, <1>10, <1>11, <1>12, <1>13, <1>14
        DEF Next, MainStep, MainGoesOn, SpeakStep

(* Where no client uses PAUSE and no module refuses a message, speak()     *)
(* never sleeps while a message could be spoken: no wake-up is lost.  (A   *)
(* PAUSE may use up a wake-up, and a message that cannot be spoken costs   *)
(* the one of the message behind it.)                                      *)
THEOREM NotStrandedCorrect ==
  ASSUME {"pause", "pauseAll"} \cap Commands = {}, MayFail = FALSE
  PROVE  Spec => []NotStranded
<1> DEFINE Inv == BaseInv /\ NoPause /\ AwakeInv
<1>1. Init => Inv
  <2>1. Init => AwakeInv
    BY DEF Init, AwakeInv, NothingWaits
  <2> QED BY <2>1, BaseStep, NoPauseInit
<1>2. Inv /\ [Next]_vars => Inv'
  BY BaseStep, NoPauseStep, AwakeStep DEF BaseInv
<1>3. Inv => NotStranded
  <2>1. NothingWaits => Ready = {} /\ lastP5 = <<>>
    BY DEF NothingWaits, Ready, Speakable
  <2> QED BY <2>1 DEF AwakeInv, NotStranded
<1> QED BY <1>1, <1>2, <1>3, PTL DEF Spec
-----------------------------------------------------------------------------
(* The priority of a client is the one it was given or the default; its    *)
(* settings go only when speak() takes the next message after its last one.*)
LEMMA SettingsFate ==
  ASSUME TypeOK, [Next]_vars, NEW u \in Client
  PROVE  \/ settings'[u].priority \in {settings[u].priority, SPD_MESSAGE} \cup Prios
         \/ settings'[u].priority = 0 /\ TakeSpeak /\ current # NoMessage /\ u = current.uid /\ Forgets(u, Next1)
<1>1. settings \in [Client -> Settings]
  BY DEF TypeOK, ClientOK
<1>2. CASE UNCHANGED settings
  BY <1>2
<1>3. ASSUME NEW f \in Fds, Connect(f) PROVE settings'[u].priority \in {settings[u].priority, SPD_MESSAGE} \cup Prios
  <2> DEFINE new == [active |-> TRUE, paused |-> FALSE, priority |-> SPD_MESSAGE]
  <2>1. settings' = [settings EXCEPT ![maxUid + 1] = new] /\ new.priority = SPD_MESSAGE
    BY <1>3 DEF Connect
  <2> HIDE DEF new
  <2> QED BY <1>1, <2>1
<1>4. ASSUME NEW f \in Fds, Disconnect(f) PROVE settings'[u].priority \in {settings[u].priority, SPD_MESSAGE} \cup Prios
  BY <1>1, <1>4 DEF Disconnect, Settings
<1>5. ASSUME NEW f \in Fds, NEW p \in Prios, SetPriority(f, p) PROVE settings'[u].priority \in {settings[u].priority, SPD_MESSAGE} \cup Prios
  BY <1>1, <1>5 DEF SetPriority, Settings
<1>6. CASE ResumeClient
  BY <1>1, <1>6 DEF ResumeClient, Settings
<1>7. CASE HandlePause
  BY <1>1, <1>7 DEF HandlePause, Settings
<1>8. CASE TakeSpeak
  <2>1. \/ UNCHANGED settings
        \/ /\ current # NoMessage /\ Forgets(current.uid, Next1)
           /\ settings' = [settings EXCEPT ![current.uid] = NoSettings]
    BY <1>8 DEF TakeSpeak, ReleaseCurrent
  <2> QED BY <1>1, <1>8, <2>1 DEF NoSettings
<1>9. ASSUME NEW f \in Fds, Queue(f) \/ BlockBegin(f) \/ BlockEnd(f) PROVE UNCHANGED settings
  BY <1>9 DEF Queue, BlockBegin, BlockEnd, client
<1>10. ASSUME NEW v \in 1 .. maxUid, Stop(v) \/ Cancel(v) \/ Pause(v) PROVE UNCHANGED settings
  BY <1>10 DEF Stop, Cancel, Pause, client
<1>11. CASE \/ \E n, U : Resume(n, U)
            \/ StopAll \/ CancelAll \/ PauseAll \/ CancelAllQueues \/ PausePost \/ ResumePost
  BY <1>2, <1>11 DEF Resume, StopAll, CancelAll, PauseAll, CancelAllQueues, PausePost, ResumePost, client
<1>12. CASE \/ PollWake \/ HandleBegin \/ HandleMark \/ HandleDone \/ HandlePaused \/ HandleBroken
            \/ ClearPause \/ CheckSpeaking \/ ResumeOne \/ ResumeEnd \/ ResumeClear
            \/ TransferOne \/ TransferLast \/ TakeNothing \/ TakeFails \/ ModuleStep
            \/ UNCHANGED vars
  BY <1>2, <1>12 DEF PollWake, HandleBegin, HandleMark, HandleDone, HandlePaused, HandleBroken, Handle,
     ClearPause, CheckSpeaking, ResumeOne, ResumeEnd, ResumeClear, TransferOne, TransferLast,
     TakeNothing, TakeFails, ModuleStep, EmitBegin, EmitMark, EmitTerminal, Emit, client, vars
<1> QED BY <1>2, <1>3, <1>4, <1>5, <1>6, <1>7, <1>8, <1>9, <1>10, <1>11, <1>12
        DEF Next, MainStep, MainGoesOn, SpeakStep

(* Where no client opens a block, no message belongs to one.               *)
NoGroups ==
  /\ maxGid = 0 /\ \A f \in Fds : inside[f] = 0
  /\ \A x \in Known : x.gid = 0

(* Every step keeps it so.                                                 *)
LEMMA NoGroupsStep ==
  ASSUME MaxBlocks = 0, TypeOK, ConnectedInv, NoGroups, [Next]_vars
  PROVE  NoGroups'
<1>1. \A f \in Fds : ~BlockBegin(f)
  BY DEF BlockBegin, NoGroups
<1>2. ASSUME NEW x \in Known' PROVE x.gid = 0
  BY Origin DEF NoGroups, Same
<1>3. inside \in [Fds -> Nat]
  BY DEF TypeOK, ClientOK
<1>4. maxGid' = maxGid /\ \A f \in Fds : inside'[f] \in {inside[f], 0}
  <2>1. CASE UNCHANGED <<maxGid, inside>>
    BY <2>1
  <2>2. ASSUME NEW f \in Fds, Connect(f) \/ BlockEnd(f)
        PROVE  maxGid' = maxGid /\ \A g \in Fds : inside'[g] \in {inside[g], 0}
    <3>1. maxGid' = maxGid /\ inside' = [inside EXCEPT ![f] = 0]
      BY <2>2 DEF Connect, BlockEnd
    <3> QED BY <1>3, <3>1
  <2>3. ASSUME NEW f \in Fds, \/ Disconnect(f) \/ Queue(f)
                              \/ \E p \in Prios : SetPriority(f, p)
        PROVE  UNCHANGED <<maxGid, inside>>
    BY <2>3 DEF Disconnect, Queue, SetPriority, client
  <2>4. CASE \/ \E u : Stop(u) \/ Cancel(u) \/ Pause(u)
             \/ \E n, U : Resume(n, U)
             \/ StopAll \/ CancelAll \/ PauseAll \/ CancelAllQueues \/ PausePost \/ ResumeClient
             \/ ResumePost
    BY <2>1, <2>4 DEF Stop, Cancel, Pause, Resume, StopAll, CancelAll, PauseAll, CancelAllQueues,
       PausePost, ResumeClient, ResumePost, client
  <2>5. CASE \/ PollWake \/ HandleBegin \/ HandleMark \/ HandleDone \/ HandlePaused \/ HandleBroken
             \/ HandlePause \/ ClearPause \/ CheckSpeaking \/ ResumeOne \/ ResumeEnd \/ ResumeClear
             \/ TransferOne \/ TransferLast \/ TakeNothing \/ TakeFails \/ TakeSpeak \/ ModuleStep
             \/ UNCHANGED vars
    BY <2>1, <2>5 DEF PollWake, HandleBegin, HandleMark, HandleDone, HandlePaused, HandleBroken, Handle,
       HandlePause, ClearPause, CheckSpeaking, ResumeOne, ResumeEnd, ResumeClear, TransferOne,
       TransferLast, TakeNothing, TakeFails, TakeSpeak, ModuleStep, EmitBegin, EmitMark, EmitTerminal,
       Emit, client, vars
  <2> QED BY <1>1, <2>1, <2>2, <2>3, <2>4, <2>5 DEF Next, MainStep, MainGoesOn, SpeakStep
<1> QED BY <1>2, <1>4 DEF NoGroups

(* Where no client asks for priority progress, last_p5_block is empty.     *)
NoProgress == lastP5 = <<>> /\ \A u \in Client : settings[u].priority # SPD_PROGRESS

(* Every step keeps it so.                                                 *)
LEMMA NoProgressStep ==
  ASSUME SPD_PROGRESS \notin Prios, TypeOK, ConnectedInv, NoProgress, [Next]_vars
  PROVE  NoProgress'
<1>1. \A u \in Client : settings'[u].priority # SPD_PROGRESS
  BY SettingsFate DEF NoProgress, SPD_PROGRESS, SPD_MESSAGE
<1>2. ASSUME NEW m \in Message, NEW p \in Priority, p # SPD_PROGRESS, NEW obj, Enqueue(m, p, obj)
      PROVE  lastP5' = lastP5
  BY <1>2 DEF Enqueue
<1>3. ASSUME NEW f \in Fds, Queue(f) PROVE lastP5' = lastP5
  <2>1. fdUid[f] \in Client
    BY <1>3, SpeakingAssumption DEF Queue, ConnectedInv, TypeOK, ClientOK, Client
  <2>2. PICK m \in Message : /\ settings[fdUid[f]].priority \in Priority
                             /\ Enqueue(m, settings[fdUid[f]].priority, lastObj + 2)
    BY <1>3, Queues
  <2> QED BY <1>2, <2>1, <2>2 DEF NoProgress
<1>4. CASE ResumeOne
  <2>1. PICK m \in Message :
          \/ /\ HasSettings(m.uid) /\ settings[m.uid].priority \in Priority
             /\ Enqueue([m EXCEPT !.gid = 0], settings[m.uid].priority, lastObj + 1)
             /\ [m EXCEPT !.gid = 0] \in Message
          \/ lastP5' = lastP5
    BY <1>4, ResumeElements
  <2> QED BY <1>1, <1>2, <2>1 DEF NoProgress, HasSettings
<1>5. CASE ~(\E f \in Fds : Queue(f)) /\ ~ResumeOne
  <2>1. CASE \/ \E u \in 1 .. maxUid : Stop(u) \/ Cancel(u)
             \/ StopAll \/ CancelAllQueues \/ HandlePaused \/ HandlePause \/ TransferOne
             \/ TransferLast \/ TakeFails \/ TakeSpeak
    BY <1>1, <2>1 DEF Stop, Cancel, StopAll, CancelAllQueues, HandlePaused, Handle, HandlePause, lists,
       TransferOne, TransferLast, Transfer, TakeFails, TakeSpeak, NoProgress
  <2>2. CASE ~ListSteps
    BY <1>1, <2>2, OtherSteps DEF owners, NoProgress
  <2> QED BY <1>5, <2>1, <2>2 DEF ListSteps
<1> QED BY <1>1, <1>3, <1>4, <1>5 DEF NoProgress

(* What speak() relies on when it frees the settings of a client: what     *)
(* waits in last_p5_block does not go to the queues behind its back.       *)
SettingsInv ==
  /\ \A x \in Known : settings[x.uid].priority # 0
  /\ SPD_PROGRESS \notin Prios => NoProgress
  /\ MaxBlocks = 0 => NoGroups
  /\ fault # "none" => fault = "assert" /\ "stopAll" \in Commands

(* client_has_messages() finds every message of a client that speak() may  *)
(* not forget.                                                             *)
LEMMA SettingsStep ==
  ASSUME {"pause", "pauseAll"} \cap Commands = {}, SPD_PROGRESS \notin Prios \/ MaxBlocks = 0,
         BaseInv, NoPause, SettingsInv, [Next]_vars
  PROVE  SettingsInv'
<1> USE DEF BaseInv
<1>1. SPD_PROGRESS \notin Prios => NoProgress'
  BY NoProgressStep DEF SettingsInv
<1>2. MaxBlocks = 0 => NoGroups'
  BY NoGroupsStep DEF SettingsInv
<1>3. \A x \in Known : x.uid \in Client /\ settings[x.uid].priority # 0
  BY DEF SettingsInv, Known, Message
<1>4. 0 \notin Prios
  BY SpeakingAssumption DEF Priority, SPD_IMPORTANT, SPD_PROGRESS
<1>5. ASSUME NEW x \in Known' PROVE settings'[x.uid].priority # 0
  <2>1. x.uid \in Client /\ x \in Message
    BY DEF Known, Message
  <2>2. settings[x.uid].priority # 0
    <3>1. CASE \E y \in Known : Same(x, y)
      BY <1>3, <3>1 DEF Same
    <3>2. CASE \E f \in Fds : Queue(f) /\ x.uid = fdUid[f]
      BY <3>2 DEF Queue, ConnectedInv
    <3> QED BY <3>1, <3>2, Origin
  <2>3. CASE TakeSpeak /\ current # NoMessage /\ x.uid = current.uid /\ Forgets(x.uid, Next1)
    <3>1. /\ x.uid # Next1.uid
          /\ \A p \in Priority : \A m \in Elements(queue'[p]) : m.uid # x.uid
      BY <2>3 DEF Forgets, ClientHasMessages
    <3>2. pausedList' = <<>> /\ current' = Next1
      BY <2>3 DEF TakeSpeak, NoPause
    <3>3. lastP5' = <<>>
      <4>1. Next1 \in Known
        BY <2>3, TakenLeaves DEF TakeSpeak, Known
      <4>2. lastP5 # <<>> => LastOf(lastP5) \in Known
        BY ElementsType DEF TypeOK, ListsOK, Known
      <4>3. lastP5 # <<>> => LastOf(lastP5).gid = Next1.gid
        BY <4>1, <4>2 DEF SettingsInv, NoProgress, NoGroups
      <4> QED BY <2>3, <4>3 DEF TakeSpeak
    <3>4. Elements(<<>>) = {}
      BY EmptyList
    <3> QED BY <3>1, <3>2, <3>3, <3>4 DEF Known
  <2> QED BY <1>4, <2>1, <2>2, <2>3, SettingsFate DEF SPD_MESSAGE
<1>6. fault' # "none" => fault' = "assert" /\ "stopAll" \in Commands
  <2>1. ~ResumeOne
    BY DEF ResumeOne, Speakable, NoPause
  <2>2. CASE StopAll
    BY <2>2 DEF StopAll, Command, SettingsInv
  <2>3. CASE TakeSpeak
    <3>1. current # NoMessage => HasSettings(current.uid)
      <4>1. current # NoMessage => current \in Known
        BY DEF Known, TypeOK, SpeakingOK
      <4> QED BY <1>3, <4>1 DEF HasSettings
    <3> QED BY <2>3, <3>1 DEF TakeSpeak, ReleaseCurrent, SettingsInv, died
  <2>4. CASE UNCHANGED fault
    BY <2>4 DEF SettingsInv
  <2>5. StopAll \/ TakeSpeak \/ UNCHANGED fault
    <3>1. ASSUME NEW f \in Fds, Queue(f) \/ BlockBegin(f) \/ BlockEnd(f) \/ Connect(f)
                                \/ Disconnect(f) \/ \E p \in Prios : SetPriority(f, p)
          PROVE  UNCHANGED fault
      BY <3>1 DEF Queue, BlockBegin, BlockEnd, Connect, Disconnect, SetPriority, died
    <3>2. ASSUME NEW u, Stop(u) \/ Cancel(u) \/ Pause(u) PROVE UNCHANGED fault
      BY <3>2 DEF Stop, Cancel, Pause, died
    <3>3. ASSUME \/ \E n, U : Resume(n, U)
                 \/ CancelAll \/ PauseAll \/ CancelAllQueues \/ PausePost \/ ResumeClient
                 \/ ResumePost
          PROVE  UNCHANGED fault
      BY <3>3 DEF Resume, CancelAll, PauseAll, CancelAllQueues, PausePost, ResumeClient, ResumePost, died
    <3>4. ASSUME \/ PollWake \/ HandleBegin \/ HandleMark \/ HandleDone \/ HandlePaused
                 \/ HandleBroken \/ HandlePause \/ ClearPause \/ CheckSpeaking \/ ResumeEnd
                 \/ ResumeClear \/ TransferOne \/ TransferLast \/ TakeNothing \/ TakeFails
                 \/ ModuleStep \/ UNCHANGED vars
          PROVE  UNCHANGED fault
      BY <3>4 DEF PollWake, HandleBegin, HandleMark, HandleDone, HandlePaused, HandleBroken, Handle,
         HandlePause, ClearPause, CheckSpeaking, ResumeEnd, ResumeClear, TransferOne, TransferLast,
         TakeNothing, TakeFails, ModuleStep, EmitBegin, EmitMark, EmitTerminal, Emit, died, vars
    <3> QED BY <2>1, <3>1, <3>2, <3>3, <3>4 DEF Next, MainStep, MainGoesOn, SpeakStep
  <2> QED BY <2>2, <2>3, <2>4, <2>5
<1> QED BY <1>1, <1>2, <1>5, <1>6 DEF SettingsInv

(* The server starts without messages and without clients.                 *)
LEMMA SettingsInit ==
  ASSUME Init
  PROVE  NoGroups /\ NoProgress /\ SettingsInv
<1>1. Known = {}
  <2>1. \A p \in Priority : queue[p] = <<>>
    BY DEF Init
  <2>2. Elements(<<>>) = {}
    BY EmptyList
  <2>3. pausedList = <<>> /\ lastP5 = <<>> /\ current \notin Message
    BY DEF Init, NoMessage, Message, MsgId
  <2> QED BY <2>1, <2>2, <2>3 DEF Known
<1>2. NoGroups
  BY <1>1 DEF Init, NoGroups
<1>3. NoProgress
  BY DEF Init, NoProgress, NoSettings, SPD_PROGRESS
<1> QED BY <1>1, <1>2, <1>3 DEF Init, SettingsInv

(* Without PAUSE, and unless progress messages may come in blocks, the     *)
(* settings of a client outlive its messages, although it disconnects      *)
(* while they wait.                                                        *)
THEOREM SettingsCorrect ==
  ASSUME {"pause", "pauseAll"} \cap Commands = {}, SPD_PROGRESS \notin Prios \/ MaxBlocks = 0
  PROVE  Spec => []SettingsKept
<1> DEFINE Inv == BaseInv /\ NoPause /\ SettingsInv
<1>1. Init => Inv
  BY BaseStep, NoPauseInit, SettingsInit
<1>2. Inv /\ [Next]_vars => Inv'
  BY BaseStep, NoPauseStep, SettingsStep DEF BaseInv
<1>3. Inv => SettingsKept
  <2> SUFFICES ASSUME Inv PROVE SettingsKept
    OBVIOUS
  <2>1. ASSUME NEW m, \/ m \in Elements(pausedList) \/ m \in Elements(lastP5)
                       \/ \E p \in Priority : m \in Elements(queue[p])
        PROVE  HasSettings(m.uid)
    <3>1. m \in Message
      BY <2>1, ElementsType DEF BaseInv, TypeOK, ListsOK
    <3>2. m \in Known /\ m.uid \in Client
      BY <2>1, <3>1 DEF Known, Message
    <3> QED BY <3>2 DEF SettingsInv, HasSettings
  <2> QED BY <2>1 DEF SettingsKept
<1> QED BY <1>1, <1>2, <1>3, PTL DEF Spec

(* Under the same hypotheses, and without STOP ALL (whose assertion fails  *)
(* before the first message), the server does not die: speak() finds the   *)
(* settings of the message it frees, and frees nothing that it still uses. *)
THEOREM NoFaultCorrect ==
  ASSUME {"pause", "pauseAll", "stopAll"} \cap Commands = {}, SPD_PROGRESS \notin Prios \/ MaxBlocks = 0
  PROVE  Spec => []NoFault
<1> DEFINE Inv == BaseInv /\ NoPause /\ SettingsInv
<1>1. Init => Inv
  BY BaseStep, NoPauseInit, SettingsInit
<1>2. Inv /\ [Next]_vars => Inv'
  BY BaseStep, NoPauseStep, SettingsStep DEF BaseInv
<1>3. Inv => NoFault
  BY DEF SettingsInv, NoFault
<1> QED BY <1>1, <1>2, <1>3, PTL DEF Spec
-----------------------------------------------------------------------------
(* A module reports PAUSED only when it was asked to pause, and what it    *)
(* was asked to pause has been put aside before.                           *)
AsideInv ==
  /\ "paused" \in Elements(evq) => sess.pause
  /\ sess.pause => SPEAKING /\ sess.msg \in Elements(pausedList)
  /\ MayBreak = FALSE => "broken" \notin Elements(evq)
  /\ ~SPEAKING => sess.msg.id = 0

(* Asking the module to stop does not change what it was asked to speak or *)
(* to pause.                                                               *)
LEMMA StoppedKeeps ==
  ASSUME TypeOK
  PROVE  Stopped(sess).msg = sess.msg /\ Stopped(sess).pause = sess.pause
BY DEF TypeOK, OutputOK, Stopped, Session

(* Every step keeps a message that may be paused on the paused list.       *)
LEMMA AsideStep ==
  ASSUME TypeOK, ConnectedInv, SessionInv, AsideInv, [Next]_vars
  PROVE  AsideInv'
<1>1. evq \in Seq(Event) /\ sess \in Session /\ pausedList \in Seq(Message)
      /\ SPEAKING \in BOOLEAN
  BY DEF TypeOK, OutputOK, ListsOK, SpeakingOK
<1>2. ASSUME UNCHANGED <<SPEAKING, pausedList, evq>>, sess'.msg = sess.msg, sess'.pause = sess.pause
      PROVE  AsideInv'
  BY <1>2 DEF AsideInv
<1>3. ASSUME NEW s \in {sess, Stopped(sess)} PROVE s.msg = sess.msg /\ s.pause = sess.pause
  BY StoppedKeeps
<1>4. ASSUME NEW f \in Fds, Queue(f) PROVE AsideInv'
  <2>1. sess' \in {sess, Stopped(sess)} /\ UNCHANGED <<SPEAKING, pausedList, evq>>
    BY <1>4 DEF Queue, Enqueue, speaking
  <2> QED BY <1>2, <1>3, <2>1
<1>5. CASE \/ \E u \in 1 .. maxUid : Stop(u) \/ Cancel(u)
           \/ StopAll \/ CancelAll \/ CancelAllQueues
  <2>1. sess' \in {sess, Stopped(sess)} /\ UNCHANGED <<SPEAKING, pausedList, evq>>
    BY <1>5 DEF Stop, Cancel, StopClient, StopAll, CancelAll, CancelAllQueues, speaking, lists
  <2> QED BY <1>2, <1>3, <2>1
<1>6. ASSUME NEW e, Handle(e)
      PROVE  /\ SPEAKING /\ Elements(evq') \subseteq Elements(evq) /\ e \in Elements(evq)
             /\ pausedList' = pausedList
             /\ e \in Terminal => Elements(evq') = {}
  <2>1. evq # <<>> /\ evq' = Tail(evq) /\ Head(evq) = e /\ pausedList' = pausedList
    BY <1>6 DEF Handle, HasEvent, lists
  <2>2. Elements(evq) = {Head(evq)} \cup Elements(Tail(evq))
    BY <1>1, <2>1, ElementsType
  <2>3. SPEAKING
    BY <2>1 DEF SessionInv, SessionAgrees
  <2>4. e \in Terminal => evq' = <<>>
    BY <1>6, LastEventHandled DEF SessionInv
  <2> QED BY <2>1, <2>2, <2>3, <2>4, EmptyList
<1>7. CASE HandleBegin \/ HandleMark
  <2>1. UNCHANGED <<sess, pausedList>> /\ SPEAKING' /\ SPEAKING /\ Elements(evq') \subseteq Elements(evq)
    BY <1>6, <1>7 DEF HandleBegin, HandleMark
  <2> QED BY <2>1 DEF AsideInv
<1>8. CASE HandleDone \/ HandlePaused \/ HandleBroken
  <2>1. sess' = NoSession /\ Elements(evq') = {}
    BY <1>6, <1>8 DEF HandleDone, HandlePaused, HandleBroken, Terminal
  <2> QED BY <2>1 DEF AsideInv, NoSession, NoMessage
<1>9. CASE HandlePause
  <2>1. UNCHANGED <<SPEAKING, evq>>
    BY <1>9 DEF HandlePause, speaking
  <2>2. \/ UNCHANGED <<sess, pausedList>>
        \/ /\ SPEAKING /\ current # NoMessage
           /\ sess' \in {sess, [sess EXCEPT !.pause = TRUE]} /\ pausedList' = PutAside(current)
    BY <1>9 DEF HandlePause, Paused
  <2>3. CASE UNCHANGED <<sess, pausedList>>
    BY <1>2, <2>1, <2>3
  <2>4. CASE SPEAKING /\ current # NoMessage /\ pausedList' = PutAside(current)
             /\ sess' \in {sess, [sess EXCEPT !.pause = TRUE]}
    <3>1. sess'.msg = sess.msg /\ (sess.pause => sess'.pause)
      BY <1>1, <2>4 DEF Session
    <3>2. current = sess.msg /\ current \in Message
      BY <2>4 DEF SessionInv, SessionAgrees, TypeOK, SpeakingOK
    <3>3. Elements(Append(pausedList, current)) = Elements(pausedList) \cup {current}
      BY <1>1, ElementsType
    <3>4. current \in Elements(pausedList')
      BY <2>4, <3>3 DEF PutAside
    <3> QED BY <2>1, <2>4, <3>1, <3>2, <3>4 DEF AsideInv
  <2> QED BY <2>2, <2>3, <2>4
<1>10. CASE ResumeOne
  <2>1. ~SPEAKING /\ evq = <<>>
    BY <1>10 DEF ResumeOne, SessionInv, SessionAgrees, Silent
  <2>2. UNCHANGED <<SPEAKING, evq>> /\ sess' \in {sess, Stopped(sess)}
    BY <1>10 DEF ResumeOne, Enqueue
  <2>3. Elements(evq) = {}
    BY <2>1, EmptyList
  <2> QED BY <1>3, <2>1, <2>2, <2>3 DEF AsideInv
<1>11. CASE TakeSpeak
  <2>1. ~SPEAKING /\ evq = <<>> /\ evq' = evq
    BY <1>11 DEF TakeSpeak, TakeNext, Taking, SessionInv, SessionAgrees, Silent
  <2>2. sess'.pause = FALSE /\ SPEAKING'
    BY <1>11 DEF TakeSpeak
  <2> QED BY <2>1, <2>2, EmptyList DEF AsideInv
<1>12. CASE ModuleStep
  <2>1. UNCHANGED <<SPEAKING, pausedList>>
    BY <1>12 DEF ModuleStep, EmitBegin, EmitMark, EmitTerminal, Emit, speaking, lists
  <2>2. PICK e : /\ evq' = Append(evq, e) /\ (e = "paused" => sess.pause)
                 /\ (MayBreak = FALSE => e # "broken")
                 /\ sess' = sess \/ \E x : sess' = [sess EXCEPT !.state = x]
    BY <1>12 DEF ModuleStep, EmitBegin, EmitMark, EmitTerminal, Emit
  <2>3. sess'.msg = sess.msg /\ sess'.pause = sess.pause
    BY <1>1, <2>2 DEF Session
  <2>4. Elements(evq') = Elements(evq) \cup {e}
    BY <1>1, <2>2, ElementsType
  <2> QED BY <2>1, <2>2, <2>3, <2>4 DEF AsideInv
<1>13. CASE UNCHANGED <<SPEAKING, pausedList, evq, sess>>
  BY <1>2, <1>13
<1>14. ASSUME NEW f \in Fds, \/ Connect(f) \/ Disconnect(f) \/ BlockBegin(f) \/ BlockEnd(f)
                             \/ \E p \in Prios : SetPriority(f, p)
       PROVE  UNCHANGED <<SPEAKING, pausedList, evq, sess>>
  BY <1>14 DEF Connect, Disconnect, BlockBegin, BlockEnd, SetPriority, lists, speaking, output
<1>15. CASE \/ (\E u : Pause(u)) \/ (\E n, U : Resume(n, U)) \/ PauseAll \/ PausePost \/ ResumeClient
            \/ ResumePost \/ PollWake \/ ClearPause \/ CheckSpeaking \/ ResumeEnd \/ ResumeClear
            \/ TransferOne \/ TransferLast \/ TakeNothing \/ TakeFails \/ UNCHANGED vars
  BY <1>13, <1>15 DEF Pause, Resume, PauseAll, PausePost, ResumeClient, ResumePost, PollWake, ClearPause,
     CheckSpeaking, ResumeEnd, ResumeClear, TransferOne, TransferLast, TakeNothing, TakeFails, vars, lists,
     speaking, output
<1> QED BY <1>4, <1>5, <1>7, <1>8, <1>9, <1>10, <1>11, <1>12, <1>13, <1>14, <1>15
        DEF Next, MainStep, MainGoesOn, SpeakStep

(* What keeps the message i from being lost: its client was told, or a     *)
(* list holds it, or it is being spoken.                                   *)
Told(i)   == life[i] \in {"end", "cancel"}
Queued(i) == \E p \in Priority : \E m \in Elements(queue[p]) : m.id = i
Aside(i)  == \E m \in Elements(pausedList) : m.id = i
Held(i)   == Told(i) \/ sess.msg.id = i \/ Queued(i) \/ Aside(i)
LostInv   == fault = "none" => \A i \in 1 .. lastId : Held(i)

(* A message that arrives outside of blocks takes no other away silently.  *)
LEMMA EnqueueKeeps ==
  ASSUME TypeOK, NEW m \in Message, NEW p \in Priority, NEW obj, Enqueue(m, p, obj), m.gid = 0,
         NEW i \in MsgId, Told(i) \/ Queued(i) \/ m.id = i
  PROVE  Told(i)' \/ Queued(i)'
<1>1. PICK D :
        /\ Tell(D, "cancel")
        /\ \A r \in Priority : \A x \in Arrived(m, p, r) :
             x \in Elements(queue'[r]) \/ x \in D \/ m.gid > 0
  BY EnqueueTells
<1>2. life'[i] = IF \E x \in D : x.id = i THEN "cancel" ELSE life[i]
  BY <1>1 DEF Tell
<1>3. CASE Told(i)
  BY <1>2, <1>3 DEF Told
<1>4. CASE Queued(i) \/ m.id = i
  <2>1. PICK r \in Priority : \E x \in Arrived(m, p, r) : x.id = i
    BY <1>4 DEF Queued, Arrived
  <2>2. PICK x \in Arrived(m, p, r) : x.id = i
    BY <2>1
  <2>3. x \in Elements(queue'[r]) \/ x \in D
    BY <1>1, <2>2
  <2> QED BY <1>2, <2>2, <2>3 DEF Told, Queued
<1> QED BY <1>3, <1>4

(* STOP drops nothing where there are no blocks.                           *)
LEMMA StopKeeps ==
  ASSUME TypeOK, SessionInv, NoGroups
  PROVE  /\ \A u : \A p \in Priority : Elements(queue[p]) \subseteq Elements(AfterStop(u)[p])
         /\ StopAll /\ fault' = "none" =>
              \A p \in Priority : Elements(queue[p]) \subseteq Elements(queue'[p])
<1>1. queue \in [Priority -> Seq(Message)] /\ highest \in 0 .. SPD_PROGRESS
  BY DEF TypeOK, ListsOK, SpeakingOK
<1>2. \A p \in Priority : \A x \in Elements(queue[p]) : x.gid = 0
  BY <1>1, ElementsType DEF NoGroups, Known
<1>3. ASSUME NEW p \in Priority, NEW D, \A x \in Elements(queue[p]) : x \notin D
      PROVE  Elements(queue[p]) \subseteq Elements(DropTrailing(queue[p], D))
  <2>1. queue[p] \in Seq(Message)
    BY <1>1
  <2>2. Elements(queue[p]) \ D \subseteq Elements(DropTrailing(queue[p], D))
    BY <2>1, DropTrailingKeeps
  <2> QED BY <1>3, <2>2
<1>4. ASSUME NEW u, NEW p \in Priority
      PROVE  Elements(queue[p]) \subseteq Elements(AfterStop(u)[p])
  <2>1. CASE Speaks(u)
    <3>1. highest \in Priority
      BY <1>1, <2>1 DEF Speaks, SessionInv, SessionAgrees, Priority, SPD_IMPORTANT, SPD_PROGRESS
    <3>2. queue[highest] # <<>> => LastOf(queue[highest]).gid = 0
      BY <1>1, <1>2, <3>1, ElementsType
    <3>3. BlockOf(u) = {}
      BY <3>2 DEF BlockOf
    <3>4. AfterStop(u)[p] = IF p = highest THEN DropTrailing(queue[p], BlockOf(u)) ELSE queue[p]
      BY <1>1, <2>1 DEF AfterStop
    <3> QED BY <1>3, <3>3, <3>4
  <2>2. CASE ~Speaks(u)
    BY <2>2 DEF AfterStop
  <2> QED BY <2>1, <2>2
<1>5. ASSUME StopAll, fault' = "none", NEW p \in Priority
      PROVE  Elements(queue[p]) \subseteq Elements(queue'[p])
  <2>1. queue' = [queue EXCEPT ![highest] = DropTrailing(@, {m \in Elements(@) : m.gid = 1})]
    BY <1>5 DEF StopAll
  <2> DEFINE D == {m \in Elements(queue[highest]) : m.gid = 1}
  <2>2. queue'[p] = IF p = highest THEN DropTrailing(queue[p], D) ELSE queue[p]
    BY <1>1, <2>1
  <2>3. p = highest => \A x \in Elements(queue[p]) : x \notin D
    BY <1>2
  <2> HIDE DEF D
  <2> QED BY <1>3, <2>2, <2>3
<1> QED BY <1>4, <1>5

(* No step loses a message.                                                *)
LEMMA LostStep ==
  ASSUME MaxBlocks = 0, MayFail = FALSE, MayBreak = FALSE,
         NumberInv, NoGroups, AsideInv, LostInv, [Next]_vars
  PROVE  LostInv'
<1> USE SpeakingAssumption DEF NumberInv, BaseInv
<1> SUFFICES ASSUME fault' = "none", NEW i \in 1 .. lastId' PROVE Held(i)'
  BY DEF LostInv
<1>1. /\ queue \in [Priority -> Seq(Message)] /\ pausedList \in Seq(Message) /\ lastId \in Nat
      /\ sess \in Session
  BY DEF TypeOK, ListsOK, ObjectsOK, OutputOK
<1>2. i \in MsgId
  <2>1. lastId' \in 0 .. MaxMessages
    BY TypeStep DEF TypeOK, ObjectsOK
  <2> QED BY <2>1 DEF MsgId
<1>3. fault = "none"
  BY DEF Next, vars, died
<1>4. lastId' = lastId => Held(i)
  BY <1>3 DEF LostInv
<1>5. ASSUME NEW D, NEW e \in {"end", "cancel"}, Tell(D, e)
      PROVE  /\ Told(i) => Told(i)'
             /\ (\E x \in D : x.id = i) => Told(i)'
  BY <1>2, <1>5 DEF Tell, Told
<1>6. ASSUME NEW f \in Fds, Queue(f) PROVE Held(i)'
  <2>1. PICK m \in Message :
          /\ m = [id |-> lastId + 1, obj |-> lastObj + 1, uid |-> fdUid[f],
                  fd |-> f, gid |-> inside[f]]
          /\ settings[fdUid[f]].priority \in Priority
          /\ Enqueue(m, settings[fdUid[f]].priority, lastObj + 2)
    BY <1>6, Queues
  <2>2. /\ lastId' = lastId + 1 /\ pausedList' = pausedList /\ sess' \in {sess, Stopped(sess)}
        /\ m.id = lastId + 1 /\ m.gid = 0
    BY <1>6, <2>1 DEF Queue, Enqueue, NoGroups
  <2>3. i = m.id \/ Held(i)
    BY <1>1, <1>3, <2>2 DEF LostInv
  <2>4. sess'.msg = sess.msg
    BY <2>2, StoppedKeeps
  <2>5. CASE Told(i) \/ Queued(i) \/ m.id = i
    BY <1>2, <2>1, <2>2, <2>5, EnqueueKeeps DEF Held
  <2>6. CASE sess.msg.id = i \/ Aside(i)
    BY <2>2, <2>4, <2>6 DEF Held, Aside
  <2> QED BY <2>3, <2>5, <2>6 DEF Held
<1>7. CASE ResumeOne
  <2>1. PICK m \in Message :
          /\ m \in Elements(pausedList) /\ [m EXCEPT !.gid = 0] \in Message
          /\ Elements(pausedList') = Elements(pausedList) \ {m}
          /\ \E p \in Priority : Enqueue([m EXCEPT !.gid = 0], p, lastObj + 1)
    BY <1>7, ResumeElements
  <2>2. lastId' = lastId /\ ~SPEAKING
    BY <1>7 DEF ResumeOne, SessionInv, Silent
  <2>3. [m EXCEPT !.gid = 0].id = m.id /\ [m EXCEPT !.gid = 0].gid = 0
    BY DEF Message
  <2>4. sess.msg.id # i
    BY <1>1, <1>2, <2>2 DEF AsideInv, MsgId
  <2>5. CASE Told(i) \/ Queued(i) \/ m.id = i
    <3> DEFINE m0 == [m EXCEPT !.gid = 0]
    <3>1. m0 \in Message /\ m0.id = m.id /\ m0.gid = 0 /\ \E p \in Priority : Enqueue(m0, p, lastObj + 1)
      BY <2>1, <2>3
    <3> HIDE DEF m0
    <3> QED BY <1>2, <2>5, <3>1, EnqueueKeeps DEF Held
  <2>6. CASE Aside(i) /\ m.id # i
    BY <2>1, <2>6 DEF Held, Aside
  <2> QED BY <1>4, <2>2, <2>4, <2>5, <2>6 DEF Held
<1>8. ASSUME NEW u \in 1 .. maxUid, Stop(u) PROVE Held(i)'
  <2>1. /\ lastId' = lastId /\ pausedList' = pausedList /\ life' = life
        /\ sess' \in {sess, Stopped(sess)} /\ queue' = AfterStop(u)
    BY <1>8 DEF Stop, StopClient, objects
  <2>2. sess'.msg = sess.msg /\ \A p \in Priority : Elements(queue[p]) \subseteq Elements(queue'[p])
    BY <2>1, StoppedKeeps, StopKeeps
  <2> QED BY <1>4, <2>1, <2>2 DEF Held, Told, Queued, Aside
<1>9. CASE StopAll
  <2>1. /\ lastId' = lastId /\ pausedList' = pausedList /\ life' = life /\ sess' = Stopped(sess)
    BY <1>9 DEF StopAll, objects
  <2>2. sess'.msg = sess.msg /\ \A p \in Priority : Elements(queue[p]) \subseteq Elements(queue'[p])
    BY <1>9, <2>1, StoppedKeeps, StopKeeps
  <2> QED BY <1>4, <2>1, <2>2 DEF Held, Told, Queued, Aside
<1>10. ASSUME NEW u \in 1 .. maxUid, Cancel(u) PROVE Held(i)'
  <2>1. PICK D : /\ lastId' = lastId /\ pausedList' = pausedList /\ Tell(D, "cancel")
                 /\ sess' \in {sess, Stopped(sess)}
                 /\ queue' = [p \in Priority |-> Without(AfterStop(u)[p], D)]
    BY <1>10 DEF Cancel, StopClient, objects
  <2>2. AfterStop(u) \in [Priority -> Seq(Message)]
    BY AfterStopType
  <2>3. ASSUME NEW p \in Priority, NEW x \in Elements(queue[p])
        PROVE  x \in Elements(queue'[p]) \/ x \in D
    <3>1. x \in Elements(AfterStop(u)[p]) /\ AfterStop(u)[p] \in Seq(Message)
      BY <2>2, StopKeeps
    <3>2. Elements(Without(AfterStop(u)[p], D)) = Elements(AfterStop(u)[p]) \ D
      BY <3>1, WithoutType
    <3> QED BY <2>1, <3>1, <3>2
  <2>4. sess'.msg = sess.msg
    BY <2>1, StoppedKeeps
  <2> QED BY <1>4, <1>5, <2>1, <2>3, <2>4 DEF Held, Queued, Aside
<1>11. CASE CancelAllQueues
  <2>1. PICK D : /\ lastId' = lastId /\ pausedList' = pausedList /\ Tell(D, "cancel")
                 /\ sess' \in {sess, Stopped(sess)}
                 /\ \A p \in Priority : Elements(queue[p]) \subseteq D
    BY <1>11 DEF CancelAllQueues, objects
  <2>2. sess'.msg = sess.msg
    BY <2>1, StoppedKeeps
  <2> QED BY <1>4, <1>5, <2>1, <2>2 DEF Held, Queued, Aside
<1>12. ASSUME NEW e, Handle(e)
       PROVE  /\ SPEAKING /\ current = sess.msg /\ e \in Elements(evq)
              /\ lastId' = lastId /\ queue' = queue /\ pausedList' = pausedList
  <2>1. evq # <<>> /\ Head(evq) = e /\ lastId' = lastId /\ queue' = queue /\ pausedList' = pausedList
    BY <1>12 DEF Handle, HasEvent, lists
  <2>2. Elements(evq) = {Head(evq)} \cup Elements(Tail(evq))
    BY <2>1, ElementsType DEF TypeOK, OutputOK
  <2> QED BY <2>1, <2>2 DEF SessionInv, SessionAgrees
<1>13. CASE HandleBegin \/ HandleMark
  <2>1. sess' = sess /\ (life' = life \/ \E e : Tell({current}, e))
    BY <1>13 DEF HandleBegin, HandleMark
  <2>2. sess.msg.id # i => life'[i] = life[i]
    BY <1>2, <1>12, <1>13, <2>1 DEF Tell, HandleBegin, HandleMark
  <2> QED BY <1>4, <1>12, <1>13, <2>1, <2>2 DEF Held, Told, Queued, Aside, HandleBegin, HandleMark
<1>14. CASE HandleDone
  <2>1. PICK e \in {"end", "cancel"} : Tell({current}, e)
    BY <1>14 DEF HandleDone
  <2>2. /\ current = sess.msg /\ lastId' = lastId /\ queue' = queue /\ pausedList' = pausedList
    BY <1>12, <1>14 DEF HandleDone
  <2> QED BY <1>4, <1>5, <2>1, <2>2 DEF Held, Queued, Aside
<1>15. CASE HandlePaused
  <2>1. /\ current = sess.msg /\ lastId' = lastId /\ queue' = queue /\ pausedList' = pausedList
        /\ "paused" \in Elements(evq)
    BY <1>12, <1>15 DEF HandlePaused
  <2>2. sess.msg \in Elements(pausedList)
    BY <2>1 DEF AsideInv
  <2>3. sess.msg.id # i => life'[i] = life[i]
    BY <1>2, <1>15, <2>1 DEF Tell, HandlePaused
  <2> QED BY <1>4, <2>1, <2>2, <2>3 DEF Held, Told, Queued, Aside
<1>16. ~HandleBroken /\ ~TakeFails
  BY <1>12 DEF HandleBroken, AsideInv, TakeFails
<1>17. CASE HandlePause
  <2>1. /\ lastId' = lastId /\ queue' = queue /\ life' = life /\ sess' \in {sess, Paused(sess)}
        /\ pausedList' \in {pausedList, Append(pausedList, current)}
    BY <1>17 DEF HandlePause, PutAside
  <2>2. sess'.msg = sess.msg
    BY <2>1, AskedType
  <2>3. Elements(Append(pausedList, current)) = Elements(pausedList) \cup {current}
    BY <1>1, ElementsType
  <2>4. Elements(pausedList) \subseteq Elements(pausedList')
    BY <2>1, <2>3
  <2> QED BY <1>4, <2>1, <2>2, <2>4 DEF Held, Told, Queued, Aside
<1>18. CASE TransferOne \/ TransferLast
  <2>1. SPD_MESSAGE \in Priority
    BY DEF Priority, SPD_IMPORTANT, SPD_MESSAGE, SPD_PROGRESS
  <2>2. lastId' = lastId /\ pausedList' = pausedList /\ sess' = sess
    BY <1>18 DEF TransferOne, TransferLast, objects, output
  <2>3. CASE TransferOne
    <3>1. \A p \in Priority : Elements(queue[p]) \subseteq Elements(queue'[p])
      <4>1. \A p \in Priority : p # SPD_MESSAGE => queue'[p] = queue[p]
        BY <1>1, <2>3 DEF TransferOne
      <4>2. Elements(queue[SPD_MESSAGE]) \subseteq Elements(queue'[SPD_MESSAGE])
        BY <1>18, <2>1, TransferElements
      <4> QED BY <4>1, <4>2
    <3>2. life' = life
      BY <2>3 DEF TransferOne
    <3> QED BY <1>4, <2>2, <3>1, <3>2 DEF Held, Told, Queued, Aside
  <2>4. CASE TransferLast
    <3>1. PICK D :
            /\ Tell(D \cup Elements(queue[SPD_NOTIFICATION]), "cancel")
            /\ queue' = [queue EXCEPT ![SPD_MESSAGE] = InsertById(@, LastOf(lastP5)),
                                      ![SPD_TEXT] = Without(@, D), ![SPD_NOTIFICATION] = <<>>]
      BY <2>4 DEF TransferLast
    <3>2. ASSUME NEW p \in Priority, NEW x \in Elements(queue[p])
          PROVE  x \in Elements(queue'[p]) \/ x \in D \cup Elements(queue[SPD_NOTIFICATION])
      <4>1. CASE p = SPD_MESSAGE
        BY <1>18, <4>1, TransferElements
      <4>2. CASE p = SPD_TEXT
        <5>1. queue[p] \in Seq(Message) /\ queue'[p] = Without(queue[p], D)
          BY <1>1, <3>1, <4>2 DEF SPD_MESSAGE, SPD_TEXT, SPD_NOTIFICATION
        <5>2. Elements(queue'[p]) = Elements(queue[p]) \ D
          BY <5>1, WithoutType
        <5> QED BY <5>2
      <4>3. CASE p \notin {SPD_MESSAGE, SPD_TEXT, SPD_NOTIFICATION}
        BY <1>1, <3>1, <4>3
      <4> QED BY <4>1, <4>2, <4>3
    <3> QED BY <1>4, <1>5, <2>2, <3>1, <3>2 DEF Held, Queued, Aside
  <2> QED BY <1>18, <2>3, <2>4
<1>19. CASE TakeSpeak
  <2>1. /\ lastId' = lastId /\ pausedList' = pausedList /\ life' = life /\ sess'.msg = Next1 /\ ~SPEAKING
    BY <1>19 DEF TakeSpeak, TakeNext, Taking, objects, SessionInv, Silent
  <2>2. \A p \in Priority : Elements(queue[p]) \subseteq Elements(queue'[p]) \cup {Next1}
    BY <1>19, TakenLeaves DEF TakeSpeak
  <2>3. sess.msg.id # i
    BY <1>2, <2>1 DEF AsideInv, MsgId
  <2>4. CASE Queued(i)
    BY <2>1, <2>2, <2>4 DEF Held, Queued
  <2> QED BY <1>4, <2>1, <2>3, <2>4 DEF Held, Told, Aside
<1>20. CASE UNCHANGED <<lastId, queue, pausedList, life>> /\ sess'.msg = sess.msg
  BY <1>4, <1>20 DEF Held, Told, Queued, Aside
<1>21. ASSUME NEW f \in Fds, \/ Connect(f) \/ Disconnect(f) \/ BlockBegin(f) \/ BlockEnd(f)
                             \/ \E p \in Prios : SetPriority(f, p)
       PROVE  Held(i)'
  BY <1>20, <1>21 DEF Connect, Disconnect, BlockBegin, BlockEnd, SetPriority, lists, objects, output
<1>22. CASE \/ (\E u : Pause(u)) \/ (\E n, U : Resume(n, U)) \/ PauseAll \/ PausePost \/ ResumeClient
            \/ ResumePost \/ PollWake \/ ClearPause \/ CheckSpeaking \/ ResumeEnd \/ ResumeClear
            \/ TakeNothing \/ UNCHANGED vars
  BY <1>20, <1>22 DEF Pause, Resume, PauseAll, PausePost, ResumeClient, ResumePost, PollWake, ClearPause,
     CheckSpeaking, ResumeEnd, ResumeClear, TakeNothing, vars, lists, objects, output
<1>23. CASE CancelAll
  BY <1>20, <1>23, StoppedKeeps DEF CancelAll, lists, objects
<1>24. CASE ModuleStep
  <2>1. UNCHANGED <<lastId, queue, pausedList, life>>
    BY <1>24 DEF ModuleStep, EmitBegin, EmitMark, EmitTerminal, Emit, lists, objects
  <2>2. sess' = sess \/ \E x : sess' = [sess EXCEPT !.state = x]
    BY <1>24 DEF ModuleStep, EmitBegin, EmitMark, EmitTerminal
  <2>3. sess'.msg = sess.msg
    BY <1>1, <2>2 DEF Session
  <2> QED BY <1>20, <2>1, <2>3
<1> QED BY <1>6, <1>7, <1>8, <1>9, <1>10, <1>11, <1>13, <1>14, <1>15, <1>16, <1>17, <1>18, <1>19,
           <1>20, <1>21, <1>22, <1>23, <1>24
        DEF Next, MainStep, MainGoesOn, SpeakStep

(* Where there are no blocks and no module fails, no message vanishes      *)
(* without an event, whatever is queued, stopped, cancelled, paused and    *)
(* resumed: what was queued and neither ended nor was cancelled is in a    *)
(* list or being spoken.                                                   *)
THEOREM NothingLostCorrect ==
  ASSUME MaxBlocks = 0, MayFail = FALSE, MayBreak = FALSE
  PROVE  Spec => []NothingLost
<1> DEFINE Inv == NumberInv /\ NoGroups /\ AsideInv /\ LostInv
<1>1. Init => Inv
  <2>1. Init => AsideInv
    BY EmptyList DEF Init, AsideInv, NoSession, NoMessage
  <2>2. Init => LostInv
    BY DEF Init, LostInv
  <2> QED BY <2>1, <2>2, NumberInvariant, SettingsInit
<1>2. Inv /\ [Next]_vars => Inv'
  BY NumberInvariant, NoGroupsStep, AsideStep, LostStep DEF NumberInv, BaseInv
<1>3. Inv => NothingLost
  BY DEF LostInv, NothingLost, Held, Told, Queued, Aside
<1> QED BY <1>1, <1>2, <1>3, PTL DEF Spec
-----------------------------------------------------------------------------
(* The numbers of the messages that wait: q are the queues, l5 the         *)
(* postponed progress messages, which are of one block, and of which the   *)
(* originals may still be in the queue of progress messages.               *)
Apart(q, l5) ==
  /\ \A p, r \in Priority : \A x \in Elements(q[p]), y \in Elements(q[r]) :
       x.id = y.id => x = y /\ p = r
  /\ \A x, y \in Elements(l5) : x.gid = y.gid /\ (x.id = y.id => x = y)
  /\ \A x \in Elements(l5), p \in Priority : \A y \in Elements(q[p]) :
       x.id = y.id => p = SPD_PROGRESS /\ x.gid = y.gid
Waits(x) == x \in Elements(lastP5) \/ \E p \in Priority : x \in Elements(queue[p])
ApartInv ==
  /\ Apart(queue, lastP5)
  /\ SPEAKING => \A x \in Message : Waits(x) => x.id # current.id

(* Only speak() takes another message, when nothing is spoken.             *)
LEMMA SpeakingStays ==
  ASSUME SessionInv, [Next]_vars, ~TakeSpeak, SPEAKING'
  PROVE  SPEAKING /\ (current' = current \/ ResumeOne)
<1>1. ASSUME NEW f \in Fds, \/ Connect(f) \/ Disconnect(f) \/ BlockBegin(f) \/ BlockEnd(f) \/ Queue(f)
                            \/ \E p \in Prios : SetPriority(f, p)
      PROVE  UNCHANGED <<SPEAKING, current>>
  BY <1>1 DEF Connect, Disconnect, BlockBegin, BlockEnd, Queue, SetPriority, speaking
<1>2. CASE \/ (\E u : Stop(u) \/ Cancel(u) \/ Pause(u)) \/ (\E n, U : Resume(n, U)) \/ StopAll \/ CancelAll
           \/ PauseAll \/ CancelAllQueues \/ PausePost \/ ResumeClient \/ ResumePost
  BY <1>2 DEF Stop, Cancel, Pause, Resume, StopAll, CancelAll, PauseAll, CancelAllQueues, PausePost,
              ResumeClient, ResumePost, speaking
<1>3. CASE HandleBegin \/ HandleMark \/ HandleDone \/ HandlePaused \/ HandleBroken
  BY <1>3 DEF HandleBegin, HandleMark, HandleDone, HandlePaused, HandleBroken, Handle, HasEvent, SessionInv,
              SessionAgrees
<1>4. CASE PollWake \/ HandlePause \/ ClearPause \/ CheckSpeaking \/ ResumeEnd \/ ResumeClear \/ TransferOne
           \/ TransferLast \/ TakeNothing \/ TakeFails \/ ModuleStep \/ UNCHANGED vars
  BY <1>4 DEF PollWake, HandlePause, ClearPause, CheckSpeaking, ResumeEnd, ResumeClear, TransferOne,
              TransferLast, TakeNothing, TakeFails, ModuleStep, EmitBegin, EmitMark, EmitTerminal, Emit, vars,
              speaking
<1>5. CASE ResumeOne
  BY <1>5 DEF ResumeOne
<1> QED BY <1>1, <1>2, <1>3, <1>4, <1>5 DEF Next, MainStep, MainGoesOn, SpeakStep

(* Every step keeps the numbers of the messages that wait apart.           *)
LEMMA ApartStep ==
  ASSUME NumberInv, NoPause, ApartInv, [Next]_vars
  PROVE  ApartInv'
<1> USE SpeakingAssumption DEF NumberInv, BaseInv
<1>1. /\ queue \in [Priority -> Seq(Message)] /\ lastP5 \in Seq(Message) /\ lastId \in Nat
      /\ \A p \in Priority : Elements(queue[p]) \subseteq Message
      /\ Elements(lastP5) \subseteq Message
  BY ElementsType DEF TypeOK, ListsOK, ObjectsOK
<1>2. \A x \in Message : Waits(x) => x.id <= lastId /\ x.id \in Nat
  BY DEF Waits, IdsInv, Known, Message, MsgId
<1>3. ~ResumeOne
  BY DEF ResumeOne, Speakable, NoPause
<1>4. current.id <= lastId /\ current.id \in Nat
  <2>1. current # NoMessage => current \in Known /\ current.id \in Nat
    BY DEF TypeOK, SpeakingOK, Known, Message, MsgId
  <2> QED BY <1>1, <2>1 DEF IdsInv, NoMessage
<1>5. ASSUME \A p \in Priority : Elements(queue'[p]) \subseteq Elements(queue[p]),
             Elements(lastP5') \subseteq Elements(lastP5), ~TakeSpeak
      PROVE  ApartInv'
  <2>1. Apart(queue', lastP5')
    BY <1>5 DEF ApartInv, Apart
  <2>2. \A x \in Message : Waits(x)' => Waits(x)
    BY <1>5 DEF Waits
  <2>3. SPEAKING' => SPEAKING /\ current' = current
    BY <1>3, <1>5, SpeakingStays
  <2> QED BY <2>1, <2>2, <2>3 DEF ApartInv
<1>6. ASSUME NEW f \in Fds, Queue(f) PROVE ApartInv'
  <2>1. PICK m \in Message :
          /\ m = [id |-> lastId + 1, obj |-> lastObj + 1, uid |-> fdUid[f],
                  fd |-> f, gid |-> inside[f]]
          /\ settings[fdUid[f]].priority \in Priority
          /\ Enqueue(m, settings[fdUid[f]].priority, lastObj + 2)
    BY <1>6, Queues
  <2> DEFINE p == settings[fdUid[f]].priority
             c == Copy(m, lastObj + 2)
  <2>2. p \in Priority /\ Enqueue(m, p, lastObj + 2) /\ m.id = lastId + 1
    BY <2>1
  <2> HIDE DEF p
  <2>3. \A r \in Priority : /\ r # p => Elements(queue'[r]) \subseteq Elements(queue[r])
                            /\ r = p => Elements(queue'[r]) \subseteq Elements(queue[r]) \cup {m}
    BY <2>2, EnqueueElements
  <2>4. c \in Message /\ c.id = m.id /\ c.gid = m.gid
    <3>1. lastObj + 2 \in Nat \ {0}
      BY DEF TypeOK, ObjectsOK
    <3> QED BY <3>1, CopyType DEF Copy, Message
  <2> HIDE DEF c
  <2>5. \/ lastP5' = lastP5
        \/ p = SPD_PROGRESS /\ Elements(lastP5') = {c}
        \/ /\ p = SPD_PROGRESS /\ Elements(lastP5') = Elements(lastP5) \cup {c}
           /\ \A x \in Elements(lastP5) : x.gid = m.gid
    <3>1. \/ lastP5' = lastP5
          \/ p = SPD_PROGRESS /\ lastP5' = <<c>>
          \/ /\ p = SPD_PROGRESS /\ lastP5' = Append(lastP5, c)
             /\ lastP5 # <<>> /\ LastOf(lastP5).gid = m.gid
      BY <2>2 DEF Enqueue, c
    <3>2. /\ Elements(<<c>>) = {c}
          /\ Elements(Append(lastP5, c)) = Elements(lastP5) \cup {c}
      <4>1. Elements(<<c>>) = {c}
        BY DEF Elements
      <4>2. Elements(Append(lastP5, c)) = Elements(lastP5) \cup {c}
        BY <1>1, <2>4, ElementsType
      <4> QED BY <4>1, <4>2
    <3>3. lastP5 # <<>> => LastOf(lastP5) \in Elements(lastP5)
      BY <1>1, ElementsType
    <3>4. lastP5 # <<>> /\ LastOf(lastP5).gid = m.gid => \A x \in Elements(lastP5) : x.gid = m.gid
      BY <3>3 DEF ApartInv, Apart
    <3> QED BY <3>1, <3>2, <3>4
  <2>6. \A r \in Priority : \A x \in Elements(queue[r]) : x.id # m.id
    BY <1>1, <1>2, <2>2 DEF Waits
  <2>7. \A x \in Elements(lastP5) : x.id # m.id
    BY <1>1, <1>2, <2>2 DEF Waits
  <2>7a. \A r \in Priority : \A x \in Elements(queue'[r]) : x \in Elements(queue[r]) \/ (x = m /\ r = p)
    <3> SUFFICES ASSUME NEW r \in Priority, NEW x \in Elements(queue'[r])
                 PROVE  x \in Elements(queue[r]) \/ (x = m /\ r = p)
      OBVIOUS
    <3>1. CASE r = p
      BY <2>3, <3>1
    <3>2. CASE r # p
      BY <2>3, <3>2
    <3> QED BY <3>1, <3>2
  <2>8. \A r, s \in Priority : \A x \in Elements(queue'[r]), y \in Elements(queue'[s]) :
          x.id = y.id => x = y /\ r = s
    <3> SUFFICES ASSUME NEW r \in Priority, NEW s \in Priority, NEW x \in Elements(queue'[r]),
                        NEW y \in Elements(queue'[s]), x.id = y.id
                 PROVE  x = y /\ r = s
      OBVIOUS
    <3>1. CASE x \in Elements(queue[r]) /\ y \in Elements(queue[s])
      BY <3>1 DEF ApartInv, Apart
    <3>2. CASE (x = m /\ r = p) \/ (y = m /\ s = p)
      BY <2>6, <2>7a, <3>2
    <3> QED BY <2>7a, <3>1, <3>2
  <2>9. \A x, y \in Elements(lastP5') : x.gid = y.gid /\ (x.id = y.id => x = y)
    <3>1. \A x, y \in Elements(lastP5) : x.gid = y.gid /\ (x.id = y.id => x = y)
      BY DEF ApartInv, Apart
    <3> QED BY <2>4, <2>5, <2>7, <3>1
  <2>10. \A x \in Elements(lastP5'), r \in Priority : \A y \in Elements(queue'[r]) :
           x.id = y.id => r = SPD_PROGRESS /\ x.gid = y.gid
    <3> SUFFICES ASSUME NEW x \in Elements(lastP5'), NEW r \in Priority, NEW y \in Elements(queue'[r]),
                        x.id = y.id
                 PROVE  r = SPD_PROGRESS /\ x.gid = y.gid
      OBVIOUS
    <3>1. CASE x \in Elements(lastP5)
      <4>1. y \in Elements(queue[r])
        BY <2>7, <2>7a, <3>1
      <4> QED BY <3>1, <4>1 DEF ApartInv, Apart
    <3>2. CASE x = c /\ p = SPD_PROGRESS
      <4>1. y = m /\ r = p
        BY <2>4, <2>6, <2>7a, <3>2
      <4> QED BY <2>4, <3>2, <4>1
    <3> QED BY <2>5, <3>1, <3>2
  <2>11. SPEAKING' = SPEAKING /\ current' = current
    BY <1>6 DEF Queue, speaking
  <2>12. \A x \in Message : Waits(x)' => Waits(x) \/ x.id = lastId + 1
    <3>1. \A x : x \in Elements(lastP5') => x \in Elements(lastP5) \/ x = c
      BY <2>5
    <3> QED BY <2>2, <2>4, <2>7a, <3>1 DEF Waits
  <2>13. SPEAKING => \A x \in Message : Waits(x)' => x.id # current.id
    BY <1>1, <1>4, <2>12 DEF ApartInv
  <2> QED BY <2>8, <2>9, <2>10, <2>11, <2>13 DEF ApartInv, Apart
<1>7. CASE TransferOne \/ TransferLast
  <2> DEFINE h == Head(lastP5)
  <2>1. /\ h \in Elements(lastP5) /\ h \in Message /\ lastP5' = Tail(lastP5)
        /\ Elements(lastP5') \subseteq Elements(lastP5) /\ queue[SPD_PROGRESS] = <<>> /\ lastP5 # <<>>
        /\ \A r \in Priority :
              /\ r # SPD_MESSAGE => Elements(queue'[r]) \subseteq Elements(queue[r])
              /\ r = SPD_MESSAGE => Elements(queue'[r]) = Elements(queue[r]) \cup {h}
    BY <1>7, TransferElements
  <2>2. \A x \in Elements(lastP5') : x # h
    <3>1. NoRepeat(lastP5)
      BY DEF OwnerInv, Owner
    <3> QED BY <1>1, <2>1, <3>1, HeadLeaves
  <2> HIDE DEF h
  <2>3. \A r \in Priority : \A y \in Elements(queue[r]) : \A x \in Elements(lastP5) : x.id # y.id
    <3>1. Elements(queue[SPD_PROGRESS]) = {}
      BY <2>1, EmptyList
    <3> QED BY <3>1 DEF ApartInv, Apart
  <2>3a. \A r \in Priority : \A x \in Elements(queue'[r]) :
          x \in Elements(queue[r]) \/ (x = h /\ r = SPD_MESSAGE)
    <3> SUFFICES ASSUME NEW r \in Priority, NEW x \in Elements(queue'[r])
                 PROVE  x \in Elements(queue[r]) \/ (x = h /\ r = SPD_MESSAGE)
      OBVIOUS
    <3>1. CASE r = SPD_MESSAGE
      BY <2>1, <3>1
    <3>2. CASE r # SPD_MESSAGE
      BY <2>1, <3>2
    <3> QED BY <3>1, <3>2
  <2>4. \A r, s \in Priority : \A x \in Elements(queue'[r]), y \in Elements(queue'[s]) :
          x.id = y.id => x = y /\ r = s
    <3> SUFFICES ASSUME NEW r \in Priority, NEW s \in Priority, NEW x \in Elements(queue'[r]),
                        NEW y \in Elements(queue'[s]), x.id = y.id
                 PROVE  x = y /\ r = s
      OBVIOUS
    <3>1. CASE x \in Elements(queue[r]) /\ y \in Elements(queue[s])
      BY <3>1 DEF ApartInv, Apart
    <3>2. CASE (x = h /\ r = SPD_MESSAGE) \/ (y = h /\ s = SPD_MESSAGE)
      BY <2>1, <2>3, <2>3a, <3>2
    <3> QED BY <2>3a, <3>1, <3>2
  <2>5. \A x, y \in Elements(lastP5') : x.gid = y.gid /\ (x.id = y.id => x = y)
    BY <2>1 DEF ApartInv, Apart
  <2>6. \A x \in Elements(lastP5'), r \in Priority : \A y \in Elements(queue'[r]) : x.id # y.id
    <3>1. \A x \in Elements(lastP5') : x \in Elements(lastP5) /\ x.id # h.id
      BY <2>1, <2>2 DEF ApartInv, Apart
    <3> QED BY <2>3, <2>3a, <3>1
  <2>7. ~SPEAKING'
    BY <1>7 DEF TransferOne, TransferLast, Taking, Locked, SessionInv, Silent, speaking
  <2> QED BY <2>4, <2>5, <2>6, <2>7 DEF ApartInv, Apart
<1>8. CASE TakeSpeak
  <2>1. /\ Next1 \in Elements(queue[First(Ready)]) /\ First(Ready) \in Priority /\ Next1 \in Message
        /\ \A p \in Priority : Elements(queue'[p])
                = IF p = First(Ready) THEN Elements(queue[p]) \ {Next1} ELSE Elements(queue[p])
    BY <1>8, TakenLeaves DEF TakeSpeak
  <2>2. /\ current' = Next1
        /\ lastP5' = IF lastP5 # <<>> /\ LastOf(lastP5).gid = Next1.gid THEN <<>> ELSE lastP5
    BY <1>8 DEF TakeSpeak
  <2>3. Elements(lastP5') \subseteq Elements(lastP5) /\ Elements(<<>>) = {}
    BY <2>2, EmptyList
  <2>4. \A p \in Priority : \A x \in Elements(queue'[p]) : x.id # Next1.id /\ x \in Elements(queue[p])
    <3>1. \A p \in Priority : \A x \in Elements(queue'[p]) :
            x \in Elements(queue[p]) /\ (p = First(Ready) => x # Next1)
      BY <2>1
    <3>2. \A p \in Priority : \A x \in Elements(queue[p]) :
            x.id = Next1.id => x = Next1 /\ p = First(Ready)
      BY <2>1 DEF ApartInv, Apart
    <3> QED BY <3>1, <3>2
  <2>5. \A x \in Elements(lastP5') : x.id # Next1.id
    <3> SUFFICES ASSUME NEW x \in Elements(lastP5'), x.id = Next1.id PROVE FALSE
      OBVIOUS
    <3>1. x \in Elements(lastP5) /\ x.gid = Next1.gid /\ lastP5' = lastP5
      BY <2>1, <2>2, <2>3 DEF ApartInv, Apart
    <3>2. lastP5 # <<>> /\ LastOf(lastP5) \in Elements(lastP5)
      BY <1>1, <2>3, <3>1, ElementsType
    <3>3. LastOf(lastP5).gid = x.gid
      BY <3>1, <3>2 DEF ApartInv, Apart
    <3> QED BY <2>2, <2>3, <3>1, <3>2, <3>3
  <2>6. Apart(queue', lastP5')
    BY <2>3, <2>4 DEF ApartInv, Apart
  <2> QED BY <2>2, <2>4, <2>5, <2>6 DEF ApartInv, Waits
<1>9. CASE ~(\E f \in Fds : Queue(f)) /\ ~TransferOne /\ ~TransferLast /\ ~TakeSpeak
  <2>1. \A p \in Priority : Elements(queue'[p]) \subseteq Elements(queue[p])
    BY <1>3, <1>9, QueuesShrink
  <2>2. lastP5' = lastP5
    <3>1. CASE \/ \E u \in 1 .. maxUid : Stop(u) \/ Cancel(u)
               \/ StopAll \/ CancelAllQueues \/ TakeFails \/ HandlePause \/ HandlePaused
      BY <3>1 DEF Stop, Cancel, StopAll, CancelAllQueues, TakeFails, HandlePause, HandlePaused, Handle, lists
    <3>2. CASE ~ListSteps
      BY <3>2, OtherSteps DEF owners
    <3> QED BY <1>3, <1>9, <3>1, <3>2 DEF ListSteps
  <2> QED BY <1>5, <1>9, <2>1, <2>2
<1> QED BY <1>6, <1>7, <1>8, <1>9

(* What waits after a step waited before it, or was just queued.           *)
LEMMA WaitsFrom ==
  ASSUME NumberInv, NoPause, [Next]_vars, NEW x \in Message, Waits(x)'
  PROVE  Waits(x) \/ (x.id = lastId + 1 /\ lastId' = lastId + 1)
<1> USE DEF NumberInv, BaseInv
<1>1. queue \in [Priority -> Seq(Message)] /\ lastP5 \in Seq(Message) /\ lastObj \in Nat
  BY DEF TypeOK, ListsOK, ObjectsOK
<1>2. ~ResumeOne
  BY DEF ResumeOne, Speakable, NoPause
<1>3. ASSUME NEW f \in Fds, Queue(f) PROVE Waits(x) \/ (x.id = lastId + 1 /\ lastId' = lastId + 1)
  <2>1. PICK m \in Message :
          /\ m = [id |-> lastId + 1, obj |-> lastObj + 1, uid |-> fdUid[f],
                  fd |-> f, gid |-> inside[f]]
          /\ settings[fdUid[f]].priority \in Priority
          /\ Enqueue(m, settings[fdUid[f]].priority, lastObj + 2)
    BY <1>3, Queues
  <2> DEFINE p == settings[fdUid[f]].priority
             c == Copy(m, lastObj + 2)
  <2>2. p \in Priority /\ Enqueue(m, p, lastObj + 2) /\ m.id = lastId + 1 /\ lastId' = lastId + 1
    BY <1>3, <2>1 DEF Queue
  <2> HIDE DEF p
  <2>3. \A r \in Priority : Elements(queue'[r]) \subseteq Elements(queue[r]) \cup {m}
    BY <2>2, EnqueueElements
  <2>4. Elements(lastP5') \subseteq Elements(lastP5) \cup {c}
    <3>1. lastObj + 2 \in Nat \ {0}
      BY <1>1
    <3> QED BY <2>2, <3>1, EnqueuePostpones
  <2>5. c.id = m.id
    BY DEF Copy, Message
  <2> HIDE DEF c
  <2> QED BY <2>2, <2>3, <2>4, <2>5 DEF Waits
<1>4. CASE TransferOne \/ TransferLast
  <2>1. /\ Head(lastP5) \in Elements(lastP5) /\ Elements(lastP5') \subseteq Elements(lastP5)
        /\ \A r \in Priority : Elements(queue'[r]) \subseteq Elements(queue[r]) \cup {Head(lastP5)}
    BY <1>4, TransferElements
  <2> QED BY <2>1 DEF Waits
<1>5. CASE ~(\E f \in Fds : Queue(f)) /\ ~TransferOne /\ ~TransferLast
  <2>1. \A p \in Priority : Elements(queue'[p]) \subseteq Elements(queue[p])
    BY <1>2, <1>5, QueuesShrink
  <2>2. Elements(lastP5') \subseteq Elements(lastP5)
    <3>1. lastP5' \in {lastP5, <<>>}
      <4>1. CASE \/ \E u \in 1 .. maxUid : Stop(u) \/ Cancel(u)
                 \/ StopAll \/ CancelAllQueues \/ TakeFails \/ HandlePause \/ HandlePaused \/ TakeSpeak
        BY <4>1 DEF Stop, Cancel, StopAll, CancelAllQueues, TakeFails, HandlePause, HandlePaused, Handle, lists,
                    TakeSpeak
      <4>2. CASE ~ListSteps
        BY <4>2, OtherSteps DEF owners
      <4> QED BY <1>2, <1>5, <4>1, <4>2 DEF ListSteps
    <3> QED BY <3>1, EmptyList
  <2> QED BY <2>1, <2>2 DEF Waits
<1> QED BY <1>3, <1>4, <1>5

(* What an event may be told of: CANCEL of a message that waited or was    *)
(* just queued, and waits in no queue afterwards; anything else of the     *)
(* message that is spoken.                                                 *)
Leaves(i)   == \A p \in Priority : \A y \in Elements(queue'[p]) : y.id # i
Handles     == HandleBegin \/ HandleDone \/ HandlePaused
Cancels(i)  == /\ life'[i] = "cancel" /\ Leaves(i) /\ ~Handles
               /\ (\E x \in Message : Waits(x) /\ x.id = i) \/ i = lastId + 1
(* Only a command that cancels, or speak() with an event of the message    *)
(* that is spoken, tells a client something of a message.                  *)
LEMMA TellsStep ==
  ASSUME NumberInv, NoPause, ApartInv, [Next]_vars, NEW i \in MsgId, life'[i] # life[i]
  PROVE  Cancels(i) \/ (Handles /\ SPEAKING /\ i = current.id)
<1> USE SpeakingAssumption DEF NumberInv, BaseInv
<1>1. /\ queue \in [Priority -> Seq(Message)] /\ lastP5 \in Seq(Message) /\ lastObj \in Nat
      /\ life \in [MsgId -> Report] /\ lastId \in Nat
      /\ \A p \in Priority : Elements(queue[p]) \subseteq Message
      /\ Elements(lastP5) \subseteq Message
  BY ElementsType DEF TypeOK, ListsOK, ObjectsOK, ToldOK
<1>2. ~ResumeOne
  BY DEF ResumeOne, Speakable, NoPause
<1>3. \A r, s \in Priority : \A x \in Elements(queue[r]), y \in Elements(queue[s]) :
        x.id = y.id => x = y /\ r = s
  BY DEF ApartInv, Apart
<1>4. \A p \in Priority : \A x \in Elements(queue[p]) : x \in Message /\ Waits(x) /\ x.id <= lastId /\ x.id \in Nat
  BY <1>1 DEF Waits, IdsInv, Known, Message, MsgId
<1>5. ASSUME NEW D, NEW e, Tell(D, e) PROVE life'[i] = e /\ \E x \in D : x.id = i
  BY <1>1, <1>5 DEF Tell
<1>6. ASSUME NEW e, Handle(e) PROVE SPEAKING /\ lists' = lists /\ spc' # spc
  BY <1>6 DEF Handle, HasEvent, SessionInv, SessionAgrees
<1>7. ASSUME NEW f \in Fds, Queue(f) PROVE Cancels(i)
  <2>1. PICK m \in Message :
          /\ m = [id |-> lastId + 1, obj |-> lastObj + 1, uid |-> fdUid[f],
                  fd |-> f, gid |-> inside[f]]
          /\ settings[fdUid[f]].priority \in Priority
          /\ Enqueue(m, settings[fdUid[f]].priority, lastObj + 2)
    BY <1>7, Queues
  <2> DEFINE p == settings[fdUid[f]].priority
  <2>2. p \in Priority /\ Enqueue(m, p, lastObj + 2) /\ m.id = lastId + 1 /\ lastId' # lastId
    BY <1>1, <1>7, <2>1 DEF Queue
  <2> HIDE DEF p
  <2>3. PICK D : /\ Tell(D, "cancel")
                 /\ \A x \in D : \E r \in Priority : x \in Arrived(m, p, r) /\ x \notin Elements(queue'[r])
    BY <2>2, EnqueueTells
  <2>4. \A r \in Priority : Elements(queue'[r]) \subseteq Arrived(m, p, r)
    BY <2>2, EnqueueElements DEF Arrived
  <2>5. \A r, s \in Priority : \A x \in Arrived(m, p, r), y \in Arrived(m, p, s) :
          x.id = y.id => x = y /\ r = s
    <3>1. \A r \in Priority : \A x \in Arrived(m, p, r) : x \in Elements(queue[r]) \/ (x = m /\ r = p)
      BY DEF Arrived
    <3>2. \A r \in Priority : \A x \in Elements(queue[r]) : x.id # m.id
      BY <1>1, <1>4, <2>2
    <3> QED BY <1>3, <3>1, <3>2
  <2>6. PICK x \in D : x.id = i /\ life'[i] = "cancel"
    BY <1>5, <2>3
  <2>7. PICK r \in Priority : x \in Arrived(m, p, r) /\ x \notin Elements(queue'[r])
    BY <2>3
  <2>8. Leaves(i)
    BY <2>4, <2>5, <2>6, <2>7 DEF Leaves
  <2>9. (\E y \in Message : Waits(y) /\ y.id = i) \/ i = lastId + 1
    BY <1>4, <2>2, <2>6, <2>7 DEF Arrived
  <2>10. ~Handles
    BY <2>2 DEF Handles, HandleBegin, HandleDone, HandlePaused, Handle
  <2> QED BY <2>6, <2>8, <2>9, <2>10 DEF Cancels
<1>8. ASSUME NEW u \in 1 .. maxUid, Cancel(u) PROVE Cancels(i)
  <2> DEFINE q == AfterStop(u)
  <2>1. PICK D : /\ D = UNION {{m \in Elements(q[p]) : m.uid = u} : p \in Priority}
                 /\ Tell(D, "cancel") /\ queue' = [p \in Priority |-> Without(q[p], D)]
    BY <1>8 DEF Cancel
  <2>2. \A p \in Priority : q[p] \in Seq(Message) /\ Elements(q[p]) \subseteq Elements(queue[p])
    BY AfterStopType, StopsShrink DEF Shrinks
  <2> HIDE DEF q
  <2>3. \A p \in Priority : Elements(queue'[p]) = Elements(q[p]) \ D
    BY <2>1, <2>2, WithoutType
  <2>4. PICK x \in D : x.id = i /\ life'[i] = "cancel"
    BY <1>5, <2>1
  <2>5. PICK r \in Priority : x \in Elements(q[r])
    BY <2>1
  <2>6. Leaves(i)
    <3> SUFFICES ASSUME NEW p \in Priority, NEW y \in Elements(queue'[p]), y.id = i PROVE FALSE
      BY DEF Leaves
    <3>1. y \in Elements(queue[p]) /\ y \notin D /\ x \in Elements(queue[r])
      BY <2>2, <2>3, <2>5
    <3>2. y = x
      BY <1>3, <2>4, <3>1
    <3> QED BY <2>4, <3>1, <3>2
  <2>7. ~Handles
    BY <1>6, <1>8 DEF Handles, HandleBegin, HandleDone, HandlePaused, Cancel
  <2>8. \E y \in Message : Waits(y) /\ y.id = i
    BY <1>4, <2>2, <2>4, <2>5
  <2> QED BY <2>4, <2>6, <2>7, <2>8 DEF Cancels
<1>9. CASE CancelAllQueues
  <2>1. PICK D : /\ Tell(D, "cancel") /\ queue' = [p \in Priority |-> <<>>]
                 /\ \A x \in D : \E p \in Priority : x \in Elements(queue[p])
    BY <1>9 DEF CancelAllQueues
  <2>2. PICK x \in D : x.id = i /\ life'[i] = "cancel"
    BY <1>5, <2>1
  <2>3. Leaves(i)
    BY <2>1, EmptyList DEF Leaves
  <2>4. ~Handles
    BY <1>6, <1>9 DEF Handles, HandleBegin, HandleDone, HandlePaused, CancelAllQueues
  <2>5. \E y \in Message : Waits(y) /\ y.id = i
    BY <1>4, <2>1, <2>2
  <2> QED BY <2>2, <2>3, <2>4, <2>5 DEF Cancels
<1>10. CASE TransferLast
  <2> DEFINE m == LastOf(lastP5)
             old == {t \in Elements(queue[SPD_TEXT]) : t.id < m.id}
             D == old \cup Elements(queue[SPD_NOTIFICATION])
             h == Head(lastP5)
  <2>1. /\ SPD_TEXT \in Priority /\ SPD_NOTIFICATION \in Priority /\ SPD_MESSAGE \in Priority
        /\ SPD_PROGRESS \in Priority
        /\ SPD_MESSAGE # SPD_TEXT /\ SPD_MESSAGE # SPD_NOTIFICATION /\ SPD_TEXT # SPD_NOTIFICATION
    BY DEF Priority, SPD_IMPORTANT, SPD_TEXT, SPD_NOTIFICATION, SPD_PROGRESS, SPD_MESSAGE
  <2>2. /\ Tell(D, "cancel")
        /\ queue'[SPD_TEXT] = Without(queue[SPD_TEXT], old)
        /\ queue'[SPD_NOTIFICATION] = <<>>
    BY <1>1, <1>10, <2>1 DEF TransferLast
  <2>3. Elements(queue'[SPD_TEXT]) = Elements(queue[SPD_TEXT]) \ old /\ Elements(queue'[SPD_NOTIFICATION]) = {}
    BY <1>1, <2>1, <2>2, WithoutType, EmptyList
  <2>4. PICK x \in D : x.id = i /\ life'[i] = "cancel"
    BY <1>5, <2>2
  <2>5. PICK r \in Priority : x \in Elements(queue[r]) /\ x \notin Elements(queue'[r])
    BY <2>1, <2>3, <2>4
  <2>6. /\ h \in Elements(lastP5) /\ queue[SPD_PROGRESS] = <<>>
        /\ \A p \in Priority : Elements(queue'[p]) \subseteq Elements(queue[p]) \cup {h}
    BY <1>10, TransferElements
  <2>7. h.id # i
    <3>1. Elements(queue[SPD_PROGRESS]) = {}
      BY <2>6, EmptyList
    <3> QED BY <2>4, <2>5, <2>6, <3>1 DEF ApartInv, Apart
  <2>8. Leaves(i)
    <3> SUFFICES ASSUME NEW p \in Priority, NEW y \in Elements(queue'[p]), y.id = i PROVE FALSE
      BY DEF Leaves
    <3>1. y \in Elements(queue[p])
      BY <2>6, <2>7
    <3>2. y = x /\ p = r
      BY <1>3, <2>4, <2>5, <3>1
    <3> QED BY <2>5, <3>2
  <2>9. ~Handles
    BY <1>10 DEF Handles, HandleBegin, HandleDone, HandlePaused, Handle, TransferLast, Taking, Locked
  <2>10. \E y \in Message : Waits(y) /\ y.id = i
    BY <1>4, <2>4, <2>5
  <2> QED BY <2>4, <2>8, <2>9, <2>10 DEF Cancels
<1>11. CASE Handles
  <2>1. current # NoMessage /\ SPEAKING /\ \E e : Tell({current}, e)
    BY <1>6, <1>11 DEF Handles, HandleBegin, HandleDone, HandlePaused, Handle
  <2> QED BY <1>5, <1>11, <2>1
<1>12. CASE UNCHANGED life
  BY <1>12
<1> QED BY <1>2, <1>7, <1>8, <1>9, <1>10, <1>11, <1>12
  DEF Next, MainStep, MainGoesOn, SpeakStep, ModuleStep, vars, died, client, Handles,
      Connect, Disconnect, BlockBegin, BlockEnd, SetPriority, Stop, Pause, Resume, StopAll, CancelAll,
      PauseAll, PausePost, ResumeClient, ResumePost, PollWake, HandleMark, HandleBroken, Handle, HandlePause,
      ClearPause, CheckSpeaking, ResumeEnd, ResumeClear, TransferOne, TakeNothing, TakeFails, TakeSpeak,
      EmitBegin, EmitMark, EmitTerminal, Emit

(* What waits was told nothing, or CANCEL (the copy in last_p5_block).     *)
WaitInv == \A x \in Message : Waits(x) => life[x.id] \in {"none", "cancel"}

(* BEGIN is the first event of a message, END comes only after it: what    *)
(* the module has reported agrees with what the client was told.           *)
Begins == "begin" \in Elements(evq)
EventsInv ==
  /\ \A k \in DOMAIN evq : evq[k] = "begin" => k = 1
  /\ sess.state = "synth" => evq = <<>>
  /\ SPEAKING => life[current.id] \in {"none", "cancel", "begin"}
  /\ SPEAKING /\ (Begins \/ sess.state = "synth") => life[current.id] \in {"none", "cancel"}
  /\ SPEAKING /\ ~Begins /\ (sess.state = "begun" \/ "end" \in Elements(evq))
       => life[current.id] = "begin"

OrderInv == NumberInv /\ NoPause /\ AsideInv /\ ApartInv /\ WaitInv /\ EventsInv

(* What the client of the message that is spoken is told next.             *)
LEMMA HandlesStep ==
  ASSUME OrderInv, Next, Handles
  PROVE  /\ SPEAKING /\ current \in Message /\ UNCHANGED <<queue, lastP5>>
         /\ life' = [life EXCEPT ![current.id] = life'[current.id]]
         /\ \/ /\ life[current.id] \in {"none", "cancel"} /\ life'[current.id] = "begin"
               /\ SPEAKING' /\ UNCHANGED <<current, sess>> /\ sess.state # "synth"
            \/ life[current.id] = "begin" /\ life'[current.id] = "end" /\ ~SPEAKING'
            \/ life'[current.id] = "cancel" /\ ~SPEAKING'
<1> USE DEF OrderInv, NumberInv, BaseInv
<1>1. evq \in Seq(Event) /\ life \in [MsgId -> Report] /\ current \in Message \cup {NoMessage}
  BY DEF TypeOK, OutputOK, ToldOK, SpeakingOK
<1>2. ASSUME NEW e, Handle(e)
      PROVE  /\ SPEAKING /\ current \in Message /\ UNCHANGED <<queue, lastP5>>
             /\ e \in Elements(evq) /\ Head(evq) = e /\ evq # <<>>
             /\ e # "begin" => ~Begins
  <2>1. SPEAKING /\ current \in Message /\ UNCHANGED <<queue, lastP5>> /\ evq # <<>> /\ Head(evq) = e
    BY <1>1, <1>2 DEF Handle, HasEvent, SessionInv, SessionAgrees, lists
  <2>2. e \in Elements(evq)
    BY <1>1, <2>1, ElementsType
  <2>3. e # "begin" => ~Begins
    <3>1. Head(evq) = evq[1]
      BY <1>1, <2>1
    <3> QED BY <2>1, <3>1 DEF Begins, EventsInv, Elements
  <2> QED BY <2>1, <2>2, <2>3
<1>3. ASSUME NEW e, Tell({current}, e), current \in Message
      PROVE  life' = [life EXCEPT ![current.id] = e] /\ life'[current.id] = e
  BY <1>1, <1>3 DEF Tell, Message
<1>4. CASE HandleBegin
  <2>1. /\ Handle("begin") /\ Tell({current}, "begin") /\ SPEAKING' /\ UNCHANGED <<current, sess>>
    BY <1>4 DEF HandleBegin, NoPause
  <2>2. Begins
    BY <1>2, <2>1 DEF Begins
  <2>3. life[current.id] \in {"none", "cancel"} /\ sess.state # "synth"
    BY <1>2, <2>1, <2>2 DEF EventsInv
  <2> QED BY <1>2, <1>3, <2>1, <2>3
<1>5. CASE HandleDone
  <2>1. PICK e \in {"end", "stopped"} :
          /\ Handle(e) /\ Tell({current}, IF e = "end" THEN "end" ELSE "cancel") /\ SPEAKING' = FALSE
    BY <1>5 DEF HandleDone
  <2>2. e = "end" => life[current.id] = "begin"
    BY <1>2, <2>1 DEF EventsInv
  <2> QED BY <1>2, <1>3, <2>1, <2>2
<1>6. CASE HandlePaused
  <2>1. Handle("paused")
    BY <1>6 DEF HandlePaused
  <2>2. sess.pause /\ sess.msg \in Elements(pausedList)
    BY <1>2, <2>1 DEF AsideInv
  <2> QED BY <2>2, EmptyList DEF NoPause
<1> QED BY <1>4, <1>5, <1>6 DEF Handles

(* Each step tells a client only what the order of the events allows.      *)
Ordered == \A i \in MsgId : life'[i] # life[i] =>
             /\ <<life[i], life'[i]>> \in
                  {<<"none", "begin">>, <<"none", "cancel">>, <<"begin", "end">>,
                   <<"begin", "cancel">>, <<"cancel", "begin">>}
             /\ life'[i] = "cancel" => \A p \in Priority : \A m \in Elements(queue'[p]) :
                                         m.id # i
(* What a step tells of a message follows what was told of it before.      *)
LEMMA OrderedStep ==
  ASSUME OrderInv, [Next]_vars
  PROVE  Ordered
<1> USE SpeakingAssumption DEF OrderInv, NumberInv, BaseInv
<1> SUFFICES ASSUME NEW i \in MsgId, life'[i] # life[i]
             PROVE  /\ <<life[i], life'[i]>> \in
                         {<<"none", "begin">>, <<"none", "cancel">>, <<"begin", "end">>,
                          <<"begin", "cancel">>, <<"cancel", "begin">>}
                    /\ life'[i] = "cancel" => Leaves(i)
  BY DEF Ordered, Leaves
<1>1. CASE Cancels(i)
  <2>1. life[i] \in {"none", "cancel"}
    <3>1. CASE \E x \in Message : Waits(x) /\ x.id = i
      BY <3>1 DEF WaitInv
    <3>2. CASE i = lastId + 1
      <4>1. lastId \in Nat
        BY DEF TypeOK, ObjectsOK
      <4> QED BY <3>2, <4>1 DEF IdsInv
    <3> QED BY <1>1, <3>1, <3>2 DEF Cancels
  <2> QED BY <1>1, <2>1 DEF Cancels
<1>2. CASE Handles /\ SPEAKING /\ i = current.id
  <2>1. Next
    BY DEF vars
  <2>2. Leaves(i)
    <3>1. current \in Message /\ queue' = queue
      BY <1>2, <2>1, HandlesStep
    <3>2. \A p \in Priority : Elements(queue[p]) \subseteq Message
      BY ElementsType DEF TypeOK, ListsOK
    <3> QED BY <1>2, <3>1, <3>2 DEF Leaves, ApartInv, Waits
  <2>3. life[i] \in {"none", "cancel", "begin"}
    BY <1>2 DEF EventsInv
  <2> QED BY <1>2, <2>1, <2>2, <2>3, HandlesStep
<1> QED BY <1>1, <1>2, TellsStep

(* Every step keeps what the waiting messages were told.                   *)
LEMMA WaitStep ==
  ASSUME OrderInv, [Next]_vars
  PROVE  WaitInv'
<1> USE SpeakingAssumption DEF OrderInv, NumberInv, BaseInv
<1> SUFFICES ASSUME NEW x \in Message, Waits(x)' PROVE life'[x.id] \in {"none", "cancel"}
  BY DEF WaitInv
<1>1. x.id \in MsgId /\ lastId \in Nat
  BY DEF Message, TypeOK, ObjectsOK
<1>2. Waits(x) \/ (x.id = lastId + 1 /\ lastId' = lastId + 1)
  BY WaitsFrom
<1>3. life[x.id] \in {"none", "cancel"}
  BY <1>1, <1>2 DEF WaitInv, IdsInv
<1>4. CASE life'[x.id] = life[x.id]
  BY <1>3, <1>4
<1>5. CASE Cancels(x.id)
  BY <1>5 DEF Cancels
<1>6. CASE Handles /\ SPEAKING /\ x.id = current.id
  <2>1. UNCHANGED <<queue, lastP5>>
    BY <1>6, HandlesStep DEF Handles, HandleBegin, HandleDone, HandlePaused, Handle, vars
  <2>2. Waits(x)
    BY <2>1 DEF Waits
  <2> QED BY <1>6, <2>2 DEF ApartInv
<1> QED BY <1>1, <1>4, <1>5, <1>6, TellsStep

(* A module only adds to its events, and a step that is no event of a      *)
(* module, nor takes a message, leaves what is spoken as it is.            *)
EventSteps == Handles \/ HandleMark \/ HandleBroken \/ TakeSpeak \/ ModuleStep
(* Steps other than those of the session leave its events alone.           *)
LEMMA OtherEvents ==
  ASSUME TypeOK, SessionInv, [Next]_vars, ~EventSteps
  PROVE  /\ UNCHANGED evq /\ sess'.state = sess.state
         /\ SPEAKING' => SPEAKING
<1>1. \A s \in {sess, Stopped(sess), Paused(sess)} : s.state = sess.state
  BY AskedType
<1>2. ASSUME NEW f \in Fds, \/ Connect(f) \/ Disconnect(f) \/ BlockBegin(f) \/ BlockEnd(f) \/ Queue(f)
                            \/ \E p \in Prios : SetPriority(f, p)
      PROVE  UNCHANGED <<evq, SPEAKING>> /\ sess' \in {sess, Stopped(sess), Paused(sess)}
  BY <1>2 DEF Connect, Disconnect, BlockBegin, BlockEnd, Queue, Enqueue, SetPriority, speaking, output
<1>3. CASE \/ (\E u : Stop(u) \/ Cancel(u) \/ Pause(u)) \/ (\E n, U : Resume(n, U)) \/ StopAll \/ CancelAll
           \/ PauseAll \/ CancelAllQueues \/ PausePost \/ ResumeClient \/ ResumePost
  <2>1. UNCHANGED <<evq, SPEAKING>> /\ sess' \in {sess, Stopped(sess), Paused(sess)}
    BY <1>3 DEF Stop, Cancel, StopClient, Pause, Resume, StopAll, CancelAll, PauseAll, CancelAllQueues, PausePost,
                ResumeClient, ResumePost, speaking, output
  <2> QED BY <1>1, <2>1
<1>4. CASE \/ PollWake \/ HandlePause \/ ClearPause \/ CheckSpeaking \/ ResumeOne \/ ResumeEnd \/ ResumeClear
           \/ TransferOne \/ TransferLast \/ TakeNothing \/ TakeFails \/ UNCHANGED vars
  <2>1. UNCHANGED <<evq, SPEAKING>> /\ sess' \in {sess, Stopped(sess), Paused(sess)}
    BY <1>4 DEF PollWake, HandlePause, ClearPause, CheckSpeaking, ResumeOne, Enqueue, ResumeEnd, ResumeClear,
                TransferOne, TransferLast, TakeNothing, TakeFails, vars, speaking, output
  <2> QED BY <1>1, <2>1
<1> QED BY <1>1, <1>2, <1>3, <1>4 DEF EventSteps, Handles, Next, MainStep, MainGoesOn, SpeakStep

(* Every step keeps the events of the module in order.                     *)
LEMMA EventsStep ==
  ASSUME OrderInv, [Next]_vars
  PROVE  EventsInv'
<1> USE SpeakingAssumption DEF OrderInv, NumberInv, BaseInv
<1>1. evq \in Seq(Event) /\ sess \in Session /\ life \in [MsgId -> Report]
  BY DEF TypeOK, OutputOK, ToldOK
<1>2. ASSUME NEW e, Handle(e)
      PROVE  /\ SPEAKING /\ current \in Message /\ evq' = Tail(evq) /\ ~Begins'
             /\ sess.state # "synth" /\ e \in Elements(evq) /\ (e # "begin" => ~Begins)
             /\ "end" \in Elements(evq') => "end" \in Elements(evq)
             /\ \A k \in DOMAIN evq' : evq'[k] = "begin" => k = 1
  <2>1. /\ SPEAKING /\ current \in Message /\ evq # <<>> /\ Head(evq) = e /\ evq' = Tail(evq)
    BY <1>2 DEF Handle, HasEvent, SessionInv, SessionAgrees, TypeOK, SpeakingOK
  <2>2. \A k \in DOMAIN evq' : evq'[k] # "begin"
    <3>1. \A k \in DOMAIN evq' : k + 1 \in DOMAIN evq /\ evq'[k] = evq[k + 1] /\ k + 1 # 1
      BY <1>1, <2>1
    <3> QED BY <3>1 DEF EventsInv
  <2>3. Elements(evq) = {e} \cup Elements(evq')
    BY <1>1, <2>1, ElementsType
  <2>4. ~Begins'
    BY <2>2 DEF Begins, Elements
  <2> QED BY <2>1, <2>2, <2>3, <2>4 DEF EventsInv, Begins
<1>3. CASE Handles
  <2>1. Next /\ \E e : Handle(e)
    BY <1>3 DEF Handles, HandleBegin, HandleDone, HandlePaused, Handle, vars
  <2>2. CASE SPEAKING' /\ UNCHANGED <<current, sess>> /\ life'[current.id] = "begin"
    BY <1>2, <2>1, <2>2 DEF EventsInv
  <2>3. CASE ~SPEAKING'
    <3>1. sess' = NoSession
      BY <1>3, <2>3 DEF Handles, HandleBegin, HandleDone, HandlePaused
    <3> QED BY <1>2, <2>1, <2>3, <3>1 DEF EventsInv, NoSession
  <2> QED BY <1>3, <2>1, <2>2, <2>3, HandlesStep
<1>4. CASE HandleMark
  <2>1. Handle("mark") /\ UNCHANGED <<current, SPEAKING, sess, life>>
    BY <1>4 DEF HandleMark
  <2> QED BY <1>2, <2>1 DEF EventsInv
<1>5. CASE HandleBroken
  <2>1. Handle("broken") /\ SPEAKING' = FALSE /\ sess' = NoSession
    BY <1>5 DEF HandleBroken
  <2> QED BY <1>2, <2>1 DEF EventsInv, NoSession
<1>6. CASE TakeSpeak
  <2>1. /\ evq = <<>> /\ evq' = evq /\ life' = life /\ current' = Next1 /\ sess'.state = "synth"
    BY <1>6 DEF TakeSpeak, TakeNext, Taking, SessionInv, SessionAgrees, Silent
  <2>2. Next1 \in Message /\ Waits(Next1)
    BY <1>6, TakenLeaves DEF TakeSpeak, Waits
  <2>3. life'[current'.id] \in {"none", "cancel"}
    BY <2>1, <2>2 DEF WaitInv
  <2>4. Elements(evq') = {}
    BY <2>1, EmptyList
  <2> QED BY <2>1, <2>3, <2>4 DEF EventsInv, Begins
<1>7. CASE ModuleStep
  <2>1. UNCHANGED <<SPEAKING, current, life>> /\ SPEAKING \in BOOLEAN
    BY <1>7 DEF ModuleStep, EmitBegin, EmitMark, EmitTerminal, Emit, speaking, TypeOK, SpeakingOK
  <2>2. ASSUME NEW e, evq' = Append(evq, e)
        PROVE  /\ Elements(evq') = Elements(evq) \cup {e}
               /\ e # "begin" => \A k \in DOMAIN evq' : evq'[k] = "begin" => k = 1
    <3>1. Elements(evq') = Elements(evq) \cup {e}
      BY <1>1, <2>2, ElementsType
    <3>2. DOMAIN evq' = 1 .. Len(evq) + 1 /\ Len(evq) \in Nat /\ DOMAIN evq = 1 .. Len(evq)
          /\ \A k \in 1 .. Len(evq) + 1 : evq'[k] = IF k = Len(evq) + 1 THEN e ELSE evq[k]
      BY <1>1, <2>2
    <3>3. e # "begin" => \A k \in DOMAIN evq' : evq'[k] = "begin" => k = 1
      BY <3>2 DEF EventsInv
    <3> QED BY <3>1, <3>3
  <2>3. CASE EmitBegin
    <3>1. sess.state = "synth" /\ sess'.state = "begun" /\ evq' = Append(evq, "begin")
      BY <1>1, <2>3 DEF EmitBegin, Emit, Session
    <3>2. evq = <<>> /\ (SPEAKING => life[current.id] \in {"none", "cancel"})
      BY <3>1 DEF EventsInv
    <3>3. Begins' /\ \A k \in DOMAIN evq' : k = 1
      BY <2>2, <3>1, <3>2 DEF Begins
    <3> QED BY <2>1, <3>1, <3>2, <3>3 DEF EventsInv
  <2>4. CASE EmitMark
    <3>1. sess' = sess /\ sess.state = "begun" /\ evq' = Append(evq, "mark")
      BY <2>4 DEF EmitMark, Emit
    <3>2. (Begins' = Begins) /\ ("end" \in Elements(evq') => "end" \in Elements(evq))
      BY <2>2, <3>1 DEF Begins
    <3> QED BY <2>1, <2>2, <3>1, <3>2 DEF EventsInv
  <2>5. CASE EmitTerminal
    <3>1. PICK e \in Terminal : evq' = Append(evq, e) /\ sess'.state = "done"
                                /\ (e = "end" => sess.state = "begun")
      BY <1>1, <2>5 DEF EmitTerminal, Emit, Session
    <3>2. /\ Begins' = Begins
          /\ "end" \in Elements(evq') => "end" \in Elements(evq) \/ sess.state = "begun"
      BY <2>2, <3>1 DEF Begins, Terminal
    <3> QED BY <2>1, <2>2, <3>1, <3>2 DEF EventsInv, Terminal
  <2> QED BY <1>7, <2>3, <2>4, <2>5 DEF ModuleStep
<1>8. CASE ~EventSteps
  <2>1. UNCHANGED evq /\ sess'.state = sess.state /\ (SPEAKING' => SPEAKING) /\ (Begins' = Begins)
    BY <1>8, OtherEvents DEF Begins
  <2>2. SPEAKING' => current' = current /\ life'[current.id] = life[current.id]
    <3> SUFFICES ASSUME SPEAKING' PROVE current' = current /\ life'[current.id] = life[current.id]
      OBVIOUS
    <3>1. current' = current
      BY <1>8, SpeakingStays DEF EventSteps, ResumeOne, NoPause, Speakable
    <3>2. current \in Message /\ current.id \in MsgId /\ current.id <= lastId
      BY <2>1 DEF SessionInv, SessionAgrees, TypeOK, SpeakingOK, Message, IdsInv, Known
    <3>3. ~Cancels(current.id)
      <4>1. lastId \in Nat /\ current.id \in Nat
        BY <3>2 DEF TypeOK, ObjectsOK, MsgId
      <4> QED BY <2>1, <3>2, <4>1 DEF Cancels, ApartInv
    <3> QED BY <1>8, <3>1, <3>2, <3>3, TellsStep DEF EventSteps
  <2> QED BY <2>1, <2>2 DEF EventsInv
<1> QED BY <1>3, <1>4, <1>5, <1>6, <1>7, <1>8 DEF EventSteps

(* What a client is told of one message comes in order, and nothing more   *)
(* than BEGIN of a copy after CANCEL, as long as no client pauses.         *)
THEOREM EventOrderCorrect ==
  ASSUME {"pause", "pauseAll"} \cap Commands = {}
  PROVE  Spec => EventOrder
<1>1. Init => OrderInv
  <2> SUFFICES ASSUME Init PROVE OrderInv
    OBVIOUS
  <2>1. NumberInv /\ NoPause
    BY NumberInvariant, NoPauseInit
  <2>2. /\ evq = <<>> /\ lastP5 = <<>> /\ SPEAKING = FALSE /\ sess = NoSession
        /\ \A p \in Priority : queue[p] = <<>>
    BY DEF Init
  <2>3. /\ Elements(evq) = {} /\ Elements(lastP5) = {}
        /\ \A p \in Priority : Elements(queue[p]) = {}
    BY <2>2, EmptyList
  <2>4. AsideInv /\ ApartInv /\ WaitInv
    BY <2>2, <2>3 DEF AsideInv, NoSession, NoMessage, ApartInv, Apart, WaitInv, Waits
  <2>5. EventsInv
    BY <2>2, <2>3 DEF EventsInv, NoSession, Begins
  <2> QED BY <2>1, <2>4, <2>5 DEF OrderInv
<1>2. OrderInv /\ [Next]_vars => OrderInv'
  <2> SUFFICES ASSUME OrderInv, [Next]_vars PROVE OrderInv'
    OBVIOUS
  <2>1. NumberInv' /\ NoPause' /\ AsideInv'
    <3>1. NumberInv'
      BY NumberInvariant DEF OrderInv
    <3>2. NoPause'
      BY NoPauseStep DEF OrderInv, NumberInv, BaseInv
    <3>3. AsideInv'
      BY AsideStep DEF OrderInv, NumberInv, BaseInv
    <3> QED BY <3>1, <3>2, <3>3
  <2>2. ApartInv'
    BY ApartStep DEF OrderInv
  <2> QED BY <2>1, <2>2, WaitStep, EventsStep DEF OrderInv
<1>3. OrderInv /\ [Next]_vars => Ordered
  BY OrderedStep
<1>4. Ordered => [\A i \in MsgId : life'[i] # life[i] =>
       /\ <<life[i], life'[i]>> \in
            {<<"none", "begin">>, <<"none", "cancel">>, <<"begin", "end">>,
             <<"begin", "cancel">>, <<"cancel", "begin">>}
       /\ life'[i] = "cancel" => \A p \in Priority : \A m \in Elements(queue'[p]) :
                                   m.id # i]_vars
  BY DEF Ordered
<1> QED BY <1>1, <1>2, <1>3, <1>4, PTL DEF Spec, EventOrder
=============================================================================
