------------------------ MODULE ModuleProcessProofs ------------------------
(***************************************************************************)
(* Proofs about a module process.  First its life, of ModuleLoad and       *)
(* ModuleLife, for every set of module directories, every configuration    *)
(* file, any number of descriptors, clients, signals, crashes and failed   *)
(* loads; then the text it is given to speak, of ModuleInput, in any       *)
(* alphabet and of any length: what it says of at most two lines, and      *)
(* where a message of any number of lines resumes after a pause.           *)
(*                                                                         *)
(* The folds and the flattening of the community modules are recursive     *)
(* functions.  Facts about them are proved by looking at the smallest      *)
(* argument that would be a counterexample (Least).                        *)
(***************************************************************************)
EXTENDS ModuleLife, ModuleInput, SequenceTheorems, FiniteSetTheorems,
        FunctionTheorems, WellFoundedInduction, TLAPS

(* A nonempty set of naturals has a least element.                         *)
LEMMA Least ==
  ASSUME NEW T, T \subseteq Nat, T # {}
  PROVE  \E x \in T : \A y \in T : x <= y
<1> DEFINE R == {x \in Nat \X Nat : x[1] < x[2]}
<1>1. IsWellFoundedOn(R, Nat)
  BY NatLessThanWellFounded DEF OpToRel
<1>2. PICK x \in T : \A y \in T : ~(<<y, x>> \in R)
  <2> HIDE DEF R
  <2> QED BY <1>1, WFMin, Zenon
<1>3. \A y \in T : ~(y < x)
  BY <1>2
<1> QED BY <1>3

(* FirstOf() finds the least element, and is 0 for the empty set only.     *)
LEMMA FirstOfType ==
  ASSUME NEW T, T \subseteq Nat, T # {}
  PROVE  FirstOf(T) \in T /\ \A y \in T : FirstOf(T) <= y
BY Least DEF FirstOf

-----------------------------------------------------------------------------
(* Requests. *)

(* The recursive function of FlattenSeq() exists: it can be extended from  *)
(* one position to the next.                                               *)
LEMMA FlattenExists ==
  ASSUME NEW S, NEW s \in Seq(Seq(S)), NEW n \in 1 .. Len(s)
  PROVE  \E f : f = [i \in 1 .. n |-> IF i = 1 THEN s[i] ELSE f[i - 1] \o s[i]]
<1> DEFINE Holds(k) == \E f : f = [i \in 1 .. k |-> IF i = 1 THEN s[i] ELSE f[i - 1] \o s[i]]
           Bad == {k \in Nat \ {0} : ~Holds(k)}
<1>0. Len(s) \in Nat /\ n \in Nat \ {0}
  OBVIOUS
<1> SUFFICES ASSUME n \in Bad PROVE FALSE
  <2>1. Holds(n)
    <3> HIDE DEF Holds
    <3> QED BY <1>0
  <2> QED BY <2>1
<1>1. PICK k \in Bad : \A y \in Bad : k <= y
  <2> HIDE DEF Bad
  <2> QED BY Least DEF Bad
<1>2. k # 1
  <2>1. [i \in 1 .. 1 |-> s[1]] = [i \in 1 .. 1 |-> IF i = 1 THEN s[i] ELSE [j \in 1 .. 1 |-> s[1]][i - 1] \o s[i]]
    OBVIOUS
  <2>2. Holds(1)
    BY <2>1
  <2> HIDE DEF Holds
  <2> QED BY <1>1, <2>2
<1>3. k - 1 \in Nat \ {0} /\ Holds(k - 1)
  <2> HIDE DEF Holds
  <2>1. k \in Nat \ {0} /\ k - 1 \in Nat \ {0} /\ ~(k <= k - 1)
    BY <1>2
  <2> QED BY <1>1, <2>1
<1>4. PICK f : f = [i \in 1 .. k - 1 |-> IF i = 1 THEN s[i] ELSE f[i - 1] \o s[i]]
  BY <1>3
<1> DEFINE g == [i \in 1 .. k |-> IF i = k THEN f[k - 1] \o s[k] ELSE f[i]]
<1>5. \A i \in 1 .. k - 1 : g[i] = IF i = 1 THEN s[i] ELSE g[i - 1] \o s[i]
  <2> SUFFICES ASSUME NEW i \in 1 .. k - 1 PROVE g[i] = IF i = 1 THEN s[i] ELSE g[i - 1] \o s[i]
    OBVIOUS
  <2>1. g[i] = f[i] /\ (i # 1 => g[i - 1] = f[i - 1])
    BY <1>1
  <2>2. f[i] = IF i = 1 THEN s[i] ELSE f[i - 1] \o s[i]
    BY <1>4
  <2> QED BY <2>1, <2>2
<1>6. g[k] = g[k - 1] \o s[k]
  <2>1. k \in 1 .. k /\ k - 1 \in 1 .. k /\ k - 1 # k
    BY <1>3
  <2> QED BY <2>1
<1>7. g = [i \in 1 .. k |-> IF i = 1 THEN s[i] ELSE g[i - 1] \o s[i]]
  <2> HIDE DEF g
  <2>1. g = [i \in 1 .. k |-> g[i]]
    BY DEF g
  <2>2. \A i \in 1 .. k : i = k \/ i \in 1 .. k - 1
    BY <1>1
  <2> QED BY <1>1, <1>2, <1>5, <1>6, <2>1, <2>2
<1>8. Holds(k)
  <2> HIDE DEF g
  <2> QED BY <1>7
<1> QED BY <1>1, <1>8

(* A flattened sequence of sequences over S is a sequence over S.          *)
LEMMA FlattenType ==
  ASSUME NEW S, NEW s \in Seq(Seq(S))
  PROVE  FlattenSeq(s) \in Seq(S)
<1>1. CASE Len(s) = 0
  BY <1>1 DEF FlattenSeq
<1>2. CASE Len(s) # 0
  <2> DEFINE Flat(f) == f = [i \in 1 .. Len(s) |-> IF i = 1 THEN s[i] ELSE f[i - 1] \o s[i]]
             f == CHOOSE f : Flat(f)
             Bad == {k \in 1 .. Len(s) : f[k] \notin Seq(S)}
  <2>1. Len(s) \in Nat /\ Len(s) \in 1 .. Len(s) /\ \A i \in 1 .. Len(s) : s[i] \in Seq(S)
    BY <1>2
  <2>2. Flat(f)
    <3>1. \E g : Flat(g)
      BY <2>1, FlattenExists
    <3> HIDE DEF Flat
    <3> QED BY <3>1
  <2>3. FlattenSeq(s) = f[Len(s)]
    BY <1>2, Zenon DEF FlattenSeq
  <2> HIDE DEF f
  <2>4. Bad = {}
    <3> SUFFICES ASSUME Bad # {} PROVE FALSE
      OBVIOUS
    <3>1. PICK k \in Bad : \A y \in Bad : k <= y
      <4>1. Bad \subseteq Nat
        OBVIOUS
      <4> HIDE DEF Bad
      <4> QED BY <4>1, Least
    <3>2. k \in 1 .. Len(s) /\ (k # 1 => k - 1 \in 1 .. Len(s) /\ k - 1 < k)
      BY <2>1
    <3>3. k # 1 => f[k - 1] \in Seq(S)
      BY <3>1, <3>2
    <3>4. f[k] = IF k = 1 THEN s[k] ELSE f[k - 1] \o s[k]
      BY <2>2, <3>2
    <3>5. f[k] \in Seq(S)
      BY <2>1, <3>2, <3>3, <3>4
    <3> QED BY <3>1, <3>5
  <2> QED BY <2>1, <2>3, <2>4
<1> QED BY <1>1, <1>2

(* What is detected in the directories is a sequence of requests.          *)
LEMMA DetectedType == Detected \in Seq(Requests)
<1>1. ASSUME NEW reqs \in Seq(Requests), NEW name PROVE Named(reqs, name) \in Seq(Requests)
  <2>1. [i \in DOMAIN reqs |-> IF reqs[i].name = name THEN <<reqs[i]>> ELSE <<>>] \in Seq(Seq(Requests))
    <3>1. DOMAIN reqs = 1 .. Len(reqs) /\ Len(reqs) \in Nat /\ <<>> \in Seq(Requests)
      OBVIOUS
    <3>2. \A i \in DOMAIN reqs : <<reqs[i]>> \in Seq(Requests)
      OBVIOUS
    <3> QED BY <3>1, <3>2
  <2> QED BY <2>1, FlattenType DEF Named
<1>2. ASSUME NEW dir \in Seq(VariantFiles) PROVE Usable(dir) \in Seq(Requests)
  <2> DEFINE Of(i) == IF dir[i].is = "variant" /\ Missing(dir[i]) = {} THEN <<dir[i].asks>> ELSE <<>>
  <2>1. DOMAIN dir = 1 .. Len(dir) /\ Len(dir) \in Nat
    OBVIOUS
  <2>2. ASSUME NEW i \in DOMAIN dir PROVE Of(i) \in Seq(Requests)
    <3>1. dir[i] \in VariantFiles
      OBVIOUS
    <3>2. dir[i].asks \in Requests
      BY <3>1 DEF VariantFiles
    <3>3. <<dir[i].asks>> \in Seq(Requests) /\ <<>> \in Seq(Requests)
      BY <3>2
    <3> QED BY <3>3
  <2>3. Usable(dir) = FlattenSeq([i \in DOMAIN dir |-> Of(i)])
    BY DEF Usable
  <2> HIDE DEF Of
  <2>4. [i \in DOMAIN dir |-> Of(i)] \in Seq(Seq(Requests))
    BY <2>1, <2>2
  <2> QED BY <2>3, <2>4, FlattenType
<1>3. Generics \in Seq(Requests)
  <2>1. DOMAIN Variants = 1 .. Len(Variants) /\ Len(Variants) \in Nat
    BY LoadAssumption
  <2>2. \A i \in DOMAIN Variants : Usable(Variants[i]) \in Seq(Requests)
    BY <1>2, LoadAssumption
  <2>3. [i \in DOMAIN Variants |-> Usable(Variants[i])] \in Seq(Seq(Requests))
    BY <2>1, <2>2
  <2> QED BY <2>3, FlattenType DEF Generics
<1>4. ASSUME NEW dir \in Seq(ModuleFiles) PROVE DetectedIn(dir) \in Seq(Requests)
  <2> DEFINE Of(i) == CASE dir[i].is = "module"  -> <<dir[i].asks>>
                        [] dir[i].is = "generic" -> Generics
                        [] dir[i].is = "other"   -> <<>>
  <2>1. DOMAIN dir = 1 .. Len(dir) /\ Len(dir) \in Nat
    OBVIOUS
  <2>2. ASSUME NEW i \in DOMAIN dir PROVE Of(i) \in Seq(Requests)
    <3>1. dir[i] \in ModuleFiles
      OBVIOUS
    <3>2. dir[i].is \in {"module", "generic", "other"} /\ dir[i].asks \in Requests
      BY <3>1 DEF ModuleFiles
    <3>3. <<dir[i].asks>> \in Seq(Requests) /\ <<>> \in Seq(Requests)
      BY <3>2
    <3> QED BY <1>3, <3>2, <3>3
  <2>3. DetectedIn(dir) = FlattenSeq([i \in DOMAIN dir |-> Of(i)])
    BY DEF DetectedIn
  <2> HIDE DEF Of
  <2>4. [i \in DOMAIN dir |-> Of(i)] \in Seq(Seq(Requests))
    BY <2>1, <2>2
  <2> QED BY <2>3, <2>4, FlattenType
<1> DEFINE found == FlattenSeq([i \in DOMAIN Directories |-> DetectedIn(Directories[i])])
<1>5. found \in Seq(Requests)
  <2>1. DOMAIN Directories = 1 .. Len(Directories) /\ Len(Directories) \in Nat
    BY LoadAssumption
  <2>2. \A i \in DOMAIN Directories : DetectedIn(Directories[i]) \in Seq(Requests)
    BY <1>4, LoadAssumption
  <2>3. [i \in DOMAIN Directories |-> DetectedIn(Directories[i])] \in Seq(Seq(Requests))
    BY <2>1, <2>2
  <2> QED BY <2>3, FlattenType
<1>6. Detected = FlattenSeq([i \in DOMAIN Preference |-> Named(found, Preference[i])])
  BY DEF Detected
<1> HIDE DEF found
<1>7. [i \in DOMAIN Preference |-> Named(found, Preference[i])] \in Seq(Seq(Requests))
  <2>1. \A i \in DOMAIN Preference : Named(found, Preference[i]) \in Seq(Requests)
    BY <1>1, <1>5
  <2>2. DOMAIN Preference = 1 .. Len(Preference) /\ Len(Preference) \in Nat
    BY LoadAssumption
  <2> QED BY <2>1, <2>2
<1> QED BY <1>6, <1>7, FlattenType

(* Max() of a set of naturals up to k that has k.                          *)
LEMMA MaxIs ==
  ASSUME NEW k \in Nat, NEW V \in SUBSET (1 .. k), k \in V
  PROVE  Max(V) = k
<1>1. \A y \in V : k >= y
  OBVIOUS
<1>2. Max(V) \in V /\ \A y \in V : Max(V) >= y
  BY <1>1 DEF Max
<1>3. Max(V) \in 1 .. k /\ Max(V) >= k
  BY <1>2
<1> QED BY <1>3

(* The recursive function of FoldLeft() exists, likewise.                  *)
LEMMA FoldExists ==
  ASSUME NEW s, NEW n \in Nat
  PROVE  \E f : f = [V \in SUBSET (1 .. n) |->
                       IF V = {} THEN <<>> ELSE AddRequest(f[V \ {Max(V)}], s[Max(V)])]
<1> DEFINE Folded(f, V) == IF V = {} THEN <<>> ELSE AddRequest(f[V \ {Max(V)}], s[Max(V)])
           Holds(k) == \E f : f = [V \in SUBSET (1 .. k) |-> Folded(f, V)]
           Bad == {k \in Nat : ~Holds(k)}
<1> SUFFICES ASSUME n \in Bad PROVE FALSE
  <2>1. Holds(n)
    <3> HIDE DEF Holds
    <3> QED OBVIOUS
  <2> QED BY <2>1
<1>1. PICK k \in Bad : \A y \in Bad : k <= y
  <2> HIDE DEF Holds
  <2> QED BY Least
<1>2. Holds(0)
  <2>1. SUBSET (1 .. 0) = {{}}
    OBVIOUS
  <2> DEFINE f == [V \in SUBSET (1 .. 0) |-> <<>>]
  <2>2. f = [V \in SUBSET (1 .. 0) |-> Folded(f, V)]
    BY <2>1
  <2> HIDE DEF f, Folded
  <2> QED BY <2>2
<1>3. k # 0
  BY <1>1, <1>2
<1>4. k - 1 \in Nat /\ Holds(k - 1)
  <2> HIDE DEF Holds
  <2>1. k \in Nat /\ k - 1 \in Nat /\ ~(k <= k - 1)
    BY <1>3
  <2> QED BY <1>1, <2>1
<1>5. PICK f : f = [V \in SUBSET (1 .. k - 1) |-> Folded(f, V)]
  <2> HIDE DEF Folded
  <2> QED BY <1>4
<1> DEFINE g == [V \in SUBSET (1 .. k) |-> IF k \in V THEN AddRequest(f[V \ {k}], s[k]) ELSE f[V]]
<1>6. ASSUME NEW V \in SUBSET (1 .. k) PROVE g[V] = Folded(g, V)
  <2>1. \A W \in SUBSET (1 .. k) : k \notin W => W \in SUBSET (1 .. k - 1)
    BY <1>4
  <2>2. CASE k \in V
    <3>1. Max(V) = k
      BY <1>4, <2>2, MaxIs
    <3>2. V \ {k} \in SUBSET (1 .. k) /\ k \notin V \ {k}
      OBVIOUS
    <3>3. g[V] = AddRequest(f[V \ {k}], s[k]) /\ g[V \ {k}] = f[V \ {k}]
      BY <2>2, <3>2
    <3> HIDE DEF g
    <3> QED BY <2>2, <3>1, <3>3
  <2>3. CASE k \notin V
    <3>1. V \in SUBSET (1 .. k - 1) /\ g[V] = f[V]
      BY <2>1, <2>3
    <3>2. f[V] = Folded(f, V)
      <4> HIDE DEF Folded
      <4> QED BY <1>5, <3>1
    <3>3. \A x : /\ V \ {x} \in SUBSET (1 .. k) /\ k \notin V \ {x}
                 /\ g[V \ {x}] = f[V \ {x}]
      BY <2>3
    <3> HIDE DEF g
    <3> QED BY <3>1, <3>2, <3>3
  <2> QED BY <2>2, <2>3
<1>7. g = [V \in SUBSET (1 .. k) |-> Folded(g, V)]
  <2>1. g = [V \in SUBSET (1 .. k) |-> g[V]]
    OBVIOUS
  <2> HIDE DEF g, Folded
  <2> QED BY <1>6, <2>1
<1>8. Holds(k)
  <2> HIDE DEF g, Folded
  <2> QED BY <1>7
<1> QED BY <1>1, <1>8

(* The fold of the requests, one more request at a time.                   *)
LEMMA FoldRequests ==
  ASSUME NEW S, NEW s \in Seq(S)
  PROVE  \E F : /\ F[0] = <<>> /\ FoldLeft(AddRequest, <<>>, s) = F[Len(s)]
                /\ \A i \in 1 .. Len(s) : F[i] = AddRequest(F[i - 1], s[i])
<1> DEFINE Fold(f) == f = [V \in SUBSET DOMAIN s |->
                             IF V = {} THEN <<>> ELSE AddRequest(f[V \ {Max(V)}], s[Max(V)])]
           f == CHOOSE f : Fold(f)
           F == [i \in 0 .. Len(s) |-> f[1 .. i]]
<1>1. DOMAIN s = 1 .. Len(s) /\ Len(s) \in Nat
  OBVIOUS
<1>2. Fold(f)
  <2>1. \E g : g = [V \in SUBSET (1 .. Len(s)) |->
                      IF V = {} THEN <<>> ELSE AddRequest(g[V \ {Max(V)}], s[Max(V)])]
    BY <1>1, FoldExists
  <2>2. \E g : Fold(g)
    BY <1>1, <2>1
  <2> HIDE DEF Fold
  <2> QED BY <2>2
<1>3. FoldLeft(AddRequest, <<>>, s) = f[DOMAIN s]
  BY Zenon DEF FoldLeft, MapThenFoldSet
<1> HIDE DEF f
<1>4. F[0] = <<>>
  <2>1. 1 .. 0 = {} /\ {} \in SUBSET DOMAIN s /\ 0 \in 0 .. Len(s)
    BY <1>1
  <2>2. f[{}] = <<>>
    BY <1>2, <2>1
  <2> QED BY <2>1, <2>2
<1>5. ASSUME NEW i \in 1 .. Len(s) PROVE F[i] = AddRequest(F[i - 1], s[i])
  <2> DEFINE V == 1 .. i
  <2>1. i \in Nat /\ V \in SUBSET DOMAIN s /\ V \in SUBSET (1 .. i) /\ V # {} /\ i \in V
    <3>1. i \in Nat /\ Len(s) \in Nat /\ 1 <= i /\ i <= Len(s)
      BY <1>1
    <3>2. i \in V /\ V \subseteq 1 .. Len(s)
      BY <3>1
    <3> QED BY <1>1, <3>1, <3>2
  <2>2. Max(V) = i
    BY <2>1, MaxIs
  <2>3. V \ {i} = 1 .. i - 1
    BY <2>1
  <2>4. F[i] = f[V] /\ F[i - 1] = f[1 .. i - 1]
    BY <1>1
  <2> HIDE DEF V
  <2>5. f[V] = AddRequest(f[V \ {Max(V)}], s[Max(V)])
    BY <1>2, <2>1
  <2> QED BY <2>2, <2>3, <2>4, <2>5
<1>6. F[Len(s)] = f[DOMAIN s]
  BY <1>1
<1> HIDE DEF F
<1> QED BY <1>3, <1>4, <1>5, <1>6

(* No two requests with one name, and none without a name.                 *)
Distinct(reqs) == \A i, j \in DOMAIN reqs : reqs[i].name = reqs[j].name => i = j

(* module_already_requested() keeps a second one out.                      *)
LEMMA AddRequestDistinct ==
  ASSUME NEW reqs \in Seq(Requests), NEW r \in Requests, Distinct(reqs)
  PROVE  AddRequest(reqs, r) \in Seq(Requests) /\ Distinct(AddRequest(reqs, r))
<1>1. CASE AlreadyRequested(reqs, r)
  BY <1>1 DEF AddRequest
<1>2. CASE ~AlreadyRequested(reqs, r)
  <2> DEFINE t == Append(reqs, r)
  <2>1. AddRequest(reqs, r) = t
    BY <1>2 DEF AddRequest
  <2>2. \A i \in DOMAIN reqs : reqs[i].name # r.name
    BY <1>2 DEF AlreadyRequested
  <2>3. /\ t \in Seq(Requests) /\ Len(reqs) \in Nat /\ DOMAIN reqs = 1 .. Len(reqs)
        /\ DOMAIN t = 1 .. Len(reqs) + 1 /\ t[Len(reqs) + 1] = r
        /\ \A i \in DOMAIN reqs : t[i] = reqs[i]
    OBVIOUS
  <2> HIDE DEF t
  <2>4. ASSUME NEW i \in DOMAIN t, NEW j \in DOMAIN t, t[i].name = t[j].name PROVE i = j
    <3>1. \A x \in DOMAIN t : x \in DOMAIN reqs \/ x = Len(reqs) + 1
      BY <2>3
    <3> QED BY <2>2, <2>3, <2>4, <3>1 DEF Distinct
  <2> QED BY <2>1, <2>3, <2>4 DEF Distinct
<1> QED BY <1>1, <1>2

(* speechd_load_configuration(): whatever the configuration file names and *)
(* whatever is in the directories of modules, no module is asked for twice.*)
THEOREM RequestedCorrect ==
  ASSUME NEW conf \in Configurations
  PROVE  Requested(conf) \in Seq(Requests) /\ Distinct(Requested(conf))
<1> DEFINE wanted == IF conf.modules = <<>> THEN Detected ELSE conf.modules
           all == wanted \o <<Fallback, Dummy>>
<1>1. all \in Seq(Requests)
  <2>1. Fallback \in Requests /\ Dummy \in Requests
    BY LoadAssumption
  <2>2. wanted \in Seq(Requests)
    BY LifeAssumption, DetectedType
  <2> HIDE DEF wanted
  <2> QED BY <2>1, <2>2
<1> HIDE DEF all
<1>2. PICK F : /\ F[0] = <<>> /\ FoldLeft(AddRequest, <<>>, all) = F[Len(all)]
               /\ \A i \in 1 .. Len(all) : F[i] = AddRequest(F[i - 1], all[i])
  BY <1>1, FoldRequests
<1> DEFINE Good(i) == F[i] \in Seq(Requests) /\ Distinct(F[i])
           Bad == {i \in 0 .. Len(all) : ~Good(i)}
<1>3. Bad = {}
  <2> SUFFICES ASSUME Bad # {} PROVE FALSE
    OBVIOUS
  <2>1. PICK i \in Bad : \A y \in Bad : i <= y
    <3>1. Bad \subseteq Nat
      BY <1>1
    <3> HIDE DEF Bad
    <3> QED BY <3>1, Least
  <2>2. Good(0)
    BY <1>2 DEF Distinct
  <2>3. i # 0 /\ i \in 1 .. Len(all) /\ i - 1 \in 0 .. Len(all) /\ ~(i <= i - 1)
    <3> HIDE DEF Good
    <3> QED BY <1>1, <2>1, <2>2
  <2>4. Good(i - 1)
    <3> HIDE DEF Good
    <3> QED BY <2>1, <2>3
  <2>5. F[i] = AddRequest(F[i - 1], all[i]) /\ all[i] \in Requests
    BY <1>1, <1>2, <2>3
  <2>6. Good(i)
    BY <2>4, <2>5, AddRequestDistinct
  <2> QED BY <2>1, <2>6
<1>4. Good(Len(all))
  BY <1>1, <1>3
<1>5. Requested(conf) = IF ~conf.readable THEN <<>> ELSE F[Len(all)]
  BY <1>2, Zenon DEF Requested, all
<1> QED BY <1>4, <1>5 DEF Distinct

-----------------------------------------------------------------------------
(* The invariant. *)

Module   == [name : RequestNames, works : BOOLEAN, fd : Descriptors, pid : Nat]
OneClient == [id : Nat, fd : Descriptors]

(* What the variables hold that the other parts of the invariant speak of. *)
LifeType ==
  /\ modules \in Seq(Module) /\ todo \in Seq(Requests)
  /\ DOMAIN owner = Descriptors
  /\ {starts, connects, at} \subseteq Nat
  /\ clients \subseteq OneClient

(* No module is loaded, or waits to be loaded, twice.                      *)
NamesInv ==
  /\ Distinct(modules) /\ Distinct(todo)
  /\ \A i \in DOMAIN modules, j \in DOMAIN todo : modules[i].name # todo[j].name

(* Two modules do not share a process.                                     *)
PidsInv ==
  /\ \A i \in DOMAIN modules : modules[i].pid <= starts
  /\ \A i, j \in DOMAIN modules : modules[i].pid = modules[j].pid => i = j

LifeInv == LifeType /\ NamesInv /\ PidsInv /\ NoOrphans /\ OwnDescriptors

(* What a loaded module and a client are made of.                          *)
LEMMA Types ==
  ASSUME LifeType
  PROVE  /\ DOMAIN modules = 1 .. Len(modules) /\ Len(modules) \in Nat
         /\ \A i \in DOMAIN modules :
              /\ modules[i] \in Module /\ modules[i].name \in RequestNames
              /\ modules[i].works \in BOOLEAN
              /\ modules[i].fd \in Descriptors /\ modules[i].pid \in Nat
         /\ \A c \in clients : c.id \in Nat /\ c.fd \in Descriptors
<1>1. DOMAIN modules = 1 .. Len(modules) /\ Len(modules) \in Nat
  BY DEF LifeType
<1>2. \A i \in DOMAIN modules : modules[i] \in Module
  BY <1>1 DEF LifeType
<1>3. \A m \in Module : /\ m.name \in RequestNames /\ m.works \in BOOLEAN
                        /\ m.fd \in Descriptors /\ m.pid \in Nat
  BY DEF Module
<1>4. \A c \in clients : c.id \in Nat /\ c.fd \in Descriptors
  BY DEF LifeType, OneClient
<1> QED BY <1>1, <1>2, <1>3, <1>4

(* A list of modules, one of which is replaced.                            *)
LEMMA Replaced ==
  ASSUME NEW S, NEW s \in Seq(S), NEW i \in DOMAIN s, NEW x \in S
  PROVE  /\ [s EXCEPT ![i] = x] \in Seq(S) /\ DOMAIN [s EXCEPT ![i] = x] = DOMAIN s
         /\ [s EXCEPT ![i] = x][i] = x
         /\ \A j \in DOMAIN s : j # i => [s EXCEPT ![i] = x][j] = s[j]
OBVIOUS

(* A step that moves no module, descriptor, process or client.             *)
LEMMA Frame ==
  ASSUME LifeInv, {at', connects'} \subseteq Nat,
         UNCHANGED <<modules, todo, owner, starts, lingering, clients, crossed>>,
         running' \subseteq running
  PROVE  LifeInv'
<1>1. Pids' = Pids
  BY DEF Pids
<1> QED BY <1>1 DEF LifeInv, LifeType, NamesInv, Distinct, PidsInv, NoOrphans, OwnDescriptors

(* A step that only marks a module as not working.                         *)
LEMMA NoticeStep ==
  ASSUME LifeInv, NEW i \in DOMAIN modules, modules' = [modules EXCEPT ![i].works = FALSE],
         UNCHANGED <<todo, owner, starts, running, lingering, clients, crossed, at, connects>>
  PROVE  LifeInv'
<1>0. modules \in Seq(Module) /\ DOMAIN modules = 1 .. Len(modules) /\ Len(modules) \in Nat
  BY DEF LifeInv, LifeType
<1>1. DOMAIN modules' = DOMAIN modules
  BY <1>0
<1>2. ASSUME NEW j \in DOMAIN modules
      PROVE  /\ modules'[j].name = modules[j].name /\ modules'[j].fd = modules[j].fd
             /\ modules'[j].pid = modules[j].pid /\ modules'[j].works => modules[j].works
             /\ modules'[j] \in Module
  <2>1. modules[j] \in Module
    BY <1>0
  <2> QED BY <1>0, <2>1 DEF Module
<1>3. modules' \in Seq(Module)
  <2> DEFINE m == [modules[i] EXCEPT !.works = FALSE]
  <2>1. m \in Module
    <3>1. \A x \in Module : [x EXCEPT !.works = FALSE] \in Module
      BY DEF Module
    <3> QED BY <1>0, <3>1
  <2>2. modules' = [modules EXCEPT ![i] = m]
    OBVIOUS
  <2> HIDE DEF m
  <2>3. [modules EXCEPT ![i] = m] \in Seq(Module)
    BY <1>0, <2>1, Replaced
  <2> QED BY <2>2, <2>3
<1>4. Pids' = Pids
  BY <1>1, <1>2 DEF Pids
<1>5. LifeType' /\ NamesInv' /\ PidsInv'
  BY <1>1, <1>2, <1>3 DEF LifeInv, LifeType, NamesInv, Distinct, PidsInv
<1>6. NoOrphans' /\ OwnDescriptors'
  BY <1>1, <1>2, <1>4 DEF LifeInv, NoOrphans, OwnDescriptors
<1> QED BY <1>5, <1>6 DEF LifeInv

(* The descriptor that pipe() or accept() takes is free.                   *)
LEMMA LowestFreeType ==
  ASSUME Free # {}
  PROVE  LowestFree \in Descriptors /\ owner[LowestFree] = Nobody
<1>1. Free \subseteq Nat
  BY LifeAssumption DEF Free
<1> QED BY <1>1, FirstOfType DEF LowestFree, Free

(* The owners of descriptors are told apart.                               *)
LEMMA Owners ==
  /\ \A x, y : /\ ModuleOwner(x) # Client(y) /\ ModuleOwner(x) \notin {Nobody, Leaked}
               /\ Client(x) \notin {Nobody, Leaked}
               /\ ModuleOwner(x) = ModuleOwner(y) => x = y
               /\ Client(x) = Client(y) => x = y
BY DEF ModuleOwner, Client, Nobody, Leaked, Tag

(* load_output_module() for the next request.                              *)
LEMMA LoadStep ==
  ASSUME LifeInv, LoadNext
  PROVE  LifeInv'
<1>0. /\ modules \in Seq(Module) /\ DOMAIN modules = 1 .. Len(modules) /\ Len(modules) \in Nat
      /\ todo \in Seq(Requests) /\ todo # <<>> /\ todo' = Tail(todo)
      /\ starts \in Nat /\ connects' = connects /\ at' = at /\ clients' = clients
      /\ crossed' = crossed
  BY DEF LifeInv, LifeType, LoadNext, unchangedByLoad, loop
<1>a. /\ \A i \in DOMAIN modules : modules[i].fd \in Descriptors /\ modules[i].pid \in Nat
      /\ \A c \in clients : c.fd \in Descriptors
  BY Types DEF LifeInv
<1> DEFINE name == Head(todo).name
<1>1. /\ todo' \in Seq(Requests) /\ name \in RequestNames /\ Head(todo) = todo[1]
      /\ 1 \in DOMAIN todo
      /\ \A j \in DOMAIN todo' : /\ j + 1 \in DOMAIN todo /\ j + 1 # 1 /\ j \in Nat
                                 /\ todo'[j] = todo[j + 1]
  BY <1>0 DEF RequestNames
<1> HIDE DEF name
<1>2. /\ \A i, j \in DOMAIN todo' : todo'[i].name = todo'[j].name => i = j
      /\ \A j \in DOMAIN todo' : todo'[j].name # name
      /\ \A i \in DOMAIN modules : modules[i].name # name
      /\ \A i \in DOMAIN modules, j \in DOMAIN todo' : modules[i].name # todo'[j].name
  <2>1. \A i, j \in DOMAIN todo : todo[i].name = todo[j].name => i = j
    BY DEF LifeInv, NamesInv, Distinct
  <2>2. ASSUME NEW i \in DOMAIN todo', NEW j \in DOMAIN todo', todo'[i].name = todo'[j].name
        PROVE  i = j
    BY <1>1, <2>1, <2>2
  <2>3. ASSUME NEW j \in DOMAIN todo' PROVE todo'[j].name # name
    BY <1>1, <2>1, <2>3 DEF name
  <2> QED BY <1>1, <2>2, <2>3 DEF LifeInv, NamesInv, name
<1>3. CASE modules' = modules
  <2>1. /\ DOMAIN owner' = Descriptors
        /\ \A d \in Descriptors : owner'[d] = owner[d] \/ owner[d] = Nobody
    <3>1. CASE Free # {}
      BY <1>3, <3>1, LowestFreeType, <1>0 DEF LoadNext, LifeInv, LifeType, NoPipe
    <3>2. CASE Free = {}
      BY <3>2 DEF LoadNext, LifeInv, LifeType, NoPipe
    <3> QED BY <3>1, <3>2
  <2>2. starts' \in Nat /\ starts <= starts' /\ running' \subseteq running \cup lingering'
        /\ lingering \subseteq lingering'
    <3>1. CASE Fails
      BY <1>0, <3>1 DEF Fails, LifeInv, NoOrphans
    <3>2. CASE NoPipe
      BY <1>0, <3>2 DEF NoPipe
    <3>3. ASSUME NEW m PROVE Append(modules, m) # modules
      <4> DEFINE S == Module \cup {m}
      <4>1. modules \in Seq(S)
        <5>1. \A i \in DOMAIN modules : modules[i] \in S
          BY <1>0
        <5>2. modules = [i \in 1 .. Len(modules) |-> modules[i]]
          BY <1>0
        <5> HIDE DEF S
        <5> QED BY <1>0, <5>1, <5>2
      <4>2. m \in S
        OBVIOUS
      <4> HIDE DEF S
      <4>3. Len(Append(modules, m)) = Len(modules) + 1
        BY <4>1, <4>2
      <4> DEFINE longer == Append(modules, m)
      <4>4. Len(longer) = Len(modules) + 1 /\ Len(modules) \in Nat
        BY <1>0, <4>3
      <4>5. Len(longer) # Len(modules)
        BY <4>4
      <4> HIDE DEF longer
      <4> QED BY <4>5
    <3>4. Fails \/ NoPipe
      BY <1>3, <3>3 DEF LoadNext
    <3> QED BY <3>1, <3>2, <3>4
  <2>3. Pids' = Pids
    BY <1>3 DEF Pids
  <2>4. LifeType' /\ NamesInv'
    BY <1>0, <1>1, <1>2, <1>3, <2>1, <2>2 DEF LifeInv, LifeType, NamesInv, Distinct
  <2>5. PidsInv'
    BY <1>0, <1>a, <1>3, <2>2 DEF LifeInv, PidsInv
  <2>6. NoOrphans'
    BY <2>2, <2>3 DEF LifeInv, NoOrphans
  <2>7. OwnDescriptors'
    BY <1>0, <1>a, <1>3, <2>1, Owners DEF LifeInv, OwnDescriptors
  <2> QED BY <2>4, <2>5, <2>6, <2>7 DEF LifeInv
<1>4. CASE modules' # modules
  <2> DEFINE n == Len(modules) + 1
             new == Loaded(name)
  <2>1. /\ Free # {} /\ starts' = starts + 1 /\ running' = running \cup {starts + 1}
        /\ lingering' = lingering /\ modules' = Append(modules, new)
        /\ owner' = [owner EXCEPT ![LowestFree] = ModuleOwner(starts + 1)]
    BY <1>4 DEF LoadNext, NoPipe, Starts, name
  <2>2. LowestFree \in Descriptors /\ owner[LowestFree] = Nobody
    BY <2>1, LowestFreeType
  <2>3. /\ new \in Module /\ new.name = name /\ new.works /\ new.fd = LowestFree
        /\ new.pid = starts + 1
    BY <1>0, <1>1, <2>2 DEF Loaded, Module
  <2> HIDE DEF new
  <2>4. /\ modules' \in Seq(Module) /\ n \in DOMAIN modules' /\ modules'[n] = new
        /\ \A i \in DOMAIN modules : i \in DOMAIN modules' /\ modules'[i] = modules[i] /\ i # n
        /\ \A i \in DOMAIN modules' : i = n \/ i \in DOMAIN modules
    BY <1>0, <2>1, <2>3
  <2> HIDE DEF n
  <2>5. LifeType'
    BY <1>0, <1>1, <2>1, <2>4 DEF LifeInv, LifeType
  <2>6. NamesInv'
    <3>1. \A i, j \in DOMAIN modules : modules[i].name = modules[j].name => i = j
      BY DEF LifeInv, NamesInv, Distinct
    <3> QED BY <1>2, <2>3, <2>4, <3>1 DEF NamesInv, Distinct
  <2>7. PidsInv'
    <3>1. \A i \in DOMAIN modules : /\ modules[i].pid \in Nat /\ modules[i].pid <= starts
                                    /\ modules[i].pid # starts + 1 /\ modules[i].pid <= starts + 1
      BY <1>0, <1>a DEF LifeInv, PidsInv
    <3>2. \A i, j \in DOMAIN modules : modules[i].pid = modules[j].pid => i = j
      BY DEF LifeInv, PidsInv
    <3> QED BY <1>0, <2>1, <2>3, <2>4, <3>1, <3>2 DEF PidsInv
  <2>8. NoOrphans'
    <3>1. Pids \cup {starts + 1} \subseteq Pids'
      BY <2>3, <2>4 DEF Pids
    <3> QED BY <2>1, <3>1 DEF LifeInv, NoOrphans
  <2>9. OwnDescriptors'
    <3>1. \A d \in Descriptors : owner'[d] = owner[d] \/ owner[d] = Nobody
      BY <2>1, <2>2 DEF LifeInv, LifeType
    <3>2. owner'[LowestFree] = ModuleOwner(starts + 1)
      BY <2>1, <2>2 DEF LifeInv, LifeType
    <3> SUFFICES ASSUME ~crossed PROVE OwnDescriptors'
      BY <1>0 DEF OwnDescriptors
    <3>3. ASSUME NEW c \in clients PROVE owner'[c.fd] = Client(c.id)
      BY <1>a, <3>1, Owners DEF LifeInv, OwnDescriptors
    <3>4. ASSUME NEW i \in DOMAIN modules, modules[i].works
          PROVE  owner'[modules[i].fd] = ModuleOwner(modules[i].pid)
      BY <1>a, <3>1, <3>4, Owners DEF LifeInv, OwnDescriptors
    <3> QED BY <1>0, <2>3, <2>4, <3>2, <3>3, <3>4 DEF OwnDescriptors
  <2> QED BY <2>5, <2>6, <2>7, <2>8, <2>9 DEF LifeInv
<1> QED BY <1>3, <1>4

(* Unloading every module closes no descriptor of a client, unless it is   *)
(* noted in crossed.                                                       *)
LEMMA UnloadStep ==
  ASSUME LifeInv, UnloadAll, todo' \in Seq(Requests), Distinct(todo'),
         clients' \in {{}, clients}, UNCHANGED <<starts, lingering, at, connects>>
  PROVE  LifeInv'
<1> DEFINE S == {modules[i].fd : i \in DOMAIN modules}
           own == {ModuleOwner(pid) : pid \in Pids}
<1>1. /\ modules' = <<>> /\ running' = running \ Pids
      /\ owner' = [d \in Descriptors |-> IF d \in S THEN Nobody ELSE owner[d]]
      /\ ~crossed' => ~crossed /\ \A d \in S : owner[d] \in own \cup {Nobody, Leaked}
  BY DEF UnloadAll, Closes
<1>2. Pids' = {} /\ DOMAIN modules' = {} /\ modules' \in Seq(Module)
  BY <1>1 DEF Pids
<1>3. LifeType' /\ NamesInv' /\ PidsInv'
  BY <1>1, <1>2 DEF LifeInv, LifeType, NamesInv, Distinct, PidsInv
<1>4. NoOrphans'
  BY <1>1, <1>2 DEF LifeInv, NoOrphans
<1>5. ASSUME NEW c \in clients, ~crossed' PROVE owner'[c.fd] = Client(c.id)
  <2>1. owner[c.fd] = Client(c.id) /\ c.fd \in Descriptors
    BY <1>1, <1>5, Types DEF LifeInv, OwnDescriptors
  <2>2. c.fd \notin S
    BY <1>1, <1>5, <2>1, Owners
  <2> QED BY <1>1, <2>1, <2>2
<1>6. OwnDescriptors'
  BY <1>2, <1>5 DEF OwnDescriptors
<1> QED BY <1>3, <1>4, <1>6 DEF LifeInv

(* reload_output_module() for a module that does not work.                 *)
LEMMA ReloadStep ==
  ASSUME LifeInv, NEW i \in DOMAIN modules, ~modules[i].works, Reload(i),
         clients' = clients, connects' = connects, at' \in Nat, ~crossed
  PROVE  LifeInv'
<1> DEFINE old  == modules[i]
           free == Free \cup {old.fd}
           fd   == FirstOf(free)
           new  == starts + 1
           m    == [name |-> old.name, works |-> TRUE, fd |-> fd, pid |-> new]
<1>0. /\ modules \in Seq(Module) /\ DOMAIN modules = 1 .. Len(modules) /\ Len(modules) \in Nat
      /\ starts \in Nat
      /\ \A j \in DOMAIN modules : /\ modules[j] \in Module /\ modules[j].name \in RequestNames
                                   /\ modules[j].fd \in Descriptors /\ modules[j].pid \in Nat
      /\ \A c \in clients : c.fd \in Descriptors
  BY Types DEF LifeInv, LifeType
<1>1. fd \in Descriptors /\ (owner[fd] = Nobody \/ fd = old.fd)
  <2>1. free \subseteq Nat /\ free # {} /\ free \subseteq Descriptors
    BY <1>0, LifeAssumption DEF Free
  <2>2. fd \in free
    <3> HIDE DEF free
    <3> QED BY <2>1, FirstOfType
  <2> QED BY <2>1, <2>2 DEF Free
<1>2. ~crossed' => owner[old.fd] \in {Nobody, Leaked, ModuleOwner(old.pid)}
  BY DEF Reload
<1>3. PICK o : owner' = [owner EXCEPT ![old.fd] = Nobody, ![fd] = o]
  BY DEF Reload
<1>4. UNCHANGED <<todo>> /\ starts' = new /\ lingering \subseteq lingering'
  BY DEF Reload
<1> HIDE DEF fd, free
<1>5. /\ DOMAIN owner' = Descriptors
      /\ \A d \in Descriptors : d # old.fd /\ d # fd => owner'[d] = owner[d]
  BY <1>3 DEF LifeInv, LifeType
<1>6. ASSUME NEW c \in clients, ~crossed' PROVE owner'[c.fd] = Client(c.id)
  <2>1. owner[c.fd] = Client(c.id)
    BY DEF LifeInv, OwnDescriptors
  <2>2. c.fd # old.fd
    BY <1>2, <1>6, <2>1, Owners
  <2>3. c.fd # fd
    BY <1>1, <2>1, <2>2, Owners
  <2> QED BY <1>0, <1>5, <2>1, <2>2, <2>3
<1>7. ASSUME NEW j \in DOMAIN modules, j # i, modules[j].works, ~crossed'
      PROVE  owner'[modules[j].fd] = ModuleOwner(modules[j].pid)
  <2>1. owner[modules[j].fd] = ModuleOwner(modules[j].pid)
    BY <1>7 DEF LifeInv, OwnDescriptors
  <2>2. modules[j].pid # old.pid
    BY <1>7 DEF LifeInv, PidsInv
  <2>3. modules[j].fd # old.fd
    BY <1>2, <1>7, <2>1, <2>2, Owners
  <2>4. modules[j].fd # fd
    BY <1>1, <2>1, <2>3, Owners
  <2> QED BY <1>0, <1>5, <2>1, <2>3, <2>4
<1> DEFINE Succeeds == /\ modules' = Put(i, m) /\ running' = (running \ {old.pid}) \cup {new}
                       /\ owner' = [owner EXCEPT ![old.fd] = Nobody, ![fd] = ModuleOwner(new)]
                       /\ lingering' = lingering
           Refused == modules' = modules /\ running' \subseteq running \cup lingering'
<1>a. Succeeds \/ Refused
  BY DEF Reload, fd, free
<1> HIDE DEF Succeeds, Refused
<1>8. CASE Refused
  <2>0. modules' = modules
    BY <1>8 DEF Refused
  <2>2. NoOrphans'
    BY <1>4, <1>8 DEF LifeInv, NoOrphans, Pids, Refused
  <2>3. OwnDescriptors'
    BY <1>6, <1>7, <2>0 DEF OwnDescriptors
  <2>4. LifeType' /\ NamesInv' /\ PidsInv'
    BY <1>0, <1>4, <1>5, <2>0 DEF LifeInv, LifeType, NamesInv, Distinct, PidsInv
  <2> QED BY <2>2, <2>3, <2>4 DEF LifeInv
<1>9. CASE Succeeds
  <2>1. /\ modules' = Put(i, m) /\ running' = (running \ {old.pid}) \cup {new}
        /\ owner' = [owner EXCEPT ![old.fd] = Nobody, ![fd] = ModuleOwner(new)]
        /\ lingering' = lingering
    BY <1>9 DEF Succeeds
  <2>2. /\ m \in Module /\ m.name = old.name /\ m.fd = fd /\ m.pid = new
    BY <1>0, <1>1 DEF Module
  <2> HIDE DEF m
  <2>3. /\ modules' \in Seq(Module) /\ DOMAIN modules' = DOMAIN modules /\ modules'[i] = m
        /\ \A j \in DOMAIN modules : j # i => modules'[j] = modules[j]
    BY <1>0, <2>1, <2>2, Replaced DEF Put
  <2>4. LifeType'
    BY <1>0, <1>4, <1>5, <2>3 DEF LifeInv, LifeType
  <2>5. NamesInv'
    <3>1. \A j \in DOMAIN modules : modules'[j].name = modules[j].name
      BY <2>2, <2>3
    <3> QED BY <1>4, <2>3, <3>1 DEF LifeInv, NamesInv, Distinct
  <2>6. PidsInv'
    <3>1. \A j \in DOMAIN modules : j # i => modules'[j].pid # new /\ modules'[j].pid <= new
      BY <1>0, <2>3 DEF LifeInv, PidsInv
    <3>2. modules'[i].pid = new /\ new <= new
      BY <1>0, <2>2, <2>3
    <3> QED BY <1>4, <2>3, <3>1, <3>2 DEF LifeInv, PidsInv
  <2>7. NoOrphans'
    <3>1. ASSUME NEW p \in Pids, p # old.pid PROVE p \in Pids'
      BY <2>3, <3>1 DEF Pids
    <3>2. new \in Pids'
      BY <2>2, <2>3 DEF Pids
    <3> QED BY <2>1, <3>1, <3>2 DEF LifeInv, NoOrphans
  <2>8. owner'[fd] = ModuleOwner(new)
    BY <1>1, <2>1 DEF LifeInv, LifeType
  <2>9. OwnDescriptors'
    BY <1>6, <1>7, <2>2, <2>3, <2>8 DEF OwnDescriptors
  <2> QED BY <2>4, <2>5, <2>6, <2>7, <2>9 DEF LifeInv
<1> QED BY <1>a, <1>8, <1>9

(* A client comes, and is given a free descriptor.                         *)
LEMMA AcceptStep ==
  ASSUME LifeInv, Accept
  PROVE  LifeInv'
<1> DEFINE c == [id |-> connects, fd |-> LowestFree]
<1>1. /\ UNCHANGED <<modules, todo, starts, running, lingering, at, connects, crossed>>
      /\ clients' = clients \cup {c} /\ Free # {}
      /\ owner' = [owner EXCEPT ![LowestFree] = Client(connects)]
  BY DEF Accept, bounds
<1>2. LowestFree \in Descriptors /\ owner[LowestFree] = Nobody /\ connects \in Nat
  BY <1>1, LowestFreeType DEF LifeInv, LifeType
<1>3. c \in OneClient /\ c.fd = LowestFree /\ c.id = connects
  BY <1>2 DEF OneClient
<1> HIDE DEF c
<1>4. LifeType' /\ NamesInv' /\ PidsInv'
  BY <1>1, <1>2, <1>3 DEF LifeInv, LifeType, NamesInv, Distinct, PidsInv
<1>5. NoOrphans'
  BY <1>1 DEF LifeInv, NoOrphans, Pids
<1>6. /\ \A d \in Descriptors : owner'[d] = owner[d] \/ owner[d] = Nobody
      /\ owner'[LowestFree] = Client(connects)
  BY <1>1, <1>2 DEF LifeInv, LifeType
<1>7. OwnDescriptors'
  <2> SUFFICES ASSUME ~crossed PROVE OwnDescriptors'
    BY <1>1 DEF OwnDescriptors
  <2>1. ASSUME NEW d \in clients PROVE owner'[d.fd] = Client(d.id)
    BY <1>6, Types, Owners DEF LifeInv, OwnDescriptors
  <2>2. ASSUME NEW i \in DOMAIN modules, modules[i].works
        PROVE  owner'[modules[i].fd] = ModuleOwner(modules[i].pid)
    BY <1>6, <2>2, Types, Owners DEF LifeInv, OwnDescriptors
  <2> QED BY <1>1, <1>3, <1>6, <2>1, <2>2 DEF OwnDescriptors
<1> QED BY <1>4, <1>5, <1>7 DEF LifeInv

(* A client goes: only its own descriptor is closed.                       *)
LEMMA LeaveStep ==
  ASSUME LifeInv, NEW c \in clients, Leave(c), ~crossed
  PROVE  LifeInv'
<1>1. /\ UNCHANGED <<modules, todo, starts, running, lingering, at, connects>>
      /\ clients' = clients \ {c}
      /\ owner' = [d \in Descriptors |-> IF d \in {c.fd} THEN Nobody ELSE owner[d]]
  BY DEF Leave, Closes, bounds
<1>2. LifeType' /\ NamesInv' /\ PidsInv'
  BY <1>1 DEF LifeInv, LifeType, NamesInv, Distinct, PidsInv
<1>3. NoOrphans'
  BY <1>1 DEF LifeInv, NoOrphans, Pids
<1>4. owner[c.fd] = Client(c.id)
  BY DEF LifeInv, OwnDescriptors
<1>5. ASSUME NEW d \in clients \ {c} PROVE owner'[d.fd] = Client(d.id)
  <2>1. owner[d.fd] = Client(d.id) /\ d.fd \in Descriptors
    BY Types DEF LifeInv, OwnDescriptors
  <2>2. d.fd # c.fd
    <3> SUFFICES ASSUME d.fd = c.fd PROVE FALSE
      OBVIOUS
    <3>1. d.id = c.id
      BY <1>4, <2>1, Owners
    <3> QED BY <3>1 DEF LifeInv, LifeType, OneClient
  <2> QED BY <1>1, <2>1, <2>2
<1>6. ASSUME NEW i \in DOMAIN modules, modules[i].works
      PROVE  owner'[modules[i].fd] = ModuleOwner(modules[i].pid)
  <2>1. owner[modules[i].fd] = ModuleOwner(modules[i].pid) /\ modules[i].fd \in Descriptors
    BY <1>6, Types DEF LifeInv, OwnDescriptors
  <2> QED BY <1>1, <1>4, <2>1, Owners
<1>7. OwnDescriptors'
  BY <1>1, <1>5, <1>6 DEF OwnDescriptors
<1> QED BY <1>2, <1>3, <1>7 DEF LifeInv

(* Every step keeps the invariant.                                         *)
LEMMA LifeStep ==
  ASSUME LifeInv, [Next]_vars
  PROVE  LifeInv'
<1>0. at \in Nat /\ connects \in Nat /\ todo \in Seq(Requests) /\ Distinct(<<>>)
  BY DEF LifeInv, LifeType, Distinct
<1>1. CASE UNCHANGED vars
  BY <1>0, <1>1, Frame DEF vars, load, loop, bounds
<1> SUFFICES ASSUME Next, ~crossed PROVE LifeInv'
  BY <1>1 DEF Next
<1>2. CASE Crash
  BY <1>0, <1>2, Frame DEF Crash, loop
<1>3. ASSUME NEW i \in DOMAIN modules, Notice(i) \/ HangUp(i) PROVE LifeInv'
  BY <1>3, NoticeStep DEF Notice, HangUp, loop, bounds
<1>4. CASE LoadNext
  BY <1>4, LoadStep
<1>5. CASE LoadDone \/ Poll \/ ReloadDone \/ Term \/ TimedOut \/ AcceptFails \/ LoopEnds
  BY <1>0, <1>5, Frame DEF LoadDone, Poll, ReloadDone, Term, TimedOut, AcceptFails, LoopEnds,
    load, loop, bounds
<1>6. CASE Usr1
  BY <1>0, <1>6, Frame DEF Usr1, load, bounds
<1>7. CASE ReloadNext
  <2>1. /\ at + 1 \in DOMAIN modules /\ at' \in Nat /\ clients' = clients /\ connects' = connects
    BY <1>0, <1>7 DEF ReloadNext, loop, LifeInv, LifeType
  <2>2. CASE modules[at + 1].works
    BY <1>0, <1>7, <2>1, <2>2, Frame DEF ReloadNext, Spared, load
  <2>3. CASE ~modules[at + 1].works
    BY <1>7, <2>1, <2>3, ReloadStep DEF ReloadNext
  <2> QED BY <2>2, <2>3
<1>8. CASE Hup
  <2>1. todo' \in Seq(Requests) /\ Distinct(todo')
    BY <1>8, RequestedCorrect DEF Hup
  <2> QED BY <1>8, <2>1, UnloadStep DEF Hup, bounds
<1>9. CASE Exit
  <2>1. UnloadAll /\ todo' = todo /\ clients' = {}
        /\ UNCHANGED <<starts, lingering, at, connects>>
    BY <1>9 DEF Exit, bounds
  <2>2. Distinct(todo')
    BY <2>1 DEF LifeInv, NamesInv, Distinct
  <2> QED BY <1>0, <2>1, <2>2, UnloadStep
<1>10. CASE Accept
  BY <1>10, AcceptStep
<1>11. ASSUME NEW c \in clients, Leave(c) PROVE LifeInv'
  BY <1>11, LeaveStep
<1>12. CASE Connects \/ (\E c \in clients : Leaves(c)) \/ (\E s \in {"usr1", "hup", "term"} : Signal(s))
  BY <1>0, <1>12, Frame DEF Connects, Leaves, Signal, Arrives, load, loop
<1>13. CASE Elapses
  BY <1>0, <1>13, Frame DEF Elapses, load, bounds
<1> QED BY <1>2, <1>3, <1>4, <1>5, <1>6, <1>7, <1>8, <1>9, <1>10, <1>11, <1>12, <1>13
        DEF Next, MainStep

(* So it holds in every behaviour.                                         *)
LEMMA LifeInvariant == Spec => []LifeInv
<1>1. ASSUME Init PROVE LifeInv
  <2>1. todo \in Seq(Requests) /\ Distinct(todo)
    BY <1>1, RequestedCorrect DEF Init
  <2>2. modules = <<>> /\ DOMAIN modules = {} /\ modules \in Seq(Module) /\ Pids = {}
    BY <1>1 DEF Init, Pids
  <2>3. LifeType
    BY <1>1, <2>1, <2>2 DEF Init, LifeType
  <2> QED BY <1>1, <2>1, <2>2, <2>3 DEF Init, LifeInv, NamesInv, Distinct, PidsInv, NoOrphans, OwnDescriptors
<1> QED BY <1>1, LifeStep, PTL DEF Spec

-----------------------------------------------------------------------------
(* The theorems. *)

(* No module process runs that the server does not know, save those whose  *)
(* answer to INIT was garbled: reload_output_module() and                  *)
(* unload_output_module() end also the process of a module that is marked  *)
(* as not working, whatever crashed, failed or hung up in between.         *)
THEOREM NoOrphansCorrect == Spec => []NoOrphans
<1>1. LifeInv => NoOrphans
  BY DEF LifeInv
<1> QED BY <1>1, LifeInvariant, PTL

(* Every client and every working module has the descriptor it was given,  *)
(* for any interleaving of connections, loads, reloads and configurations, *)
(* until a reload after a failed one closes a descriptor a second time.    *)
THEOREM OwnDescriptorsCorrect == Spec => []OwnDescriptors
<1>1. LifeInv => OwnDescriptors
  BY DEF LifeInv
<1> QED BY <1>1, LifeInvariant, PTL

(* get_some_output_module_by_name(), for modules with names of their own.  *)
LEMMA ChoiceCorrect ==
  ASSUME LifeType, NamesInv
  PROVE  RightModule
<1> SUFFICES ASSUME NEW name \in Names, NEW usual \in Default
             PROVE  LET i       == Chosen(modules, name, usual)
                        working == {j \in DOMAIN modules : modules[j].works}
                    IN  /\ i = 0 => working = {}
                        /\ i # 0 => /\ i \in working
                                    /\ \A j \in working : modules[j].name = name => i = j
                                    /\ modules[i].name = "dummy" /\ "dummy" \notin {name, usual}
                                         => working = {i}
  BY DEF RightModule
<1> DEFINE working == {j \in DOMAIN modules : modules[j].works}
           others  == {j \in DOMAIN modules : modules[j].works /\ modules[j].name # "dummy"}
           i       == Chosen(modules, name, usual)
<1>0. /\ DOMAIN modules = 1 .. Len(modules) /\ Len(modules) \in Nat
      /\ \A j \in DOMAIN modules : modules[j].name # NoName
      /\ \A j, k \in DOMAIN modules : modules[j].name = modules[k].name => j = k
  BY Types, LoadAssumption DEF NamesInv, Distinct
<1>1. ASSUME NEW n
      PROVE  /\ ByName(modules, n) # 0 => /\ ByName(modules, n) \in working
                                          /\ modules[ByName(modules, n)].name = n
             /\ \A j \in working : modules[j].name = n => ByName(modules, n) = j
  <2> DEFINE T == {j \in DOMAIN modules : modules[j].name = n}
             f == FirstOf(T)
  <2>1. T \subseteq Nat /\ 0 \notin T
    BY <1>0
  <2>2. T # {} => f \in T
    BY <2>1, FirstOfType
  <2>3. T = {} => f = 0
    BY DEF FirstOf
  <2>4. ByName(modules, n) = IF f # 0 /\ modules[f].works THEN f ELSE 0
    BY DEF ByName
  <2> HIDE DEF f
  <2>5. ASSUME NEW j \in working, modules[j].name = n PROVE ByName(modules, n) = j
    <3>1. j \in T /\ f \in T
      BY <2>2, <2>5
    <3>2. f = j
      BY <1>0, <2>5, <3>1
    <3> QED BY <2>1, <2>4, <3>1, <3>2
  <2> QED BY <2>2, <2>3, <2>4, <2>5
<1>2. /\ WorkingOther(modules) # 0 => WorkingOther(modules) \in others
      /\ WorkingOther(modules) = 0 => others = {}
  <2>1. others \subseteq Nat /\ 0 \notin others
    BY <1>0
  <2>2. WorkingOther(modules) = FirstOf(others)
    BY DEF WorkingOther
  <2> HIDE DEF others
  <2> QED BY <2>1, <2>2, FirstOfType DEF FirstOf
<1>3. /\ LastResort(modules) # 0 => LastResort(modules) \in working
      /\ LastResort(modules) = 0 => \A j \in working : modules[j].name # "dummy"
  <2>1. CASE modules # <<>> /\ modules[Len(modules)].works
    BY <1>0, <2>1 DEF LastResort
  <2>2. CASE ~(modules # <<>> /\ modules[Len(modules)].works)
    <3>1. LastResort(modules) = ByName(modules, "dummy")
      BY <2>2 DEF LastResort
    <3> QED BY <1>0, <1>1, <3>1
  <2> QED BY <2>1, <2>2
<1>4. CASE name # NoName /\ ByName(modules, name) # 0
  <2>1. i = ByName(modules, name)
    BY <1>4 DEF Chosen
  <2> QED BY <1>1, <1>4, <2>1
<1>5. CASE /\ ~(name # NoName /\ ByName(modules, name) # 0)
           /\ usual # NoName /\ ByName(modules, usual) # 0
  <2>1. i = ByName(modules, usual)
    BY <1>5 DEF Chosen
  <2>2. \A j \in working : modules[j].name # name
    BY <1>0, <1>1, <1>5
  <2> QED BY <1>1, <1>5, <2>1, <2>2
<1>6. CASE /\ ~(name # NoName /\ ByName(modules, name) # 0)
           /\ ~(usual # NoName /\ ByName(modules, usual) # 0)
  <2>1. i = IF WorkingOther(modules) # 0 THEN WorkingOther(modules) ELSE LastResort(modules)
    BY <1>6 DEF Chosen
  <2>2. \A j \in working : modules[j].name # name
    BY <1>0, <1>1, <1>6
  <2>3. CASE WorkingOther(modules) # 0
    BY <1>2, <2>1, <2>2, <2>3
  <2>4. CASE WorkingOther(modules) = 0
    <3>1. i = LastResort(modules) /\ \A j \in working : modules[j].name = "dummy"
      BY <1>2, <2>1, <2>4
    <3>2. \A j, k \in working : j = k
      BY <1>0, <3>1
    <3>3. i = 0 => working = {}
      <4> HIDE DEF i
      <4> QED BY <1>3, <3>1
    <3>4. i # 0 => i \in working /\ working = {i}
      <4> HIDE DEF i
      <4> QED BY <1>3, <3>1, <3>2
    <3> QED BY <2>2, <3>3, <3>4
  <2> QED BY <2>3, <2>4
<1> QED BY <1>4, <1>5, <1>6

(* In every state that crashes, reloads and new configurations can lead to *)
(* get_output_module() chooses the module that is asked for if it works,   *)
(* one that works as long as one does, and dummy, unasked, only when no    *)
(* other works: also when the default is a pointer to freed memory.        *)
THEOREM RightModuleCorrect == Spec => []RightModule
<1>1. LifeInv => RightModule
  BY ChoiceCorrect DEF LifeInv
<1> QED BY <1>1, LifeInvariant, PTL

(* While a server with a timeout runs without clients its timer is armed   *)
(* or the server is quitting: speechd_connection_new() removes the timer   *)
(* only when a client comes, and check_client_count() arms it when the     *)
(* last one goes.  It is the safety part of IdleQuits.                     *)
TimerArmed ==
  Timeout /\ main \in {"loop", "load", "reload"} /\ clients = {} =>
    timer \in {"armed", "due"} \/ quitting

THEOREM TimerArmedCorrect == Spec => []TimerArmed
<1>1. Init => TimerArmed
  BY DEF Init, TimerArmed
<1>2. TimerArmed /\ [Next]_vars => TimerArmed'
  <2> SUFFICES ASSUME TimerArmed, [Next]_vars, Timeout PROVE TimerArmed'
    BY DEF TimerArmed
  <2>1. CASE UNCHANGED vars
    BY <2>1 DEF TimerArmed, vars, load, loop, bounds
  <2>2. CASE LoadDone
    BY <2>2 DEF LoadDone, Loading, TimerArmed
  <2>3. CASE Accept
    BY <2>3 DEF Accept, TimerArmed
  <2>4. ASSUME NEW c \in clients, Leave(c) PROVE TimerArmed'
    BY <2>4 DEF Leave, Armed, TimerArmed
  <2>5. CASE LoopEnds
    BY <2>5 DEF LoopEnds, RunsAgain, TimerArmed
  <2>6. CASE Usr1 \/ Hup \/ Term \/ TimedOut \/ AcceptFails \/ Exit \/ Elapses \/ Poll
    BY <2>6 DEF Usr1, Hup, Term, TimedOut, AcceptFails, Exit, Elapses, Poll, Dispatches, TimerArmed
  <2>7. CASE LoadNext \/ ReloadNext \/ ReloadDone
    BY <2>7 DEF LoadNext, ReloadNext, ReloadDone, unchangedByLoad, loop, TimerArmed
  <2>8. CASE Crash \/ (\E i \in DOMAIN modules : Notice(i) \/ HangUp(i)) \/ Connects
             \/ (\E c \in clients : Leaves(c)) \/ (\E s \in {"usr1", "hup", "term"} : Signal(s))
    BY <2>8 DEF Crash, Notice, HangUp, Connects, Leaves, Signal, Arrives, loop, TimerArmed
  <2> QED BY <2>1, <2>2, <2>3, <2>4, <2>5, <2>6, <2>7, <2>8 DEF Next, MainStep
<1> QED BY <1>1, <1>2, PTL DEF Spec

-----------------------------------------------------------------------------
(* Texts.  Each conversion of a text replaces its elements one by one with *)
(* lists and flattens the result (Expand), so each proof about one says    *)
(* where the elements are in the flattened list.                           *)

(* The empty list is flattened to the empty list, and what is appended is  *)
(* appended.                                                               *)
LEMMA FlattenNone == FlattenSeq(<<>>) = <<>>
BY DEF FlattenSeq

LEMMA FlattenAppend ==
  ASSUME NEW S, NEW s \in Seq(Seq(S)), NEW x \in Seq(S)
  PROVE  FlattenSeq(Append(s, x)) = FlattenSeq(s) \o x
<1> DEFINE n == Len(s)
           t == Append(s, x)
           Flat(u, f) == f = [i \in 1 .. Len(u) |-> IF i = 1 THEN u[i] ELSE f[i - 1] \o u[i]]
           f == CHOOSE f : Flat(s, f)
           g == CHOOSE g : Flat(t, g)
<1>1. /\ t \in Seq(Seq(S)) /\ n \in Nat /\ Len(t) = n + 1
      /\ \A i \in 1 .. n : t[i] = s[i] /\ t[n + 1] = x
      /\ t[n + 1] = x
  BY AppendProperties
<1>2. Flat(t, g)
  <2>1. \E h : Flat(t, h)
    <3>1. Len(t) \in 1 .. Len(t) /\ t \in Seq(Seq(S))
      BY <1>1
    <3> HIDE DEF t
    <3> QED BY <3>1, FlattenExists
  <2> HIDE DEF Flat
  <2> QED BY <2>1
<1>3. FlattenSeq(t) = g[n + 1]
  <2>1. Len(t) # 0
    BY <1>1
  <2>2. FlattenSeq(t) = g[Len(t)]
    <3> HIDE DEF t
    <3> QED BY <2>1, Zenon DEF FlattenSeq
  <2> QED BY <1>1, <2>2
<1>4. CASE n = 0
  <2>1. s = <<>> /\ FlattenSeq(s) = <<>>
    BY <1>4, EmptySeq, FlattenNone
  <2>2. g[n + 1] = x
    <3> HIDE DEF g, t
    <3> QED BY <1>1, <1>2, <1>4
  <2> QED BY <1>3, <2>1, <2>2, ConcatEmptySeq
<1>5. CASE n # 0
  <2>1. Flat(s, f)
    <3>1. \E h : Flat(s, h)
      <4>1. n \in 1 .. Len(s)
        BY <1>1, <1>5
      <4> QED BY <4>1, FlattenExists
    <3> HIDE DEF Flat
    <3> QED BY <3>1
  <2>2. FlattenSeq(s) = f[n]
    BY <1>5, Zenon DEF FlattenSeq
  <2> DEFINE Bad == {k \in 1 .. n : f[k] # g[k]}
  <2> HIDE DEF f, g, t
  <2>3. Bad = {}
    <3> SUFFICES ASSUME Bad # {} PROVE FALSE
      OBVIOUS
    <3>1. PICK k \in Bad : \A y \in Bad : k <= y
      <4>1. Bad \subseteq Nat
        OBVIOUS
      <4> HIDE DEF Bad
      <4> QED BY <4>1, Least
    <3>2. k \in 1 .. n /\ (k # 1 => k - 1 \in 1 .. n /\ k - 1 < k) /\ k \in Nat
      BY <1>1
    <3>3. k # 1 => f[k - 1] = g[k - 1]
      BY <3>1, <3>2
    <3>4. f[k] = IF k = 1 THEN s[k] ELSE f[k - 1] \o s[k]
      BY <2>1, <3>2
    <3>5. g[k] = IF k = 1 THEN t[k] ELSE g[k - 1] \o t[k]
      <4>1. k \in 1 .. Len(t)
        BY <1>1, <3>2
      <4> QED BY <1>2, <4>1
    <3>6. t[k] = s[k]
      BY <1>1, <3>2
    <3>7. f[k] = g[k]
      BY <3>3, <3>4, <3>5, <3>6
    <3> QED BY <3>1, <3>7
  <2>4. g[n + 1] = g[n] \o x
    <3>1. n + 1 \in 1 .. Len(t) /\ n + 1 # 1 /\ (n + 1) - 1 = n
      BY <1>1, <1>5
    <3> QED BY <1>1, <1>2, <3>1
  <2>5. n \in 1 .. n
    BY <1>1, <1>5
  <2> QED BY <1>3, <2>2, <2>3, <2>4, <2>5 DEF t
<1> QED BY <1>4, <1>5

LEMMA Associates ==
  ASSUME NEW S, NEW s, s \in Seq(S), NEW t, t \in Seq(S), NEW u, u \in Seq(S)
  PROVE  s \o (t \o u) = (s \o t) \o u
OBVIOUS

LEMMA ConcatAppend ==
  ASSUME NEW R, NEW s, s \in Seq(R), NEW t, t \in Seq(R), NEW x, x \in R
  PROVE  s \o Append(t, x) = Append(s \o t, x) /\ s \o t \in Seq(R)
OBVIOUS

(* Flattening a concatenation.                                             *)
LEMMA FlattenConcat ==
  ASSUME NEW S, NEW a \in Seq(Seq(S)), NEW b \in Seq(Seq(S))
  PROVE  FlattenSeq(a \o b) = FlattenSeq(a) \o FlattenSeq(b)
<1> DEFINE Good(k) == FlattenSeq(a \o SubSeq(b, 1, k)) = FlattenSeq(a) \o FlattenSeq(SubSeq(b, 1, k))
           Bad == {k \in 0 .. Len(b) : ~Good(k)}
<1>1. Len(b) \in Nat
  OBVIOUS
<1>2. Bad = {}
  <2> SUFFICES ASSUME Bad # {} PROVE FALSE
    OBVIOUS
  <2>1. PICK k \in Bad : \A y \in Bad : k <= y
    <3>1. Bad \subseteq Nat
      BY <1>1
    <3> HIDE DEF Bad
    <3> QED BY <3>1, Least
  <2>2. k # 0
    <3>1. SubSeq(b, 1, 0) = <<>>
      BY SubSeqEmpty
    <3>2. a \o <<>> = a
      BY ConcatEmptySeq
    <3>3. FlattenSeq(a) \o <<>> = FlattenSeq(a)
      BY FlattenType, ConcatEmptySeq
    <3>4. Good(0)
      BY <3>1, <3>2, <3>3, FlattenNone
    <3> HIDE DEF Good
    <3> QED BY <3>4
  <2>3. k \in 1 .. Len(b) /\ k - 1 \in 0 .. Len(b) /\ ~(k <= k - 1)
    BY <1>1, <2>2
  <2>4. Good(k - 1)
    <3> HIDE DEF Good
    <3> QED BY <2>1, <2>3
  <2> DEFINE c == SubSeq(b, 1, k - 1)
  <2>5. c \in Seq(Seq(S)) /\ b[k] \in Seq(S) /\ SubSeq(b, 1, k) = c \o <<b[k]>>
    <3>1. 1 \in 1 .. Len(b) /\ k \in 1 .. Len(b)
      BY <2>3
    <3>2. \A i \in 1 .. k - 1 : b[i] \in Seq(S)
      BY <2>3
    <3>3. SubSeq(b, 1, k) = c \o <<b[k]>>
      <4>1. k \in 1 .. Len(b)
        BY <2>3
      <4> QED BY <3>1, <4>1, SubSeqRecursiveSecond
    <3>4. c \in Seq(Seq(S))
      <4>1. 1 \in Int /\ k - 1 \in Int
        BY <2>3
      <4> QED BY <3>2, <4>1, SubSeqProperties
    <3> QED BY <2>3, <3>3, <3>4
  <2> HIDE DEF c
  <2>6. SubSeq(b, 1, k) = Append(c, b[k])
    BY <2>5, AppendIsConcat
  <2>7. a \o SubSeq(b, 1, k) = Append(a \o c, b[k]) /\ a \o c \in Seq(Seq(S))
    <3> DEFINE R == Seq(S)
               x == b[k]
    <3>1. a \in Seq(R) /\ c \in Seq(R) /\ x \in R
      BY <2>5
    <3> HIDE DEF R, x, Good, Bad
    <3>2. a \o Append(c, x) = Append(a \o c, x) /\ a \o c \in Seq(R)
      BY <3>1, ConcatAppend
    <3> QED BY <2>6, <3>2 DEF R, x
  <2>8. FlattenSeq(a \o SubSeq(b, 1, k)) = (FlattenSeq(a) \o FlattenSeq(c)) \o b[k]
    <3>1. FlattenSeq(a \o c) = FlattenSeq(a) \o FlattenSeq(c)
      BY ONLY <2>4 DEF c
    <3> HIDE DEF Good, Bad
    <3>2. FlattenSeq(Append(a \o c, b[k])) = FlattenSeq(a \o c) \o b[k]
      BY ONLY <2>5, <2>7, FlattenAppend
    <3> QED BY ONLY <2>7, <3>1, <3>2
  <2>9. FlattenSeq(SubSeq(b, 1, k)) = FlattenSeq(c) \o b[k]
    BY <2>5, <2>6, FlattenAppend
  <2>10. FlattenSeq(a) \in Seq(S) /\ FlattenSeq(c) \in Seq(S)
    BY <2>5, FlattenType
  <2>11. Good(k)
    <3>1. (FlattenSeq(a) \o FlattenSeq(c)) \o b[k] = FlattenSeq(a) \o (FlattenSeq(c) \o b[k])
      <4> DEFINE fa == FlattenSeq(a)
                 fc == FlattenSeq(c)
                 bk == b[k]
      <4>1. fa \in Seq(S) /\ fc \in Seq(S) /\ bk \in Seq(S)
        BY <2>5, <2>10
      <4> HIDE DEF fa, fc, bk, Good, Bad
      <4>2. (fa \o fc) \o bk = fa \o (fc \o bk)
        BY <4>1, Associates
      <4> QED BY <4>2 DEF fa, fc, bk
    <3> QED BY <2>8, <2>9, <3>1
  <2> QED BY <2>1, <2>11
<1>3. Len(b) \in 0 .. Len(b)
  BY <1>1
<1>4. Good(Len(b))
  <2> HIDE DEF Good
  <2> QED BY <1>2, <1>3
<1> QED BY <1>4, SubSeqFull

(* The first k sequences of s, flattened, and where they end in the whole. *)
Upto(s, k) == FlattenSeq(SubSeq(s, 1, k))
BlockEnd(s, k) == Len(Upto(s, k))

LEMMA UptoEnds ==
  ASSUME NEW S, NEW s \in Seq(Seq(S))
  PROVE  Upto(s, 0) = <<>> /\ BlockEnd(s, 0) = 0 /\ Upto(s, Len(s)) = FlattenSeq(s)
<1>1. SubSeq(s, 1, 0) = <<>>
  BY SubSeqEmpty
<1>2. SubSeq(s, 1, Len(s)) = s
  BY SubSeqFull
<1> QED BY <1>1, <1>2, FlattenNone, EmptySeq DEF Upto, BlockEnd

LEMMA UptoPrefix ==
  ASSUME NEW S, NEW s \in Seq(Seq(S)), NEW k \in 0 .. Len(s)
  PROVE  \E r \in Seq(S) : FlattenSeq(s) = Upto(s, k) \o r /\ Upto(s, k) \in Seq(S)
<1> DEFINE a == SubSeq(s, 1, k)
           b == SubSeq(s, k + 1, Len(s))
<1>1. a \in Seq(Seq(S)) /\ b \in Seq(Seq(S))
  OBVIOUS
<1>2. s = a \o b
  <2>1. Len(s) \in Nat /\ k \in Int /\ 1 \in 1 .. Len(s) + 1 /\ k \in 1 - 1 .. Len(s) /\ Len(s) \in k .. Len(s)
    OBVIOUS
  <2>2. SubSeq(s, 1, k) \o SubSeq(s, k + 1, Len(s)) = SubSeq(s, 1, Len(s))
    BY <2>1, ConcatAdjacentSubSeq
  <2> QED BY <2>2, SubSeqFull
<1> HIDE DEF a, b
<1>3. FlattenSeq(a \o b) = FlattenSeq(a) \o FlattenSeq(b)
  BY <1>1, FlattenConcat
<1>4. FlattenSeq(a) \in Seq(S) /\ FlattenSeq(b) \in Seq(S)
  BY <1>1, FlattenType
<1>5. FlattenSeq(a) = Upto(s, k)
  BY DEF a, Upto
<1> QED BY <1>2, <1>3, <1>4, <1>5

LEMMA UptoStep ==
  ASSUME NEW S, NEW s \in Seq(Seq(S)), NEW k \in 1 .. Len(s)
  PROVE  /\ s[k] \in Seq(S) /\ Upto(s, k - 1) \in Seq(S) /\ Upto(s, k) \in Seq(S)
         /\ Upto(s, k) = Upto(s, k - 1) \o s[k]
         /\ BlockEnd(s, k - 1) \in Nat /\ BlockEnd(s, k) \in Nat
         /\ BlockEnd(s, k) = BlockEnd(s, k - 1) + Len(s[k])
<1> DEFINE c == SubSeq(s, 1, k - 1)
<1>1. c \in Seq(Seq(S)) /\ s[k] \in Seq(S)
  OBVIOUS
<1>2. SubSeq(s, 1, k) = Append(c, s[k])
  <2>1. 1 \in 1 .. Len(s) /\ k \in 1 .. Len(s)
    OBVIOUS
  <2>2. SubSeq(s, 1, k) = c \o <<s[k]>>
    BY <2>1, SubSeqRecursiveSecond
  <2> HIDE DEF c
  <2> QED BY <1>1, <2>2, AppendIsConcat
<1>3. Upto(s, k - 1) = FlattenSeq(c)
  BY DEF Upto
<1> HIDE DEF c
<1>4. Upto(s, k) = Upto(s, k - 1) \o s[k]
  BY <1>1, <1>2, <1>3, FlattenAppend DEF Upto
<1>5. Upto(s, k - 1) \in Seq(S)
  BY <1>1, <1>3, FlattenType
<1> DEFINE u == Upto(s, k - 1)
           v == s[k]
<1>6. u \in Seq(S) /\ v \in Seq(S) /\ Upto(s, k) = u \o v
  BY <1>1, <1>4, <1>5
<1> HIDE DEF u, v
<1>7. u \o v \in Seq(S) /\ Len(u) \in Nat /\ Len(u \o v) \in Nat /\ Len(u \o v) = Len(u) + Len(v)
  BY <1>6
<1> QED BY <1>6, <1>7 DEF BlockEnd, u, v

LEMMA UptoTwice ==
  ASSUME NEW S, NEW s \in Seq(Seq(S)), NEW p \in Nat, p + 2 <= Len(s)
  PROVE  Upto(s, p + 2) = Upto(s, p) \o (s[p + 1] \o s[p + 2])
<1>1. /\ p + 1 \in 1 .. Len(s) /\ (p + 1) - 1 = p
      /\ p + 2 \in 1 .. Len(s) /\ (p + 2) - 1 = p + 1
  OBVIOUS
<1> DEFINE x == Upto(s, p)
           y == s[p + 1]
           z == s[p + 2]
<1>2. x \in Seq(S) /\ y \in Seq(S) /\ z \in Seq(S)
  BY <1>1, UptoStep
<1>3. Upto(s, p + 2) = (x \o y) \o z
  BY <1>1, UptoStep
<1> HIDE DEF x, y, z
<1>4. x \o (y \o z) = (x \o y) \o z
  BY ONLY <1>2, Associates
<1> QED BY <1>3, <1>4 DEF x, y, z

(* The k-th sequence fills the positions after BlockEnd(s, k - 1).         *)
LEMMA Block ==
  ASSUME NEW S, NEW s \in Seq(Seq(S)), NEW k \in 1 .. Len(s)
  PROVE  /\ BlockEnd(s, k) <= Len(FlattenSeq(s))
         /\ \A j \in 1 .. Len(s[k]) : FlattenSeq(s)[BlockEnd(s, k - 1) + j] = s[k][j]
<1>1. k \in 0 .. Len(s)
  OBVIOUS
<1>2. PICK r \in Seq(S) : FlattenSeq(s) = Upto(s, k) \o r /\ Upto(s, k) \in Seq(S)
  BY <1>1, UptoPrefix
<1> DEFINE a == Upto(s, k - 1)
           b == s[k]
           u == Upto(s, k)
<1>3. a \in Seq(S) /\ b \in Seq(S) /\ u = a \o b /\ BlockEnd(s, k - 1) = Len(a)
  BY UptoStep DEF BlockEnd
<1> HIDE DEF a, b, u
<1>4. u \in Seq(S) /\ FlattenSeq(s) = u \o r
  BY <1>2 DEF u
<1>5. Len(FlattenSeq(s)) = Len(u) + Len(r) /\ Len(u) = Len(a) + Len(b)
  BY <1>3, <1>4
<1>6. \A j \in 1 .. Len(b) : FlattenSeq(s)[Len(a) + j] = b[j]
  <2> SUFFICES ASSUME NEW j \in 1 .. Len(b) PROVE FlattenSeq(s)[Len(a) + j] = b[j]
    OBVIOUS
  <2>1. Len(a) \in Nat /\ Len(b) \in Nat /\ Len(r) \in Nat /\ j \in Nat /\ Len(a) + j <= Len(u) /\ Len(a) + j >= 1
    BY <1>3, <1>5
  <2>2. FlattenSeq(s)[Len(a) + j] = u[Len(a) + j]
    BY <1>4, <2>1
  <2>3. u[Len(a) + j] = b[j]
    <3>1. \A i \in 1 .. Len(a) + Len(b) : (a \o b)[i] = IF i <= Len(a) THEN a[i] ELSE b[i - Len(a)]
      BY ONLY <1>3, ConcatProperties
    <3>2. /\ Len(a) + j \in 1 .. Len(a) + Len(b) /\ ~(Len(a) + j <= Len(a))
          /\ (Len(a) + j) - Len(a) = j
      BY <1>5, <2>1
    <3> QED BY ONLY <1>3, <3>1, <3>2
  <2> QED BY <2>2, <2>3
<1>7. BlockEnd(s, k) = Len(u) /\ Len(r) >= 0 /\ Len(u) \in Nat /\ Len(r) \in Nat
  BY <1>4 DEF BlockEnd, u
<1>8. BlockEnd(s, k) <= Len(FlattenSeq(s))
  BY <1>5, <1>7
<1> QED BY <1>3, <1>6, <1>8 DEF b

(* Every position is in one of the sequences.                              *)
LEMMA BlockOf ==
  ASSUME NEW S, NEW s \in Seq(Seq(S)), NEW i \in 1 .. Len(FlattenSeq(s))
  PROVE  \E k \in 1 .. Len(s) : i \in BlockEnd(s, k - 1) + 1 .. BlockEnd(s, k)
<1> DEFINE T == {k \in 0 .. Len(s) : i <= BlockEnd(s, k)}
<1>1. Len(s) \in T /\ T \subseteq Nat
  <2>1. BlockEnd(s, Len(s)) = Len(FlattenSeq(s)) /\ Len(s) \in 0 .. Len(s)
    BY UptoEnds DEF BlockEnd
  <2>2. Len(FlattenSeq(s)) \in Nat
    BY FlattenType, LenProperties
  <2> QED BY <2>1, <2>2
<1>2. PICK k \in T : \A y \in T : k <= y
  <2> HIDE DEF T
  <2> QED BY <1>1, Least
<1>3. k # 0
  <2>1. ~(i <= BlockEnd(s, 0)) /\ 0 \in Nat
    BY UptoEnds
  <2> QED BY <1>2, <2>1
<1>4. k \in 1 .. Len(s) /\ k - 1 \in 0 .. Len(s) /\ ~(k <= k - 1) /\ i <= BlockEnd(s, k)
  BY <1>2, <1>3
<1>5. ~(i <= BlockEnd(s, k - 1))
  BY <1>2, <1>4
<1>6. BlockEnd(s, k - 1) \in Nat /\ BlockEnd(s, k) \in Nat
  BY <1>4, UptoStep
<1> QED BY <1>4, <1>5, <1>6

(* What expands the elements of t one by one is undone by what contracts   *)
(* each block to the element it stands for.                                *)
LEMMA Undone ==
  ASSUME NEW S, NEW t \in Seq(S), NEW f \in Seq(Seq(S)), NEW g \in Seq(Seq(S)),
         Len(f) = Len(t), Len(g) = Len(FlattenSeq(f)),
         \A k \in 1 .. Len(t) :
           LET p == BlockEnd(f, k - 1)
           IN  \/ Len(f[k]) = 1 /\ g[p + 1] = <<t[k]>>
               \/ Len(f[k]) = 2 /\ g[p + 1] \o g[p + 2] = <<t[k]>>
  PROVE  FlattenSeq(g) = t
<1> DEFINE n == Len(t)
           Good(k) == Upto(g, BlockEnd(f, k)) = SubSeq(t, 1, k)
           Bad == {k \in 0 .. n : ~Good(k)}
<1>1. n \in Nat
  OBVIOUS
<1>2. Good(0)
  <2>1. BlockEnd(f, 0) = 0 /\ Upto(g, 0) = <<>>
    BY UptoEnds
  <2>2. SubSeq(t, 1, 0) = <<>>
    BY SubSeqEmpty
  <2> QED BY <2>1, <2>2
<1>3. ASSUME NEW k \in 1 .. n, Good(k - 1)
      PROVE  Good(k)
  <2> DEFINE p == BlockEnd(f, k - 1)
  <2>1. /\ p \in Nat /\ f[k] \in Seq(S) /\ BlockEnd(f, k) = p + Len(f[k])
        /\ BlockEnd(f, k) <= Len(g) /\ Len(g) \in Nat
    <3>1. k \in 1 .. Len(f)
      OBVIOUS
    <3>2. BlockEnd(f, k) <= Len(FlattenSeq(f))
      BY <3>1, Block
    <3>3. p \in Nat /\ f[k] \in Seq(S) /\ BlockEnd(f, k) = p + Len(f[k])
      BY <3>1, UptoStep
    <3> QED BY <3>2, <3>3
  <2>2. SubSeq(t, 1, k) = SubSeq(t, 1, k - 1) \o <<t[k]>>
    <3>1. 1 \in 1 .. Len(t) /\ k \in 1 .. Len(t)
      OBVIOUS
    <3> QED BY <3>1, SubSeqRecursiveSecond
  <2>3. Upto(g, p) = SubSeq(t, 1, k - 1)
    BY <1>3
  <2>4. \/ Len(f[k]) = 1 /\ g[p + 1] = <<t[k]>>
        \/ Len(f[k]) = 2 /\ g[p + 1] \o g[p + 2] = <<t[k]>>
    OBVIOUS
  <2> HIDE DEF p, Bad
  <2>5. CASE Len(f[k]) = 1 /\ g[p + 1] = <<t[k]>>
    <3>1. p + 1 \in 1 .. Len(g) /\ (p + 1) - 1 = p /\ BlockEnd(f, k) = p + 1
      BY <2>1, <2>5
    <3>2. Upto(g, p + 1) = Upto(g, p) \o g[p + 1]
      BY <3>1, UptoStep
    <3> QED BY <2>2, <2>3, <2>5, <3>1, <3>2
  <2>6. CASE Len(f[k]) = 2 /\ g[p + 1] \o g[p + 2] = <<t[k]>>
    <3>1. p + 2 <= Len(g) /\ BlockEnd(f, k) = p + 2
      BY <2>1, <2>6
    <3>2. Upto(g, p + 2) = Upto(g, p) \o (g[p + 1] \o g[p + 2])
      BY <2>1, <3>1, UptoTwice
    <3> QED BY <2>2, <2>3, <2>6, <3>1, <3>2
  <2> QED BY <2>4, <2>5, <2>6
<1>4. Bad = {}
  <2> SUFFICES ASSUME Bad # {} PROVE FALSE
    OBVIOUS
  <2>1. PICK k \in Bad : \A y \in Bad : k <= y
    <3>1. Bad \subseteq Nat
      BY <1>1
    <3> HIDE DEF Bad
    <3> QED BY <3>1, Least
  <2> HIDE DEF Good
  <2>2. k # 0
    BY <1>2, <2>1
  <2>3. k \in 1 .. n /\ k - 1 \in 0 .. n /\ ~(k <= k - 1)
    BY <1>1, <2>2
  <2>4. Good(k - 1)
    BY <2>1, <2>3
  <2> QED BY <1>3, <2>1, <2>3, <2>4
<1>5. Good(n)
  <2> HIDE DEF Good
  <2> QED BY <1>1, <1>4
<1>6. BlockEnd(f, n) = Len(g)
  BY UptoEnds DEF BlockEnd
<1> QED BY <1>5, <1>6, UptoEnds, SubSeqFull

-----------------------------------------------------------------------------
(* Dots. *)

(* f gives each element of t itself, or the dot twice.                     *)
Doubles(t, f) ==
  /\ Len(f) = Len(t)
  /\ \A k \in 1 .. Len(t) : f[k] = <<t[k]>> \/ (t[k] = Dot /\ f[k] = <<Dot, Dot>>)

(* Where the element k of t has gone, and that it still begins a line if   *)
(* it did.                                                                 *)
LEMMA DoublesPlaces ==
  ASSUME NEW S, NEW t \in Seq(S), NEW f \in Seq(Seq(S)), Doubles(t, f),
         NEW k \in 1 .. Len(t),
         NEW e, e = FlattenSeq(f), NEW p, p = BlockEnd(f, k - 1)
  PROVE  /\ p \in Nat /\ BlockEnd(f, k) = p + Len(f[k]) /\ BlockEnd(f, k) <= Len(e)
         /\ Len(f[k]) = 1 \/ (Len(f[k]) = 2 /\ t[k] = Dot /\ e[p + 2] = Dot)
         /\ e[p + 1] = t[k]
         /\ AfterNl(e, p + 1) <=> AfterNl(t, k)
         /\ AfterCrLf(e, p + 1) <=> AfterCrLf(t, k)
<1> DEFINE P(j) == BlockEnd(f, j)
<1>0. p = P(k - 1)
  OBVIOUS
<1>1. \A j \in 1 .. Len(t) :
        /\ P(j - 1) \in Nat /\ P(j) \in Nat
        /\ \/ f[j] = <<t[j]>> /\ P(j) = P(j - 1) + 1
           \/ f[j] = <<Dot, Dot>> /\ t[j] = Dot /\ P(j) = P(j - 1) + 2 /\ e[P(j - 1) + 2] = Dot
        /\ e[P(j - 1) + 1] = t[j] /\ e[P(j)] = t[j] /\ P(j) <= Len(e)
  <2> SUFFICES ASSUME NEW j \in 1 .. Len(t)
               PROVE  /\ P(j - 1) \in Nat /\ P(j) \in Nat
                      /\ \/ f[j] = <<t[j]>> /\ P(j) = P(j - 1) + 1
                         \/ f[j] = <<Dot, Dot>> /\ t[j] = Dot /\ P(j) = P(j - 1) + 2 /\ e[P(j - 1) + 2] = Dot
                      /\ e[P(j - 1) + 1] = t[j] /\ e[P(j)] = t[j] /\ P(j) <= Len(e)
    OBVIOUS
  <2>1. j \in 1 .. Len(f)
    BY DEF Doubles
  <2>2. P(j - 1) \in Nat /\ P(j) \in Nat /\ P(j) = P(j - 1) + Len(f[j])
    BY <2>1, UptoStep
  <2>3. P(j) <= Len(e) /\ \A i \in 1 .. Len(f[j]) : e[P(j - 1) + i] = f[j][i]
    BY <2>1, Block
  <2>4. f[j] = <<t[j]>> \/ (t[j] = Dot /\ f[j] = <<Dot, Dot>>)
    BY DEF Doubles
  <2> HIDE DEF P
  <2>5. CASE f[j] = <<t[j]>>
    BY <2>2, <2>3, <2>5
  <2>6. CASE t[j] = Dot /\ f[j] = <<Dot, Dot>>
    BY <2>2, <2>3, <2>6
  <2> QED BY <2>4, <2>5, <2>6
<1>2. P(0) = 0
  <2>1. 0 \in 0 .. Len(f)
    BY DEF Doubles
  <2> QED BY UptoEnds
<1>3. k > 1 => k - 1 \in 1 .. Len(t) /\ (k - 1) - 1 = k - 2
  OBVIOUS
<1>4. k > 2 => k - 2 \in 1 .. Len(t) /\ (k - 2) - 1 = k - 3
  OBVIOUS
<1>5. /\ p \in Nat /\ P(k) <= Len(e) /\ e[p + 1] = t[k]
      /\ \/ f[k] = <<t[k]>> /\ P(k) = p + 1
         \/ f[k] = <<Dot, Dot>> /\ t[k] = Dot /\ P(k) = p + 2 /\ e[p + 2] = Dot
  BY <1>1
<1>6. (k = 1 => p = 0) /\ (k > 1 => p >= 1 /\ e[p] = t[k - 1])
  <2>1. CASE k = 1
    BY <1>0, <1>2, <2>1
  <2>2. CASE k > 1
    <3>1. P(k - 2) \in Nat /\ e[p] = t[k - 1] /\ (P(k - 1) = P(k - 2) + 1 \/ P(k - 1) = P(k - 2) + 2)
      BY <1>1, <1>3, <2>2
    <3> HIDE DEF P
    <3> QED BY <1>0, <2>2, <3>1
  <2> HIDE DEF P
  <2> QED BY <2>1, <2>2
<1>7. k = 2 /\ t[1] # Dot => p = 1
  <2> SUFFICES ASSUME k = 2, t[1] # Dot PROVE p = 1
    OBVIOUS
  <2>1. 1 \in 1 .. Len(t) /\ 1 - 1 = 0 /\ k - 1 = 1
    OBVIOUS
  <2>2. P(1) = P(0) + 1
    BY <1>1, <2>1
  <2> HIDE DEF P
  <2> QED BY <1>0, <1>2, <2>1, <2>2
<1>8. k > 2 /\ t[k - 1] # Dot => p >= 2 /\ e[p - 1] = t[k - 2]
  <2> SUFFICES ASSUME k > 2, t[k - 1] # Dot PROVE p >= 2 /\ e[p - 1] = t[k - 2]
    OBVIOUS
  <2>1. p = P(k - 2) + 1 /\ e[P(k - 2)] = t[k - 2]
    <3>1. k - 1 \in 1 .. Len(t) /\ k - 2 \in 1 .. Len(t) /\ P((k - 1) - 1) = P(k - 2)
      BY <1>3, <1>4
    <3>2. P(k - 1) = P((k - 1) - 1) + 1
      BY <1>1, <3>1
    <3>3. e[P(k - 2)] = t[k - 2]
      BY <1>1, <3>1
    <3> HIDE DEF P
    <3> QED BY <1>0, <3>1, <3>2, <3>3
  <2>2. P(k - 2) >= 1 /\ P(k - 2) \in Nat
    <3>1. P(k - 3) \in Nat /\ P(k - 2) \in Nat /\ (P(k - 2) = P(k - 3) + 1 \/ P(k - 2) = P(k - 3) + 2)
      BY <1>1, <1>4
    <3> HIDE DEF P
    <3> QED BY <3>1
  <2> HIDE DEF P
  <2>3. p - 1 = P(k - 2)
    BY <2>1, <2>2
  <2> QED BY <2>1, <2>2, <2>3
<1> HIDE DEF P
<1>9. AfterNl(e, p + 1) <=> AfterNl(t, k)
  <2>1. (p + 1) - 1 = p /\ (p + 1 = 1 <=> p = 0)
    <3>1. p \in Nat
      BY <1>5
    <3> QED BY ONLY <3>1
  <2>2. k \in Nat /\ (k = 1 \/ k > 1)
    OBVIOUS
  <2> QED BY <1>5, <1>6, <2>1, <2>2 DEF AfterNl
<1>10. AfterCrLf(e, p + 1) <=> AfterCrLf(t, k)
  <2>1. /\ (p + 1) - 1 = p /\ (p + 1) - 2 = p - 1 /\ (p + 1 = 1 <=> p = 0)
        /\ (p + 1 > 2 <=> p >= 2)
    BY <1>5
  <2>2. k \in Nat /\ (k = 1 \/ k = 2 \/ k > 2)
    OBVIOUS
  <2>3. NL # Dot
    BY DEF NL, Dot
  <2>4. CASE k = 1
    BY <1>6, <2>1, <2>4 DEF AfterCrLf
  <2>5. CASE k = 2
    <3>1. ~AfterCrLf(t, k)
      BY <2>5 DEF AfterCrLf
    <3>2. ~AfterCrLf(e, p + 1)
      <4> QED BY <1>5, <1>6, <1>7, <2>1, <2>3, <2>5 DEF AfterCrLf
    <3> QED BY <3>1, <3>2
  <2>6. CASE k > 2
    <3>1. e[(p + 1) - 1] = t[k - 1] /\ p + 1 # 1 /\ k # 1
      BY <1>5, <1>6, <2>1, <2>6
    <3>2. CASE t[k - 1] = Dot
      BY <2>3, <3>1, <3>2 DEF AfterCrLf
    <3>3. CASE t[k - 1] # Dot
      <4>1. e[(p + 1) - 2] = t[k - 2] /\ p + 1 > 2
        BY <1>8, <2>1, <2>6, <3>3
      <4> QED BY <2>6, <3>1, <4>1 DEF AfterCrLf
    <3> QED BY <3>2, <3>3
  <2> QED BY <2>2, <2>4, <2>5, <2>6
<1>11. (f[k] = <<t[k]>> => Len(f[k]) = 1) /\ (f[k] = <<Dot, Dot>> => Len(f[k]) = 2)
  <2>1. Len(<<t[k]>>) = 1 /\ Len(<<Dot, Dot>>) = 2
    BY ONLY TRUE
  <2> QED BY ONLY <2>1
<1>12. P(k) = p + Len(f[k])
  BY <1>5, <1>11
<1>13. Len(f[k]) = 1 \/ (Len(f[k]) = 2 /\ t[k] = Dot /\ e[p + 2] = Dot)
  BY <1>5, <1>11
<1> QED BY <1>5, <1>9, <1>10, <1>12, <1>13 DEF P

(* A doubled dot is not behind the end of a line.                          *)
LEMMA SecondDot ==
  ASSUME NEW e, NEW p \in Nat, e[p + 1] = Dot
  PROVE  ~AfterNl(e, p + 2) /\ ~AfterCrLf(e, p + 2)
<1>1. (p + 2) - 1 = p + 1 /\ p + 2 # 1 /\ NL # Dot
  BY DEF NL, Dot
<1> QED BY <1>1 DEF AfterNl, AfterCrLf

(* Lists of lists made by position.                                        *)
LEMMA ExpandType ==
  ASSUME NEW S, NEW t \in Seq(S), NEW f, f = [k \in DOMAIN t |-> f[k]],
         \A k \in 1 .. Len(t) : f[k] \in Seq(S)
  PROVE  f \in Seq(Seq(S)) /\ Len(f) = Len(t) /\ DOMAIN f = 1 .. Len(t)
<1>1. DOMAIN t = 1 .. Len(t) /\ Len(t) \in Nat
  OBVIOUS
<1>2. f \in [1 .. Len(t) -> Seq(S)]
  BY <1>1
<1> QED BY <1>1, <1>2

(* What escape_dot() of libspeechd.c does, deescape_dot() undoes.          *)
LEMMA Doubling ==
  ASSUME NEW S, NEW t \in Seq(S), NEW D,
         \A k \in D : t[k] = Dot
  PROVE  LET f == [k \in DOMAIN t |-> IF k \in D THEN <<Dot, Dot>> ELSE <<t[k]>>]
         IN  f \in Seq(Seq(S)) /\ Doubles(t, f) /\ FlattenSeq(f) \in Seq(S)
<1> DEFINE f == [k \in DOMAIN t |-> IF k \in D THEN <<Dot, Dot>> ELSE <<t[k]>>]
<1>1. \A k \in 1 .. Len(t) : f[k] \in Seq(S) /\ (f[k] = <<t[k]>> \/ (t[k] = Dot /\ f[k] = <<Dot, Dot>>))
  <2> SUFFICES ASSUME NEW k \in 1 .. Len(t)
               PROVE  f[k] \in Seq(S) /\ (f[k] = <<t[k]>> \/ (t[k] = Dot /\ f[k] = <<Dot, Dot>>))
    OBVIOUS
  <2>1. t[k] \in S /\ k \in DOMAIN t
    OBVIOUS
  <2>2. f[k] = IF k \in D THEN <<Dot, Dot>> ELSE <<t[k]>>
    BY <2>1
  <2> HIDE DEF f
  <2>3. <<t[k]>> \in Seq(S) /\ (t[k] = Dot => <<Dot, Dot>> \in Seq(S))
    BY <2>1
  <2> QED BY <2>2, <2>3
<1>2. f = [k \in DOMAIN t |-> f[k]]
  OBVIOUS
<1> HIDE DEF f
<1>3. f \in Seq(Seq(S)) /\ Len(f) = Len(t)
  BY <1>1, <1>2, ExpandType
<1>4. Doubles(t, f)
  BY <1>1, <1>3 DEF Doubles
<1> QED BY <1>3, <1>4, FlattenType DEF f

LEMMA ClientDoubles ==
  ASSUME NEW S, NEW t \in Seq(S)
  PROVE  \E f \in Seq(Seq(S)) :
           /\ Doubles(t, f) /\ ClientEscaped(t) = FlattenSeq(f) /\ ClientEscaped(t) \in Seq(S)
           /\ \A k \in 1 .. Len(t) : Len(f[k]) = 2 <=> (t[k] = Dot /\ AfterCrLf(t, k))
<1> DEFINE f == [k \in DOMAIN t |-> IF t[k] = Dot /\ AfterCrLf(t, k) THEN <<Dot, Dot>> ELSE <<t[k]>>]
           D == {k \in DOMAIN t : t[k] = Dot /\ AfterCrLf(t, k)}
           g == [k \in DOMAIN t |-> IF k \in D THEN <<Dot, Dot>> ELSE <<t[k]>>]
<1>1. ClientEscaped(t) = FlattenSeq(f)
  BY Zenon DEF ClientEscaped, Expand
<1>2. \A k \in 1 .. Len(t) : Len(f[k]) = 2 <=> (t[k] = Dot /\ AfterCrLf(t, k))
  OBVIOUS
<1>3. f = g
  OBVIOUS
<1>4. g \in Seq(Seq(S)) /\ Doubles(t, g) /\ FlattenSeq(g) \in Seq(S)
  <2>1. \A k \in D : t[k] = Dot
    OBVIOUS
  <2> HIDE DEF D
  <2> QED BY <2>1, Doubling
<1> HIDE DEF f, g
<1> QED BY <1>1, <1>2, <1>3, <1>4

LEMMA ModuleDoubles ==
  ASSUME NEW S, NEW t \in Seq(S)
  PROVE  \E f \in Seq(Seq(S)) :
           /\ Doubles(t, f) /\ ModuleEscaped(t) = FlattenSeq(f) /\ ModuleEscaped(t) \in Seq(S)
           /\ \A k \in 1 .. Len(t) : Len(f[k]) = 2 <=> (t[k] = Dot /\ AfterNl(t, k))
<1> DEFINE f == [k \in DOMAIN t |-> IF t[k] = Dot /\ AfterNl(t, k) THEN <<Dot, Dot>> ELSE <<t[k]>>]
           D == {k \in DOMAIN t : t[k] = Dot /\ AfterNl(t, k)}
           g == [k \in DOMAIN t |-> IF k \in D THEN <<Dot, Dot>> ELSE <<t[k]>>]
<1>1. ModuleEscaped(t) = FlattenSeq(f)
  BY Zenon DEF ModuleEscaped, Expand
<1>2. \A k \in 1 .. Len(t) : Len(f[k]) = 2 <=> (t[k] = Dot /\ AfterNl(t, k))
  OBVIOUS
<1>3. f = g
  OBVIOUS
<1>4. g \in Seq(Seq(S)) /\ Doubles(t, g) /\ FlattenSeq(g) \in Seq(S)
  <2>1. \A k \in D : t[k] = Dot
    OBVIOUS
  <2> HIDE DEF D
  <2> QED BY <2>1, Doubling
<1> HIDE DEF f, g
<1> QED BY <1>1, <1>2, <1>3, <1>4

(* Every dot that begins a line of an escaped text is followed by another. *)
LEMMA ClientDotsPaired ==
  ASSUME NEW S, NEW t \in Seq(S), NEW i \in 1 .. Len(ClientEscaped(t)),
         ClientEscaped(t)[i] = Dot, AfterCrLf(ClientEscaped(t), i)
  PROVE  i < Len(ClientEscaped(t)) /\ ClientEscaped(t)[i + 1] = Dot
<1> DEFINE e == ClientEscaped(t)
<1>1. PICK f \in Seq(Seq(S)) :
        /\ Doubles(t, f) /\ e = FlattenSeq(f) /\ e \in Seq(S)
        /\ \A k \in 1 .. Len(t) : Len(f[k]) = 2 <=> (t[k] = Dot /\ AfterCrLf(t, k))
  BY ClientDoubles
<1>2. \A k \in 1 .. Len(t) : t[k] = Dot /\ AfterCrLf(t, k) => Len(f[k]) = 2
  BY <1>1
<1>3. PICK k \in 1 .. Len(f) : i \in BlockEnd(f, k - 1) + 1 .. BlockEnd(f, k)
  BY <1>1, BlockOf
<1> DEFINE p == BlockEnd(f, k - 1)
<1>4. k \in 1 .. Len(t)
  BY <1>1, <1>3 DEF Doubles
<1> HIDE DEF e
<1>5. /\ p \in Nat /\ BlockEnd(f, k) = p + Len(f[k]) /\ BlockEnd(f, k) <= Len(e)
      /\ Len(f[k]) = 1 \/ (Len(f[k]) = 2 /\ t[k] = Dot /\ e[p + 2] = Dot)
      /\ e[p + 1] = t[k]
      /\ AfterCrLf(e, p + 1) <=> AfterCrLf(t, k)
  <2>1. t \in Seq(S) /\ f \in Seq(Seq(S)) /\ Doubles(t, f) /\ e = FlattenSeq(f) /\ p = BlockEnd(f, k - 1)
    BY <1>1 DEF p
  <2>2. p \in Nat /\ BlockEnd(f, k) = p + Len(f[k]) /\ BlockEnd(f, k) <= Len(e) /\ e[p + 1] = t[k]
    BY ONLY <1>4, <2>1, DoublesPlaces
  <2>3. Len(f[k]) = 1 \/ (Len(f[k]) = 2 /\ t[k] = Dot /\ e[p + 2] = Dot)
    BY ONLY <1>4, <2>1, DoublesPlaces
  <2>4. AfterCrLf(e, p + 1) <=> AfterCrLf(t, k)
    BY ONLY <1>4, <2>1, DoublesPlaces
  <2> QED BY ONLY <2>2, <2>3, <2>4
<1>6. Len(e) \in Nat
  BY <1>1
<1> HIDE DEF p
<1>7. i \in p + 1 .. BlockEnd(f, k)
  BY <1>3 DEF p
<1> HIDE DEF e
<1>8. CASE Len(f[k]) = 1
  <2>1. i = p + 1
    BY <1>5, <1>7, <1>8
  <2>3. Len(f[k]) = 2
    BY <1>2, <1>4, <1>5, <2>1 DEF e
  <2>4. Len(f[k]) = 1
    BY <1>8
  <2>5. Len(f[k]) # 2
    BY <2>4
  <2> QED BY <2>3, <2>5
<1>9. CASE Len(f[k]) = 2 /\ t[k] = Dot /\ e[p + 2] = Dot
  <2>1. i = p + 1 \/ i = p + 2
    BY <1>5, <1>7, <1>9
  <2>2. i # p + 2
    <3>1. ~AfterCrLf(e, p + 2)
      BY <1>5, <1>9, SecondDot
    <3> QED BY <3>1 DEF e
  <2>3. i = p + 1 /\ i + 1 = p + 2 /\ p + 2 <= Len(e)
    BY <1>5, <1>9, <2>1, <2>2
  <2>4. i < Len(e) /\ e[i + 1] = Dot
    BY ONLY <1>5, <1>6, <1>9, <2>3
  <2> QED BY <2>4 DEF e
<1> QED BY <1>5, <1>8, <1>9

LEMMA ModuleDotsPaired ==
  ASSUME NEW S, NEW t \in Seq(S), NEW i \in 1 .. Len(ModuleEscaped(t)),
         ModuleEscaped(t)[i] = Dot, AfterNl(ModuleEscaped(t), i)
  PROVE  i < Len(ModuleEscaped(t)) /\ ModuleEscaped(t)[i + 1] = Dot
<1> DEFINE e == ModuleEscaped(t)
<1>1. PICK f \in Seq(Seq(S)) :
        /\ Doubles(t, f) /\ e = FlattenSeq(f) /\ e \in Seq(S)
        /\ \A k \in 1 .. Len(t) : Len(f[k]) = 2 <=> (t[k] = Dot /\ AfterNl(t, k))
  BY ModuleDoubles
<1>2. \A k \in 1 .. Len(t) : t[k] = Dot /\ AfterNl(t, k) => Len(f[k]) = 2
  BY <1>1
<1>3. PICK k \in 1 .. Len(f) : i \in BlockEnd(f, k - 1) + 1 .. BlockEnd(f, k)
  BY <1>1, BlockOf
<1> DEFINE p == BlockEnd(f, k - 1)
<1>4. k \in 1 .. Len(t)
  BY <1>1, <1>3 DEF Doubles
<1> HIDE DEF e
<1>5. /\ p \in Nat /\ BlockEnd(f, k) = p + Len(f[k]) /\ BlockEnd(f, k) <= Len(e)
      /\ Len(f[k]) = 1 \/ (Len(f[k]) = 2 /\ t[k] = Dot /\ e[p + 2] = Dot)
      /\ e[p + 1] = t[k]
      /\ AfterNl(e, p + 1) <=> AfterNl(t, k)
  <2>1. t \in Seq(S) /\ f \in Seq(Seq(S)) /\ Doubles(t, f) /\ e = FlattenSeq(f) /\ p = BlockEnd(f, k - 1)
    BY <1>1 DEF p
  <2>2. p \in Nat /\ BlockEnd(f, k) = p + Len(f[k]) /\ BlockEnd(f, k) <= Len(e) /\ e[p + 1] = t[k]
    BY ONLY <1>4, <2>1, DoublesPlaces
  <2>3. Len(f[k]) = 1 \/ (Len(f[k]) = 2 /\ t[k] = Dot /\ e[p + 2] = Dot)
    BY ONLY <1>4, <2>1, DoublesPlaces
  <2>4. AfterNl(e, p + 1) <=> AfterNl(t, k)
    BY ONLY <1>4, <2>1, DoublesPlaces
  <2> QED BY ONLY <2>2, <2>3, <2>4
<1>6. Len(e) \in Nat
  BY <1>1
<1> HIDE DEF p
<1>7. i \in p + 1 .. BlockEnd(f, k)
  BY <1>3 DEF p
<1> HIDE DEF e
<1>8. CASE Len(f[k]) = 1
  <2>1. i = p + 1
    BY <1>5, <1>7, <1>8
  <2>3. Len(f[k]) = 2
    BY <1>2, <1>4, <1>5, <2>1 DEF e
  <2>4. Len(f[k]) = 1
    BY <1>8
  <2>5. Len(f[k]) # 2
    BY <2>4
  <2> QED BY <2>3, <2>5
<1>9. CASE Len(f[k]) = 2 /\ t[k] = Dot /\ e[p + 2] = Dot
  <2>1. i = p + 1 \/ i = p + 2
    BY <1>5, <1>7, <1>9
  <2>2. i # p + 2
    <3>1. ~AfterNl(e, p + 2)
      BY <1>5, <1>9, SecondDot
    <3> QED BY <3>1 DEF e
  <2>3. i = p + 1 /\ i + 1 = p + 2 /\ p + 2 <= Len(e)
    BY <1>5, <1>9, <2>1, <2>2
  <2>4. i < Len(e) /\ e[i + 1] = Dot
    BY ONLY <1>5, <1>6, <1>9, <2>3
  <2> QED BY <2>4 DEF e
<1> QED BY <1>5, <1>8, <1>9

(* What escape_dot() of libspeechd.c does to a text, deescape_dot() undoes. *)
LEMMA ClientDotsUndone ==
  ASSUME NEW S, NEW t \in Seq(S)
  PROVE  Deescaped(ClientEscaped(t)) = t
<1> DEFINE e == ClientEscaped(t)
           g == [i \in DOMAIN e |-> IF /\ e[i] = Dot /\ AfterCrLf(e, i)
                                       /\ i < Len(e) /\ e[i + 1] = Dot
                                    THEN <<>> ELSE <<e[i]>>]
<1>1. PICK f \in Seq(Seq(S)) :
        /\ Doubles(t, f) /\ e = FlattenSeq(f) /\ e \in Seq(S)
        /\ \A k \in 1 .. Len(t) : Len(f[k]) = 2 <=> (t[k] = Dot /\ AfterCrLf(t, k))
  BY ClientDoubles
<1>2. Deescaped(e) = FlattenSeq(g)
  BY Zenon DEF Deescaped, Expand
<1>3. \A i \in 1 .. Len(e) : g[i] = IF e[i] = Dot /\ AfterCrLf(e, i) THEN <<>> ELSE <<e[i]>>
  <2> SUFFICES ASSUME NEW i \in 1 .. Len(e)
               PROVE  g[i] = IF e[i] = Dot /\ AfterCrLf(e, i) THEN <<>> ELSE <<e[i]>>
    OBVIOUS
  <2>1. i \in DOMAIN e
    BY <1>1
  <2>2. e[i] = Dot /\ AfterCrLf(e, i) => i < Len(e) /\ e[i + 1] = Dot
    BY ClientDotsPaired
  <2> HIDE DEF e
  <2> QED BY <2>1, <2>2
<1>4. DOMAIN g = DOMAIN e /\ g = [i \in DOMAIN e |-> g[i]]
  OBVIOUS
<1> HIDE DEF e, g
<1>5. g \in Seq(Seq(S)) /\ Len(g) = Len(e)
  <2>1. \A i \in 1 .. Len(e) : <<e[i]>> \in Seq(S) /\ <<>> \in Seq(S)
    BY <1>1
  <2>2. \A i \in 1 .. Len(e) : g[i] \in Seq(S)
    BY <1>3, <2>1, Zenon
  <2> QED BY <1>1, <1>4, <2>2, ExpandType
<1>6. Len(f) = Len(t) /\ Len(g) = Len(FlattenSeq(f))
  BY <1>1, <1>5 DEF Doubles
<1>7. \A k \in 1 .. Len(t) :
        LET p == BlockEnd(f, k - 1)
        IN  \/ Len(f[k]) = 1 /\ g[p + 1] = <<t[k]>>
            \/ Len(f[k]) = 2 /\ g[p + 1] \o g[p + 2] = <<t[k]>>
  <2> SUFFICES ASSUME NEW k \in 1 .. Len(t), NEW p, p = BlockEnd(f, k - 1)
               PROVE  \/ Len(f[k]) = 1 /\ g[p + 1] = <<t[k]>>
                      \/ Len(f[k]) = 2 /\ g[p + 1] \o g[p + 2] = <<t[k]>>
    OBVIOUS
  <2>1. t \in Seq(S) /\ f \in Seq(Seq(S)) /\ Doubles(t, f) /\ e = FlattenSeq(f) /\ k \in 1 .. Len(t)
    BY <1>1
  <2>2. p \in Nat /\ BlockEnd(f, k) = p + Len(f[k]) /\ BlockEnd(f, k) <= Len(e) /\ e[p + 1] = t[k]
    BY <2>1, DoublesPlaces
  <2>3. Len(f[k]) = 1 \/ (Len(f[k]) = 2 /\ t[k] = Dot /\ e[p + 2] = Dot)
    BY <2>1, DoublesPlaces
  <2>4. AfterCrLf(e, p + 1) <=> AfterCrLf(t, k)
    BY <2>1, DoublesPlaces
  <2>5. Len(f[k]) = 2 <=> (t[k] = Dot /\ AfterCrLf(t, k))
    BY <1>1
  <2>6. Len(e) \in Nat
    BY <1>1
  <2>7. CASE Len(f[k]) = 1
    <3>1. p + 1 \in 1 .. Len(e)
      BY <2>2, <2>6, <2>7
    <3>2. Len(f[k]) # 2
      BY <2>7
    <3>3. ~(e[p + 1] = Dot /\ AfterCrLf(e, p + 1))
      BY <2>2, <2>4, <2>5, <3>2, Zenon
    <3> QED BY <1>3, <2>2, <2>7, <3>1, <3>3
  <2>8. CASE Len(f[k]) = 2 /\ t[k] = Dot /\ e[p + 2] = Dot
    <3>1. p + 1 \in 1 .. Len(e) /\ p + 2 \in 1 .. Len(e)
      BY <2>2, <2>6, <2>8
    <3>2. e[p + 1] = Dot /\ AfterCrLf(e, p + 1)
      BY <2>2, <2>4, <2>5, <2>8, Zenon
    <3>3. g[p + 1] = <<>>
      BY <1>3, <3>1, <3>2
    <3>4. ~AfterCrLf(e, p + 2)
      BY <2>2, <3>2, SecondDot
    <3>5. g[p + 2] = <<t[k]>>
      BY <1>3, <2>8, <3>1, <3>4
    <3>6. t[k] \in S
      OBVIOUS
    <3>7. <<>> \o <<t[k]>> = <<t[k]>>
      BY <3>6
    <3> QED BY <2>8, <3>3, <3>5, <3>7
  <2> QED BY <2>3, <2>7, <2>8
<1>8. FlattenSeq(g) = t
  BY <1>5, <1>6, <1>7, Undone
<1> QED BY <1>2, <1>8 DEF e

(* The lines of w without the dots that they begin with.                   *)
Undotted(w) == [i \in DOMAIN w |-> IF w[i] = Dot /\ AfterNl(w, i) THEN <<>> ELSE <<w[i]>>]

LEMMA UndottedType ==
  ASSUME NEW S, NEW w \in Seq(S)
  PROVE  /\ Undotted(w) \in Seq(Seq(S)) /\ Len(Undotted(w)) = Len(w)
         /\ \A i \in 1 .. Len(w) :
              Undotted(w)[i] = IF w[i] = Dot /\ AfterNl(w, i) THEN <<>> ELSE <<w[i]>>
<1> DEFINE g == Undotted(w)
<1>1. \A i \in 1 .. Len(w) : g[i] = IF w[i] = Dot /\ AfterNl(w, i) THEN <<>> ELSE <<w[i]>>
  BY DEF Undotted
<1>2. DOMAIN g = DOMAIN w /\ g = [i \in DOMAIN w |-> g[i]]
  BY DEF Undotted
<1> HIDE DEF g
<1>3. \A i \in 1 .. Len(w) : g[i] \in Seq(S)
  <2>1. \A i \in 1 .. Len(w) : <<w[i]>> \in Seq(S) /\ <<>> \in Seq(S)
    OBVIOUS
  <2> QED BY <1>1, <2>1, Zenon
<1>4. g \in Seq(Seq(S)) /\ Len(g) = Len(w)
  BY <1>2, <1>3, ExpandType
<1> QED BY <1>1, <1>4 DEF g

(* What escape_dot() of output.c does to a text, cmd_speak() undoes.       *)
LEMMA ModuleDotsUndone ==
  ASSUME NEW S, NEW t \in Seq(S)
  PROVE  FlattenSeq(Undotted(ModuleEscaped(t))) = t
<1> DEFINE e == ModuleEscaped(t)
           g == Undotted(e)
<1>1. PICK f \in Seq(Seq(S)) :
        /\ Doubles(t, f) /\ e = FlattenSeq(f) /\ e \in Seq(S)
        /\ \A k \in 1 .. Len(t) : Len(f[k]) = 2 <=> (t[k] = Dot /\ AfterNl(t, k))
  BY ModuleDoubles
<1> HIDE DEF e
<1>3. /\ \A i \in 1 .. Len(e) : g[i] = IF e[i] = Dot /\ AfterNl(e, i) THEN <<>> ELSE <<e[i]>>
      /\ g \in Seq(Seq(S)) /\ Len(g) = Len(e)
  BY <1>1, UndottedType
<1> HIDE DEF g
<1>6. Len(f) = Len(t) /\ Len(g) = Len(FlattenSeq(f))
  BY <1>1, <1>3 DEF Doubles
<1>7. \A k \in 1 .. Len(t) :
        LET p == BlockEnd(f, k - 1)
        IN  \/ Len(f[k]) = 1 /\ g[p + 1] = <<t[k]>>
            \/ Len(f[k]) = 2 /\ g[p + 1] \o g[p + 2] = <<t[k]>>
  <2> SUFFICES ASSUME NEW k \in 1 .. Len(t), NEW p, p = BlockEnd(f, k - 1)
               PROVE  \/ Len(f[k]) = 1 /\ g[p + 1] = <<t[k]>>
                      \/ Len(f[k]) = 2 /\ g[p + 1] \o g[p + 2] = <<t[k]>>
    OBVIOUS
  <2>1. t \in Seq(S) /\ f \in Seq(Seq(S)) /\ Doubles(t, f) /\ e = FlattenSeq(f) /\ k \in 1 .. Len(t)
    BY <1>1
  <2>2. p \in Nat /\ BlockEnd(f, k) = p + Len(f[k]) /\ BlockEnd(f, k) <= Len(e) /\ e[p + 1] = t[k]
    BY <2>1, DoublesPlaces
  <2>3. Len(f[k]) = 1 \/ (Len(f[k]) = 2 /\ t[k] = Dot /\ e[p + 2] = Dot)
    BY <2>1, DoublesPlaces
  <2>4. AfterNl(e, p + 1) <=> AfterNl(t, k)
    BY <2>1, DoublesPlaces
  <2>5. Len(f[k]) = 2 <=> (t[k] = Dot /\ AfterNl(t, k))
    BY <1>1
  <2>6. Len(e) \in Nat
    BY <1>1
  <2>7. CASE Len(f[k]) = 1
    <3>1. p + 1 \in 1 .. Len(e)
      BY <2>2, <2>6, <2>7
    <3>2. Len(f[k]) # 2
      BY <2>7
    <3>3. ~(e[p + 1] = Dot /\ AfterNl(e, p + 1))
      BY <2>2, <2>4, <2>5, <3>2, Zenon
    <3> QED BY <1>3, <2>2, <2>7, <3>1, <3>3
  <2>8. CASE Len(f[k]) = 2 /\ t[k] = Dot /\ e[p + 2] = Dot
    <3>1. p + 1 \in 1 .. Len(e) /\ p + 2 \in 1 .. Len(e)
      BY <2>2, <2>6, <2>8
    <3>2. e[p + 1] = Dot /\ AfterNl(e, p + 1)
      BY <2>2, <2>4, <2>5, <2>8, Zenon
    <3>3. g[p + 1] = <<>>
      BY <1>3, <3>1, <3>2
    <3>4. ~AfterNl(e, p + 2)
      BY <2>2, <3>2, SecondDot
    <3>5. g[p + 2] = <<t[k]>>
      BY <1>3, <2>8, <3>1, <3>4
    <3>6. t[k] \in S
      OBVIOUS
    <3>7. <<>> \o <<t[k]>> = <<t[k]>>
      BY <3>6
    <3> QED BY <2>8, <3>3, <3>5, <3>7
  <2> QED BY <2>3, <2>7, <2>8
<1>8. FlattenSeq(g) = t
  BY <1>3, <1>6, <1>7, Undone
<1> QED BY <1>8 DEF e, g

(* A text that is escaped is not longer lines of nothing: it stays nonempty. *)
LEMMA FlattenNonempty ==
  ASSUME NEW S, NEW f \in Seq(Seq(S)), Len(f) >= 1, Len(f[1]) >= 1
  PROVE  Len(FlattenSeq(f)) >= 1 /\ FlattenSeq(f) # <<>>
<1>1. 1 \in 1 .. Len(f) /\ 1 - 1 = 0
  OBVIOUS
<1>2. BlockEnd(f, 1) <= Len(FlattenSeq(f))
  BY <1>1, Block
<1>3. BlockEnd(f, 1) = BlockEnd(f, 0) + Len(f[1]) /\ f[1] \in Seq(S)
  BY <1>1, UptoStep
<1>4. BlockEnd(f, 0) = 0
  BY UptoEnds
<1>5. FlattenSeq(f) \in Seq(S)
  BY FlattenType
<1>6. Len(FlattenSeq(f)) \in Nat /\ Len(f[1]) \in Nat
  BY <1>3, <1>5
<1>7. Len(FlattenSeq(f)) >= 1
  BY <1>2, <1>3, <1>4, <1>6
<1>8. Len(<<>>) = 0
  OBVIOUS
<1> QED BY <1>7, <1>8

LEMMA TwoElements ==
  ASSUME NEW S, NEW s, s \in Seq(S), Len(s) = 2
  PROVE  s = <<s[1], s[2]>>
OBVIOUS

(* The lines of an escaped text end at the terminator and not before.      *)
LEMMA CollectedIsSent ==
  ASSUME NEW S, NEW t \in Seq(S), t # <<>>, {NL, CR, Dot} \subseteq S
  PROVE  Collected(ClientEscaped(t) \o Terminator) = ClientEscaped(t)
<1> DEFINE e == ClientEscaped(t)
           whole == e \o Terminator
           dots == {i \in DOMAIN whole : /\ whole[i] = Dot /\ AfterCrLf(whole, i)
                                         /\ i + 2 <= Len(whole) /\ SubSeq(whole, i + 1, i + 2) = <<CR, NL>>}
           n == Len(e)
<1>1. e \in Seq(S) /\ n \in Nat /\ n >= 1
  <2>1. PICK f \in Seq(Seq(S)) : Doubles(t, f) /\ e = FlattenSeq(f) /\ e \in Seq(S)
    BY ClientDoubles
  <2>2. 1 \in 1 .. Len(t) /\ Len(f) = Len(t)
    BY <2>1 DEF Doubles
  <2>3. Len(f[1]) = 1 \/ Len(f[1]) = 2
    <3> DEFINE p == BlockEnd(f, 1 - 1)
               x == FlattenSeq(f)
    <3>1. p = BlockEnd(f, 1 - 1) /\ x = FlattenSeq(f)
      OBVIOUS
    <3> HIDE DEF p, x
    <3> QED BY <2>1, <2>2, <3>1, DoublesPlaces
  <2>4. Len(f) >= 1 /\ Len(f[1]) >= 1
    <3>1. Len(t) >= 1
      BY <2>2
    <3>2. Len(f[1]) >= 1
      <4> DEFINE m == Len(f[1])
      <4>1. m = 1 \/ m = 2
        BY <2>3
      <4> HIDE DEF m
      <4>2. m >= 1
        BY ONLY <4>1
      <4> QED BY <4>2 DEF m
    <3> QED BY <2>2, <3>1, <3>2
  <2>5. Len(FlattenSeq(f)) >= 1
    BY <2>4, FlattenNonempty
  <2> HIDE DEF e
  <2> QED BY <2>1, <2>5
<1>2. /\ whole \in Seq(S) /\ Len(whole) = n + 5
      /\ whole[n + 1] = CR /\ whole[n + 2] = NL /\ whole[n + 3] = Dot /\ whole[n + 4] = CR /\ whole[n + 5] = NL
  <2>1. Terminator \in Seq(S) /\ Len(Terminator) = 5
    BY DEF Terminator
  <2>2. /\ Terminator[1] = CR /\ Terminator[2] = NL /\ Terminator[3] = Dot
        /\ Terminator[4] = CR /\ Terminator[5] = NL
    BY DEF Terminator
  <2> HIDE DEF e
  <2> DEFINE x == Terminator
  <2> HIDE DEF x
  <2>0. x \in Seq(S) /\ Len(x) = 5
    BY <2>1 DEF x
  <2>3. /\ e \o x \in Seq(S) /\ Len(e \o x) = n + 5
        /\ \A i \in 1 .. n + 5 : (e \o x)[i] = IF i <= n THEN e[i] ELSE x[i - n]
    <3>1. /\ e \o x \in Seq(S) /\ Len(e \o x) = Len(e) + Len(x)
          /\ \A i \in 1 .. Len(e) + Len(x) : (e \o x)[i] = IF i <= Len(e) THEN e[i] ELSE x[i - Len(e)]
      <4> HIDE DEF e
      <4> QED BY <1>1, <2>0, ConcatProperties
    <3> QED BY <2>0, <3>1
  <2>4. \A j \in 1 .. 5 : whole[n + j] = Terminator[j]
    <3> HIDE DEF n
    <3> SUFFICES ASSUME NEW j \in 1 .. 5 PROVE whole[n + j] = Terminator[j]
      OBVIOUS
    <3>1. n + j \in 1 .. n + 5 /\ ~(n + j <= n) /\ (n + j) - n = j
      BY <1>1
    <3> QED BY <2>3, <3>1 DEF x
  <2>5. whole \in Seq(S) /\ Len(whole) = n + 5
    BY <2>3 DEF x
  <2> HIDE DEF whole
  <2> QED BY <2>2, <2>4, <2>5
<1>3. \A i \in 1 .. n : whole[i] = e[i]
  <2>1. Terminator \in Seq(S) /\ Len(Terminator) = 5
    BY DEF Terminator
  <2> HIDE DEF e
  <2> QED BY <1>1, <2>1
<1>4. NL # Dot /\ CR # Dot
  BY DEF NL, CR, Dot
<1>5. DOMAIN whole = 1 .. n + 5
  <2> HIDE DEF whole
  <2> QED BY <1>1, <1>2
<1>6. n + 3 \in dots
  <2>1. AfterCrLf(whole, n + 3)
    <3>1. n + 3 > 2 /\ (n + 3) - 2 = n + 1 /\ (n + 3) - 1 = n + 2
      BY <1>1
    <3> HIDE DEF whole
    <3> QED BY <1>2, <3>1 DEF AfterCrLf
  <2>2. SubSeq(whole, (n + 3) + 1, (n + 3) + 2) = <<CR, NL>>
    <3> HIDE DEF whole, n
    <3>1. n + 4 \in 1 .. Len(whole) /\ n + 5 \in 1 .. Len(whole) /\ (n + 3) + 1 = n + 4 /\ (n + 3) + 2 = n + 5
      BY <1>1, <1>2
    <3>2. SubSeq(whole, n + 4, n + 5) \in Seq(S) /\ Len(SubSeq(whole, n + 4, n + 5)) = 2
      BY <1>1, <1>2, <3>1
    <3>3. SubSeq(whole, n + 4, n + 5)[1] = CR /\ SubSeq(whole, n + 4, n + 5)[2] = NL
      BY <1>1, <1>2, <3>1
    <3>4. SubSeq(whole, n + 4, n + 5) = <<CR, NL>>
      BY <3>2, <3>3, TwoElements
    <3> QED BY <3>1, <3>4
  <2>3. n + 3 \in DOMAIN whole /\ (n + 3) + 2 <= Len(whole)
    <3> HIDE DEF whole
    <3> QED BY <1>1, <1>2, <1>5
  <2> HIDE DEF whole
  <2> QED BY <1>2, <2>1, <2>2, <2>3
<1>7. \A j \in dots : n + 3 <= j
  <2> SUFFICES ASSUME NEW j \in dots, ~(n + 3 <= j) PROVE FALSE
    <3> HIDE DEF dots
    <3> QED OBVIOUS
  <2>1. /\ j \in 1 .. n + 2 /\ whole[j] = Dot /\ AfterCrLf(whole, j)
        /\ SubSeq(whole, j + 1, j + 2) = <<CR, NL>>
    <3> HIDE DEF whole, n
    <3> QED BY <1>1, <1>5
  <2> HIDE DEF dots, whole
  <2>2. j # n + 1 /\ j # n + 2
    BY <1>2, <1>4, <2>1
  <2>3. j \in 1 .. n
    <3> HIDE DEF n
    <3> QED BY <1>1, <2>1, <2>2
  <2>4. e[j] = Dot /\ AfterCrLf(e, j)
    <3> HIDE DEF e
    <3>1. j > 2 => j - 2 \in 1 .. n /\ j - 1 \in 1 .. n
      BY <1>1, <2>3
    <3> QED BY <1>3, <2>1, <2>3, <3>1 DEF AfterCrLf
  <2>5. j < n /\ e[j + 1] = Dot
    BY <2>3, <2>4, ClientDotsPaired
  <2>6. whole[j + 1] = Dot
    <3>1. j + 1 \in 1 .. n
      <4> HIDE DEF e
      <4> QED BY <1>1, <2>3, <2>5
    <3> HIDE DEF e
    <3> QED BY <1>3, <2>5, <3>1
  <2>7. SubSeq(whole, j + 1, j + 2)[1] = whole[j + 1]
    <3> HIDE DEF n
    <3>1. j + 1 \in 1 .. Len(whole) /\ j + 2 \in j + 1 .. Len(whole)
      BY <1>1, <1>2, <2>3
    <3> QED BY <1>2, <3>1
  <2>8. <<CR, NL>>[1] = CR
    OBVIOUS
  <2> QED BY <1>4, <2>1, <2>6, <2>7, <2>8, Zenon
<1> DEFINE dot == CHOOSE i \in dots : \A j \in dots : i <= j
<1>8. dot = n + 3
  <2>1. \E i \in dots : \A j \in dots : i <= j
    <3> HIDE DEF dots
    <3> QED BY <1>6, <1>7
  <2>2. dot \in dots /\ \A j \in dots : dot <= j
    <3> HIDE DEF dots
    <3> QED BY <2>1
  <2>3. dot \in Nat /\ n + 3 \in Nat
    <3>1. dots \subseteq Nat
      <4> HIDE DEF whole, n
      <4> QED BY <1>1, <1>5
    <3> HIDE DEF dots, dot
    <3> QED BY <1>1, <2>2, <3>1
  <2>4. dot <= n + 3 /\ n + 3 <= dot
    <3> HIDE DEF dots, dot
    <3> QED BY <1>6, <1>7, <2>2
  <2> HIDE DEF dot, n
  <2> QED BY <2>3, <2>4
<1>9. Collected(whole) = SubSeq(whole, 1, IF dot > 3 THEN dot - 3 ELSE dot - 1)
  <2> HIDE DEF whole
  <2> QED BY Zenon DEF Collected
<1> HIDE DEF dot
<1>10. Collected(whole) = SubSeq(whole, 1, n)
  <2>1. dot > 3 /\ dot - 3 = n
    <3> HIDE DEF n
    <3> QED BY <1>1, <1>8
  <2> HIDE DEF whole, n
  <2> QED BY <1>9, <2>1
<1>11. SubSeq(whole, 1, n) = e
  <2>1. SubSeq(whole, 1, n) \in Seq(S) /\ Len(SubSeq(whole, 1, n)) = n
    <3> HIDE DEF whole, n
    <3> QED BY <1>1, <1>2
  <2>2. \A i \in 1 .. n : SubSeq(whole, 1, n)[i] = e[i]
    <3> HIDE DEF whole, e
    <3> QED BY <1>1, <1>2, <1>3
  <2> HIDE DEF whole, e
  <2> QED BY <1>1, <2>1, <2>2, SeqEqual
<1> QED BY <1>10, <1>11

(* Each position of a flattened list is a position of one of its members.  *)
Stands(f, i, k, j) ==
  /\ k \in 1 .. Len(f) /\ j \in 1 .. Len(f[k]) /\ BlockEnd(f, k - 1) \in Nat
  /\ i = BlockEnd(f, k - 1) + j /\ FlattenSeq(f)[i] = f[k][j]
  /\ BlockEnd(f, k - 1) + Len(f[k]) <= Len(FlattenSeq(f))

LEMMA FlattenWhere ==
  ASSUME NEW S, NEW f \in Seq(Seq(S)), NEW i \in 1 .. Len(FlattenSeq(f))
  PROVE  \E k, j : Stands(f, i, k, j)
<1>1. PICK k \in 1 .. Len(f) : i \in BlockEnd(f, k - 1) + 1 .. BlockEnd(f, k)
  BY BlockOf
<1> DEFINE p == BlockEnd(f, k - 1)
           m == Len(f[k])
<1>2. f[k] \in Seq(S) /\ p \in Nat /\ BlockEnd(f, k) = p + m /\ m \in Nat
  <2>1. f[k] \in Seq(S) /\ p \in Nat /\ BlockEnd(f, k) = p + m
    BY UptoStep
  <2>2. m \in Nat
    OBVIOUS
  <2> QED BY <2>1, <2>2
<1>3. /\ BlockEnd(f, k) <= Len(FlattenSeq(f))
      /\ \A j \in 1 .. m : FlattenSeq(f)[p + j] = f[k][j]
  BY Block
<1> HIDE DEF p, m
<1>4. i \in p + 1 .. p + m
  BY <1>1, <1>2 DEF p
<1>5. i - p \in 1 .. m /\ i - p \in Nat \ {0} /\ i = p + (i - p)
  BY <1>2, <1>4
<1>6. FlattenSeq(f)[i] = f[k][i - p]
  <2>1. FlattenSeq(f)[p + (i - p)] = f[k][i - p]
    BY <1>3, <1>5
  <2> QED BY <1>5, <2>1
<1>7. Stands(f, i, k, i - p)
  BY <1>2, <1>3, <1>5, <1>6 DEF p, m, Stands
<1> QED BY <1>7

(* At most one line ends in t: what the code handles in one or two lines.  *)
OneEnd(t) == \A i, j \in DOMAIN t : t[i] = NL /\ t[j] = NL => i = j

LEMMA OneEndKept ==
  ASSUME NEW S, NEW t \in Seq(S), NEW f \in Seq(Seq(S)), Len(f) = Len(t), OneEnd(t),
         \A k \in 1 .. Len(t) : \A j \in 1 .. Len(f[k]) : f[k][j] = NL => j = 1 /\ t[k] = NL
  PROVE  OneEnd(FlattenSeq(f))
<1> DEFINE e == FlattenSeq(f)
<1>1. e \in Seq(S) /\ DOMAIN e = 1 .. Len(e) /\ DOMAIN t = 1 .. Len(t)
  BY FlattenType
<1> SUFFICES ASSUME NEW i \in 1 .. Len(e), NEW j \in 1 .. Len(e), e[i] = NL, e[j] = NL
             PROVE  i = j
  <2> HIDE DEF e
  <2> QED BY <1>1 DEF OneEnd, e
<1>2. PICK k, a : Stands(f, i, k, a)
  BY FlattenWhere
<1>3. PICK l, b : Stands(f, j, l, b)
  BY FlattenWhere
<1>4. k \in 1 .. Len(t) /\ a \in 1 .. Len(f[k]) /\ f[k][a] = NL /\ i = BlockEnd(f, k - 1) + a
  BY <1>2 DEF Stands
<1>5. l \in 1 .. Len(t) /\ b \in 1 .. Len(f[l]) /\ f[l][b] = NL /\ j = BlockEnd(f, l - 1) + b
  BY <1>3 DEF Stands
<1> HIDE DEF e
<1>6. a = 1 /\ t[k] = NL /\ b = 1 /\ t[l] = NL
  BY <1>4, <1>5
<1>7. k = l
  BY <1>1, <1>4, <1>5, <1>6 DEF OneEnd
<1> QED BY <1>4, <1>5, <1>6, <1>7

(* A long character is its lead byte and its second byte, next to it.      *)
WholeCharacters(b) ==
  \A i \in 1 .. Len(b) : /\ b[i] = Lead => i < Len(b) /\ b[i + 1] = Tail2
                         /\ b[i] = Tail2 => i > 1 /\ b[i - 1] = Lead

LEMMA BytesRight ==
  ASSUME NEW S, NEW c \in Seq(S), c # <<>>, OneEnd(c), {Lead, Tail2} \subseteq S,
         \A k \in 1 .. Len(c) : c[k] \notin {Lead, Tail2}
  PROVE  /\ Bytes(c) \in Seq(S) /\ Bytes(c) # <<>> /\ OneEnd(Bytes(c)) /\ WholeCharacters(Bytes(c))
         /\ \A i \in 1 .. Len(Bytes(c)) :
              Bytes(c)[i] \in {Lead, Tail2} \/ \E k \in 1 .. Len(c) : Bytes(c)[i] = c[k]
<1> DEFINE f == [i \in DOMAIN c |-> IF c[i] = "long" THEN <<Lead, Tail2>> ELSE <<c[i]>>]
           b == FlattenSeq(f)
<1>1. Bytes(c) = b
  BY Zenon DEF Bytes, Expand
<1>2. /\ \A k \in 1 .. Len(c) : f[k] = IF c[k] = "long" THEN <<Lead, Tail2>> ELSE <<c[k]>>
      /\ f = [k \in DOMAIN c |-> f[k]]
  OBVIOUS
<1>12. \A k \in 1 .. Len(c) : c[k] = "long" => Len(f[k]) = 2 /\ f[k][1] = Lead /\ f[k][2] = Tail2
  OBVIOUS
<1>13. \A k \in 1 .. Len(c) : c[k] # "long" => Len(f[k]) = 1 /\ f[k][1] = c[k]
  OBVIOUS
<1> HIDE DEF f
<1>3. \A k \in 1 .. Len(c) : f[k] \in Seq(S)
  <2>1. \A k \in 1 .. Len(c) : <<c[k]>> \in Seq(S) /\ <<Lead, Tail2>> \in Seq(S)
    OBVIOUS
  <2> QED BY <1>2, <2>1, Zenon
<1>4. f \in Seq(Seq(S)) /\ Len(f) = Len(c)
  BY <1>2, <1>3, ExpandType
<1>5. b \in Seq(S)
  BY <1>4, FlattenType
<1>7. Lead # Tail2 /\ NL # Lead /\ NL # Tail2
  BY DEF Lead, Tail2, NL
<1>8. b # <<>>
  <2> DEFINE m == Len(f[1])
  <2>1. 1 \in 1 .. Len(c) /\ Len(f) >= 1
    <3>1. Len(c) \in Nat /\ Len(c) # 0
      BY EmptySeq
    <3> QED BY <1>4, <3>1
  <2>2. m = 1 \/ m = 2
    BY <1>12, <1>13, <2>1
  <2> HIDE DEF m
  <2>3. m >= 1
    BY ONLY <2>2
  <2> QED BY <1>4, <2>1, <2>3, FlattenNonempty DEF m
<1>9. OneEnd(b)
  <2>1. \A k \in 1 .. Len(c) : \A j \in 1 .. Len(f[k]) : f[k][j] = NL => j = 1 /\ c[k] = NL
    <3> SUFFICES ASSUME NEW k \in 1 .. Len(c), NEW j \in 1 .. Len(f[k]), f[k][j] = NL
                 PROVE  j = 1 /\ c[k] = NL
      OBVIOUS
    <3>1. CASE c[k] = "long"
      <4>1. Len(f[k]) = 2 /\ f[k][1] = Lead /\ f[k][2] = Tail2
        BY <1>12, <3>1
      <4>2. j = 1 \/ j = 2
        BY <4>1
      <4> QED BY <1>7, <4>1, <4>2
    <3>2. CASE c[k] # "long"
      <4>1. Len(f[k]) = 1 /\ f[k][1] = c[k]
        BY <1>13, <3>2
      <4>2. j = 1
        BY <4>1
      <4> QED BY <4>1, <4>2
    <3> QED BY <3>1, <3>2
  <2> QED BY <1>4, <2>1, OneEndKept
<1> HIDE DEF b
<1>10. ASSUME NEW i \in 1 .. Len(b)
       PROVE  /\ b[i] = Lead => i < Len(b) /\ b[i + 1] = Tail2
              /\ b[i] = Tail2 => i > 1 /\ b[i - 1] = Lead
              /\ b[i] \in {Lead, Tail2} \/ \E k \in 1 .. Len(c) : b[i] = c[k]
  <2>1. PICK k, j : Stands(f, i, k, j)
    BY <1>4, FlattenWhere DEF b
  <2> DEFINE p == BlockEnd(f, k - 1)
  <2>2. /\ k \in 1 .. Len(c) /\ j \in 1 .. Len(f[k]) /\ p \in Nat
        /\ i = p + j /\ b[i] = f[k][j]
        /\ p + Len(f[k]) <= Len(b) /\ Len(b) \in Nat
    BY <1>4, <1>5, <2>1 DEF Stands, b
  <2>3. \A l \in 1 .. Len(f[k]) : b[p + l] = f[k][l]
    <3>1. k \in 1 .. Len(f) /\ b = FlattenSeq(f)
      BY <1>4, <2>2 DEF b
    <3>2. \A l \in 1 .. Len(f[k]) : FlattenSeq(f)[BlockEnd(f, k - 1) + l] = f[k][l]
      BY <1>4, <3>1, Block
    <3> QED BY <3>1, <3>2
  <2> HIDE DEF p
  <2>4. CASE c[k] = "long"
    <3>1. Len(f[k]) = 2 /\ f[k][1] = Lead /\ f[k][2] = Tail2
      BY <1>12, <2>2, <2>4
    <3>2. b[p + 1] = Lead /\ b[p + 2] = Tail2 /\ p + 2 <= Len(b)
      BY <2>2, <2>3, <3>1
    <3>3. j = 1 \/ j = 2
      BY <2>2, <3>1
    <3>4. CASE j = 1
      <4>1. i = p + 1 /\ i + 1 = p + 2 /\ i < Len(b)
        BY <2>2, <3>2, <3>4
      <4> QED BY <1>7, <3>2, <4>1
    <3>5. CASE j = 2
      <4>1. i = p + 2 /\ i - 1 = p + 1 /\ i > 1
        BY <2>2, <3>5
      <4> QED BY <1>7, <3>2, <4>1
    <3> QED BY <3>3, <3>4, <3>5
  <2>5. CASE c[k] # "long"
    <3>1. Len(f[k]) = 1 /\ f[k][1] = c[k]
      BY <1>13, <2>2, <2>5
    <3>2. j = 1 /\ b[i] = c[k]
      BY <2>2, <3>1
    <3> QED BY <2>2, <3>2
  <2> QED BY <2>4, <2>5
<1>11. WholeCharacters(b)
  BY <1>10 DEF WholeCharacters
<1> QED BY <1>1, <1>5, <1>8, <1>9, <1>10, <1>11

-----------------------------------------------------------------------------
(* Tags and entities. *)

Tags == {SpeakTag, EndTag, MarkTag}

Bared(t) ==
  [i \in DOMAIN t |-> CASE t[i] \in {SpeakTag, EndTag, MarkTag} -> <<>>
                        [] t[i] = LessEntity -> <<Less>>
                        [] OTHER -> <<t[i]>>]

LEMMA BaredType ==
  ASSUME NEW S, NEW t, t \in Seq(S), Less \in S
  PROVE  /\ Bared(t) \in Seq(Seq(S)) /\ Len(Bared(t)) = Len(t)
         /\ \A i \in 1 .. Len(t) : /\ t[i] \in Tags => Bared(t)[i] = <<>>
                                   /\ t[i] = LessEntity => Bared(t)[i] = <<Less>>
                                   /\ t[i] \notin Tags \cup {LessEntity} => Bared(t)[i] = <<t[i]>>
<1> DEFINE g == Bared(t)
<1>1. g = [i \in DOMAIN t |-> g[i]] /\ DOMAIN t = 1 .. Len(t)
  BY DEF Bared
<1>2. \A i \in 1 .. Len(t) :
        g[i] = CASE t[i] \in Tags -> <<>> [] t[i] = LessEntity -> <<Less>> [] OTHER -> <<t[i]>>
  BY DEF Bared, Tags
<1> HIDE DEF g
<1>3. LessEntity \notin Tags
  BY DEF LessEntity, Tags, SpeakTag, EndTag, MarkTag
<1>4. \A i \in 1 .. Len(t) : /\ t[i] \in Tags => g[i] = <<>>
                             /\ t[i] = LessEntity => g[i] = <<Less>>
                             /\ t[i] \notin Tags \cup {LessEntity} => g[i] = <<t[i]>>
  BY <1>2, <1>3
<1>5. \A i \in 1 .. Len(t) : g[i] \in Seq(S)
  <2>1. \A i \in 1 .. Len(t) : <<>> \in Seq(S) /\ <<Less>> \in Seq(S) /\ <<t[i]>> \in Seq(S)
    OBVIOUS
  <2>2. \A i \in 1 .. Len(t) : t[i] \in Tags \/ t[i] = LessEntity \/ t[i] \notin Tags \cup {LessEntity}
    OBVIOUS
  <2> QED BY <1>4, <2>1, <2>2, Zenon
<1>6. g \in Seq(Seq(S)) /\ Len(g) = Len(t)
  BY <1>1, <1>5, ExpandType
<1> QED BY <1>4, <1>6 DEF g

LEMMA WithoutSsmlParts ==
  ASSUME NEW S, NEW a, a \in Seq(S), NEW b, b \in Seq(S), Less \in S
  PROVE  WithoutSsml(a \o b) = WithoutSsml(a) \o WithoutSsml(b)
<1>0. \A t : WithoutSsml(t) = FlattenSeq(Bared(t))
  BY Zenon DEF WithoutSsml, Expand, Bared
<1>1. a \o b \in Seq(S)
  OBVIOUS
<1>2. Bared(a) \in Seq(Seq(S)) /\ Len(Bared(a)) = Len(a)
  BY BaredType
<1>3. Bared(b) \in Seq(Seq(S)) /\ Len(Bared(b)) = Len(b)
  BY BaredType
<1>4. Bared(a \o b) \in Seq(Seq(S)) /\ Len(Bared(a \o b)) = Len(a \o b)
  BY <1>1, BaredType
<1>5. Bared(a \o b) = Bared(a) \o Bared(b)
  <2> DEFINE c == Bared(a) \o Bared(b)
  <2>1. c \in Seq(Seq(S)) /\ Len(c) = Len(a) + Len(b)
    <3> DEFINE R == Seq(S)
               x == Bared(a)
               y == Bared(b)
    <3>1. x \in Seq(R) /\ y \in Seq(R) /\ Len(x) = Len(a) /\ Len(y) = Len(b)
      BY <1>2, <1>3
    <3> HIDE DEF R, x, y
    <3>2. x \o y \in Seq(R) /\ Len(x \o y) = Len(x) + Len(y)
      BY ONLY <3>1, ConcatProperties
    <3> QED BY <3>1, <3>2 DEF R, x, y
  <2>2. Len(a \o b) = Len(a) + Len(b) /\ Len(a) \in Nat /\ Len(b) \in Nat
    OBVIOUS
  <2>3. \A i \in 1 .. Len(a) + Len(b) : Bared(a \o b)[i] = c[i]
    <3> SUFFICES ASSUME NEW i \in 1 .. Len(a) + Len(b) PROVE Bared(a \o b)[i] = c[i]
      OBVIOUS
    <3> DEFINE B(x) == CASE x \in {SpeakTag, EndTag, MarkTag} -> <<>>
                         [] x = LessEntity -> <<Less>>
                         [] OTHER -> <<x>>
    <3>1. Bared(a \o b)[i] = B((a \o b)[i])
      BY <1>1, <2>2 DEF Bared
    <3>2. CASE i <= Len(a)
      <4>1. c[i] = Bared(a)[i] /\ (a \o b)[i] = a[i] /\ i \in 1 .. Len(a)
        <5> HIDE DEF B
        <5> QED BY <1>2, <1>3, <2>2, <3>2
      <4>2. Bared(a)[i] = B(a[i])
        BY <4>1 DEF Bared
      <4> HIDE DEF B, c
      <4> QED BY <3>1, <4>1, <4>2
    <3>3. CASE ~(i <= Len(a))
      <4>1. c[i] = Bared(b)[i - Len(a)] /\ (a \o b)[i] = b[i - Len(a)] /\ i - Len(a) \in 1 .. Len(b)
        <5> HIDE DEF B
        <5> QED BY <1>2, <1>3, <2>2, <3>3
      <4>2. Bared(b)[i - Len(a)] = B(b[i - Len(a)])
        BY <4>1 DEF Bared
      <4> HIDE DEF B, c
      <4> QED BY <3>1, <4>1, <4>2
    <3> QED BY <3>2, <3>3
  <2> HIDE DEF c
  <2>4. Bared(a \o b) = c
    BY <1>4, <2>1, <2>2, <2>3, SeqEqual
  <2> QED BY <2>4 DEF c
<1>6. FlattenSeq(Bared(a) \o Bared(b)) = FlattenSeq(Bared(a)) \o FlattenSeq(Bared(b))
  BY <1>2, <1>3, FlattenConcat
<1> QED BY <1>0, <1>5, <1>6

(* Index marks, the tags around and the entities disappear again, if the   *)
(* text has none of its own.                                               *)
LEMMA MarkedRight ==
  ASSUME NEW S, NEW t \in Seq(S), Tags \cup {LessEntity, Less, Dot} \subseteq S,
         \A k \in 1 .. Len(t) : t[k] \notin Tags \cup {LessEntity}
  PROVE  /\ WithoutSsml(Marked(t)) = t /\ Marked(t) \in Seq(S) /\ Marked(t) # <<>>
         /\ OneEnd(t) => OneEnd(Marked(t))
<1> DEFINE f == [i \in DOMAIN t |-> IF EndsSentence(t, i) THEN <<Dot, MarkTag>> ELSE <<Entity(t[i])>>]
           m == FlattenSeq(f)
           g == Bared(m)
<1>0. Dot \notin Tags \cup {LessEntity} /\ Less \notin Tags \cup {LessEntity} /\ LessEntity \notin Tags
      /\ NL \notin Tags \cup {LessEntity, Dot, Less} /\ MarkTag \in Tags /\ SpeakTag \in Tags /\ EndTag \in Tags
  BY DEF Tags, Dot, Less, LessEntity, SpeakTag, EndTag, MarkTag, NL
<1>1. Marked(t) = (<<SpeakTag>> \o m) \o <<EndTag>>
  BY Zenon DEF Marked, Expand
<1>2. /\ \A k \in 1 .. Len(t) : f[k] = IF EndsSentence(t, k) THEN <<Dot, MarkTag>> ELSE <<Entity(t[k])>>
      /\ f = [k \in DOMAIN t |-> f[k]]
  OBVIOUS
<1>3. \A k \in 1 .. Len(t) : EndsSentence(t, k) =>
        Len(f[k]) = 2 /\ f[k][1] = Dot /\ f[k][2] = MarkTag /\ t[k] = Dot
  BY DEF EndsSentence
<1>4. \A k \in 1 .. Len(t) : ~EndsSentence(t, k) => Len(f[k]) = 1 /\ f[k][1] = Entity(t[k])
  OBVIOUS
<1>5. \A k \in 1 .. Len(t) : t[k] \in S /\ Entity(t[k]) \in S
  BY DEF Entity
<1> HIDE DEF f
<1>6. \A k \in 1 .. Len(t) : f[k] \in Seq(S)
  <2>1. \A k \in 1 .. Len(t) : <<Entity(t[k])>> \in Seq(S) /\ <<Dot, MarkTag>> \in Seq(S)
    BY <1>0, <1>5
  <2> QED BY <1>2, <2>1, Zenon
<1>7. f \in Seq(Seq(S)) /\ Len(f) = Len(t)
  BY <1>2, <1>6, ExpandType
<1>8. m \in Seq(S) /\ Len(m) \in Nat
  BY <1>7, FlattenType
<1> HIDE DEF m
<1>9. /\ g \in Seq(Seq(S)) /\ Len(g) = Len(FlattenSeq(f))
      /\ \A i \in 1 .. Len(m) : /\ m[i] \in Tags => g[i] = <<>>
                                /\ m[i] = LessEntity => g[i] = <<Less>>
                                /\ m[i] \notin Tags \cup {LessEntity} => g[i] = <<m[i]>>
  BY <1>8, BaredType DEF m
<1> HIDE DEF g
<1>10. \A k \in 1 .. Len(t) :
        LET p == BlockEnd(f, k - 1)
        IN  \/ Len(f[k]) = 1 /\ g[p + 1] = <<t[k]>>
            \/ Len(f[k]) = 2 /\ g[p + 1] \o g[p + 2] = <<t[k]>>
  <2> SUFFICES ASSUME NEW k \in 1 .. Len(t), NEW p, p = BlockEnd(f, k - 1)
               PROVE  \/ Len(f[k]) = 1 /\ g[p + 1] = <<t[k]>>
                      \/ Len(f[k]) = 2 /\ g[p + 1] \o g[p + 2] = <<t[k]>>
    OBVIOUS
  <2>1. k \in 1 .. Len(f)
    BY <1>7
  <2>2. p \in Nat /\ BlockEnd(f, k) = p + Len(f[k])
    BY <1>7, <2>1, UptoStep
  <2>3. BlockEnd(f, k) <= Len(m) /\ \A j \in 1 .. Len(f[k]) : m[p + j] = f[k][j]
    <3>1. /\ BlockEnd(f, k) <= Len(FlattenSeq(f))
          /\ \A j \in 1 .. Len(f[k]) : FlattenSeq(f)[BlockEnd(f, k - 1) + j] = f[k][j]
      BY ONLY <1>7, <2>1, Block
    <3>2. m = FlattenSeq(f)
      BY DEF m
    <3> QED BY ONLY <3>1, <3>2, p = BlockEnd(f, k - 1)
  <2>4. CASE EndsSentence(t, k)
    <3>1. Len(f[k]) = 2 /\ f[k][1] = Dot /\ f[k][2] = MarkTag /\ t[k] = Dot
      BY <1>3, <2>4
    <3>2. p + 1 \in 1 .. Len(m) /\ p + 2 \in 1 .. Len(m) /\ m[p + 1] = Dot /\ m[p + 2] = MarkTag
      BY <1>8, <2>2, <2>3, <3>1
    <3>3. g[p + 1] = <<t[k]>> /\ g[p + 2] = <<>>
      BY <1>0, <1>9, <3>1, <3>2
    <3>4. <<t[k]>> \o <<>> = <<t[k]>>
      BY <1>5
    <3> QED BY <3>1, <3>3, <3>4
  <2>5. CASE ~EndsSentence(t, k)
    <3>1. Len(f[k]) = 1 /\ f[k][1] = Entity(t[k])
      BY <1>4, <2>5
    <3>2. p + 1 \in 1 .. Len(m) /\ m[p + 1] = Entity(t[k])
      BY <1>8, <2>2, <2>3, <3>1
    <3>3. g[p + 1] = <<t[k]>>
      <4>1. CASE t[k] = Less
        BY <1>9, <3>2, <4>1 DEF Entity
      <4>2. CASE t[k] # Less
        BY <1>9, <3>2, <4>2 DEF Entity
      <4> QED BY <4>1, <4>2
    <3> QED BY <3>1, <3>3
  <2> QED BY <2>4, <2>5
<1>11. FlattenSeq(g) = t
  BY <1>7, <1>9, <1>10, Undone
<1>12. /\ WithoutSsml(m) = t /\ WithoutSsml(<<SpeakTag>>) = <<>> /\ WithoutSsml(<<EndTag>>) = <<>>
  <2>0. \A u : WithoutSsml(u) = FlattenSeq(Bared(u))
    BY Zenon DEF WithoutSsml, Expand, Bared
  <2>1. \A x \in {SpeakTag, EndTag} : WithoutSsml(<<x>>) = <<>>
    <3> SUFFICES ASSUME NEW x \in {SpeakTag, EndTag} PROVE FlattenSeq(Bared(<<x>>)) = <<>>
      BY <2>0
    <3>1. x \in Tags /\ x \in S /\ <<x>> \in Seq(S) /\ Len(<<x>>) = 1 /\ <<x>>[1] = x
      BY <1>0
    <3>2. Bared(<<x>>) \in Seq(Seq(S)) /\ Len(Bared(<<x>>)) = 1 /\ Bared(<<x>>)[1] = <<>>
      <4> DEFINE u == <<x>>
      <4>1. u \in Seq(S) /\ Len(u) = 1 /\ u[1] \in Tags /\ Less \in S
        BY <3>1
      <4> HIDE DEF u
      <4>2. 1 \in 1 .. Len(u)
        BY <4>1
      <4>3. /\ Bared(u) \in Seq(Seq(S)) /\ Len(Bared(u)) = Len(u)
            /\ \A i \in 1 .. Len(u) : u[i] \in Tags => Bared(u)[i] = <<>>
        BY ONLY <4>1, BaredType
      <4>4. Bared(u) \in Seq(Seq(S)) /\ Len(Bared(u)) = 1 /\ Bared(u)[1] = <<>>
        BY ONLY <4>1, <4>2, <4>3
      <4> QED BY <4>4 DEF u
    <3> DEFINE y == Bared(<<x>>)
    <3> HIDE DEF y
    <3>3. y = Append(<<>>, <<>>)
      BY <3>2 DEF y
    <3>4. <<>> \in Seq(Seq(S)) /\ <<>> \in Seq(S) /\ <<>> \o <<>> = <<>>
      OBVIOUS
    <3>5. FlattenSeq(Append(<<>>, <<>>)) = FlattenSeq(<<>>) \o <<>>
      BY <3>4, FlattenAppend
    <3> QED BY <3>3, <3>4, <3>5, FlattenNone DEF y
  <2> QED BY <1>11, <2>0, <2>1 DEF g
<1>13. <<SpeakTag>> \in Seq(S) /\ <<EndTag>> \in Seq(S) /\ <<SpeakTag>> \o m \in Seq(S)
  BY <1>0, <1>8
<1>14. WithoutSsml(Marked(t)) = t
  <2> DEFINE x == <<SpeakTag>>
             z == <<EndTag>>
  <2>1. /\ x \in Seq(S) /\ z \in Seq(S) /\ m \in Seq(S) /\ x \o m \in Seq(S) /\ Less \in S
        /\ WithoutSsml(x) = <<>> /\ WithoutSsml(z) = <<>> /\ WithoutSsml(m) = t
        /\ Marked(t) = (x \o m) \o z
    BY <1>1, <1>8, <1>12, <1>13
  <2> HIDE DEF x, z
  <2>2. WithoutSsml(x \o m) = <<>> \o t
    <3>1. WithoutSsml(x \o m) = WithoutSsml(x) \o WithoutSsml(m)
      BY ONLY <2>1, WithoutSsmlParts
    <3> QED BY ONLY <2>1, <3>1
  <2>3. <<>> \o t = t /\ t \o <<>> = t
    BY ConcatEmptySeq
  <2>4. WithoutSsml((x \o m) \o z) = t \o <<>>
    <3> DEFINE y == x \o m
    <3>1. y \in Seq(S) /\ z \in Seq(S) /\ Less \in S /\ WithoutSsml(y) = t
      BY <2>1, <2>2, <2>3
    <3> HIDE DEF y
    <3>2. WithoutSsml(y \o z) = WithoutSsml(y) \o WithoutSsml(z)
      BY ONLY <3>1, WithoutSsmlParts
    <3>3. WithoutSsml(y \o z) = t \o <<>>
      BY ONLY <2>1, <3>1, <3>2
    <3> QED BY <3>3 DEF y
  <2> QED BY <2>1, <2>3, <2>4
<1>15. Marked(t) \in Seq(S) /\ Len(Marked(t)) = Len(m) + 2
       /\ \A i \in 1 .. Len(m) + 2 : Marked(t)[i] = IF i = 1 THEN SpeakTag
                                                    ELSE IF i = Len(m) + 2 THEN EndTag ELSE m[i - 1]
  <2> DEFINE x == <<SpeakTag>>
             z == <<EndTag>>
             y == x \o m
  <2>1. /\ x \in Seq(S) /\ Len(x) = 1 /\ x[1] = SpeakTag
        /\ z \in Seq(S) /\ Len(z) = 1 /\ z[1] = EndTag
    BY <1>13
  <2> HIDE DEF x, z
  <2>2. y \in Seq(S) /\ Len(y) = 1 + Len(m)
        /\ \A i \in 1 .. 1 + Len(m) : y[i] = IF i <= 1 THEN x[i] ELSE m[i - 1]
    <3>1. /\ x \o m \in Seq(S) /\ Len(x \o m) = Len(x) + Len(m)
          /\ \A i \in 1 .. Len(x) + Len(m) : (x \o m)[i] = IF i <= Len(x) THEN x[i] ELSE m[i - Len(x)]
      BY ONLY <1>8, <2>1, ConcatProperties
    <3> QED BY ONLY <1>8, <2>1, <3>1
  <2>3. Marked(t) = y \o z
    BY <1>1 DEF x, z
  <2> HIDE DEF y
  <2>4. /\ y \o z \in Seq(S) /\ Len(y \o z) = Len(y) + Len(z)
        /\ \A i \in 1 .. Len(y) + Len(z) : (y \o z)[i] = IF i <= Len(y) THEN y[i] ELSE z[i - Len(y)]
    BY ONLY <2>1, <2>2, ConcatProperties
  <2>5. Marked(t) \in Seq(S) /\ Len(Marked(t)) = Len(m) + 2
    BY ONLY <1>8, <2>1, <2>2, <2>3, <2>4
  <2>6. ASSUME NEW i \in 1 .. Len(m) + 2
        PROVE  Marked(t)[i] = IF i = 1 THEN SpeakTag ELSE IF i = Len(m) + 2 THEN EndTag ELSE m[i - 1]
    <3>1. i \in 1 .. Len(y) + Len(z) /\ Marked(t)[i] = IF i <= Len(y) THEN y[i] ELSE z[i - Len(y)]
      BY ONLY <1>8, <2>1, <2>2, <2>3, <2>4, i \in 1 .. Len(m) + 2
    <3>2. CASE i = Len(m) + 2
      <4>1. ~(i <= Len(y)) /\ i - Len(y) = 1 /\ i # 1
        BY ONLY <1>8, <2>2, <3>2
      <4> QED BY ONLY <2>1, <3>1, <3>2, <4>1
    <3>3. CASE i # Len(m) + 2
      <4>1. i <= Len(y) /\ i \in 1 .. 1 + Len(m) /\ (i <= 1 <=> i = 1)
        BY ONLY <1>8, <2>2, <3>3, i \in 1 .. Len(m) + 2
      <4>2. Marked(t)[i] = IF i <= 1 THEN x[i] ELSE m[i - 1]
        BY ONLY <2>2, <3>1, <4>1
      <4> QED BY ONLY <2>1, <3>3, <4>1, <4>2
    <3> QED BY <3>2, <3>3
  <2> QED BY <2>5, <2>6
<1>16. ASSUME OneEnd(t) PROVE OneEnd(Marked(t))
  <2>1. \A k \in 1 .. Len(t) : \A j \in 1 .. Len(f[k]) : f[k][j] = NL => j = 1 /\ t[k] = NL
    <3> SUFFICES ASSUME NEW k \in 1 .. Len(t), NEW j \in 1 .. Len(f[k]), f[k][j] = NL
                 PROVE  j = 1 /\ t[k] = NL
      OBVIOUS
    <3>1. CASE EndsSentence(t, k)
      <4>1. Len(f[k]) = 2 /\ f[k][1] = Dot /\ f[k][2] = MarkTag
        BY <1>3, <3>1
      <4>2. j = 1 \/ j = 2
        BY <4>1
      <4> QED BY <1>0, <4>1, <4>2
    <3>2. CASE ~EndsSentence(t, k)
      <4>1. Len(f[k]) = 1 /\ f[k][1] = Entity(t[k])
        BY <1>4, <3>2
      <4>2. j = 1
        BY <4>1
      <4> QED BY <1>0, <4>1, <4>2 DEF Entity
    <3> QED BY <3>1, <3>2
  <2>2. OneEnd(m)
    BY <1>7, <1>16, <2>1, OneEndKept DEF m
  <2>3. \A i \in DOMAIN Marked(t) : Marked(t)[i] = NL => i - 1 \in DOMAIN m /\ m[i - 1] = NL
    <3>1. SpeakTag # NL /\ EndTag # NL
      BY <1>0
    <3>2. DOMAIN Marked(t) = 1 .. Len(m) + 2 /\ DOMAIN m = 1 .. Len(m)
      BY <1>8, <1>15
    <3> QED BY <1>8, <1>15, <3>1, <3>2
  <2>4. DOMAIN Marked(t) \subseteq Nat
    BY <1>15
  <2> QED BY <2>2, <2>3, <2>4 DEF OneEnd
<1> QED BY <1>8, <1>14, <1>15, <1>16

-----------------------------------------------------------------------------
LEMMA OneElement ==
  ASSUME NEW S, NEW s, s \in Seq(S), Len(s) = 1
  PROVE  s = <<s[1]>> /\ Tail(s) = <<>>
<1>1. s = <<s[1]>>
  OBVIOUS
<1>2. Tail(s) = <<>>
  <2>1. s # <<>>
    OBVIOUS
  <2>2. Tail(s) \in Seq(S) /\ Len(Tail(s)) = 0
    BY <2>1, HeadTailProperties
  <2> QED BY ONLY <2>2, EmptySeq
<1> QED BY <1>1, <1>2

(* A line that cmd_speak() collects: what follows the last newline, up to  *)
(* the next one, without the dot it may begin with.                        *)
LEMMA LineUndotted ==
  ASSUME NEW S, NEW w \in Seq(S), NEW c \in Nat, NEW d \in Nat, c < d, d <= Len(w),
         c > 0 => w[c] = NL, \A i \in c + 1 .. d - 1 : w[i] # NL
  PROVE  Upto(Undotted(w), d) = Upto(Undotted(w), c) \o Unstuffed(SubSeq(w, c + 1, d))
<1> DEFINE u == Undotted(w)
           Good(k) == Upto(u, k) = Upto(u, c) \o Unstuffed(SubSeq(w, c + 1, k))
           Bad == {k \in c + 1 .. d : ~Good(k)}
<1>0. Len(w) \in Nat
  OBVIOUS
<1>1. /\ u \in Seq(Seq(S)) /\ Len(u) = Len(w)
      /\ \A i \in 1 .. Len(w) : u[i] = IF w[i] = Dot /\ AfterNl(w, i) THEN <<>> ELSE <<w[i]>>
  BY UndottedType
<1> HIDE DEF u
<1>2. \A k \in 1 .. Len(w) : Upto(u, k) = Upto(u, k - 1) \o u[k] /\ Upto(u, k - 1) \in Seq(S)
  BY <1>1, UptoStep
<1>3. \A k \in c + 1 .. d :
        LET s == SubSeq(w, c + 1, k)
        IN  /\ s \in Seq(S) /\ Len(s) = k - c /\ \A i \in 1 .. k - c : s[i] = w[c + i]
            /\ s # <<>> /\ Head(s) = w[c + 1] /\ Tail(s) \in Seq(S)
  <2> SUFFICES ASSUME NEW k \in c + 1 .. d, NEW s, s = SubSeq(w, c + 1, k)
               PROVE  /\ s \in Seq(S) /\ Len(s) = k - c /\ \A i \in 1 .. k - c : s[i] = w[c + i]
                      /\ s # <<>> /\ Head(s) = w[c + 1] /\ Tail(s) \in Seq(S)
    OBVIOUS
  <2>1. s \in Seq(S) /\ Len(s) = k - c /\ \A i \in 1 .. k - c : s[i] = w[c + i]
    BY <1>0
  <2>2. 1 \in 1 .. k - c /\ k - c # 0
    OBVIOUS
  <2>3. s # <<>>
    BY ONLY <2>1, <2>2, EmptySeq
  <2>4. Head(s) = s[1] /\ Tail(s) \in Seq(S)
    BY ONLY <2>1, <2>3, HeadTailProperties
  <2> QED BY <2>1, <2>2, <2>3, <2>4
<1>4. Good(c + 1)
  <2> DEFINE s == SubSeq(w, c + 1, c + 1)
             x == w[c + 1]
  <2>1. c + 1 \in c + 1 .. d /\ c + 1 \in 1 .. Len(w) /\ (c + 1) - 1 = c /\ (c + 1) - c = 1
    BY <1>0
  <2>2. s \in Seq(S) /\ Len(s) = 1 /\ s[1] = x /\ s # <<>> /\ Head(s) = x
    BY <1>3, <2>1
  <2>3. x \in S
    BY <2>1
  <2>4. AfterNl(w, c + 1)
    BY <2>1 DEF AfterNl
  <2>5. u[c + 1] = IF x = Dot THEN <<>> ELSE <<x>>
    BY <1>1, <2>1, <2>4
  <2> HIDE DEF s, x
  <2>6. Unstuffed(s) = IF x = Dot THEN Tail(s) ELSE s
    BY <2>2 DEF Unstuffed
  <2>7. Tail(s) = <<>> /\ s = <<x>>
    <3>1. s = <<s[1]>> /\ Tail(s) = <<>>
      BY ONLY <2>2, OneElement
    <3> QED BY ONLY <2>2, <3>1
  <2>8. Upto(u, c + 1) = Upto(u, c) \o u[c + 1]
    BY <1>2, <2>1
  <2> QED BY <2>5, <2>6, <2>7, <2>8 DEF s
<1>5. ASSUME NEW k \in c + 2 .. d, Good(k - 1)
      PROVE  Good(k)
  <2> DEFINE s == SubSeq(w, c + 1, k - 1)
             t == SubSeq(w, c + 1, k)
             x == w[k]
             a == Upto(u, c)
  <2>1. /\ k - 1 \in c + 1 .. d /\ k \in c + 1 .. d /\ k \in 1 .. Len(w) /\ k - 1 # 0 /\ k # 1 /\ c + 1 \in 1 .. Len(w)
        /\ (c + 1) - 1 = c /\ c + 1 <= k /\ c + 1 \in 1 .. k /\ k - 1 \in c + 1 .. d - 1
    BY <1>0
  <2>2. x \in S /\ a \in Seq(S)
    <3>1. x \in S
      BY <2>1
    <3>2. Upto(u, (c + 1) - 1) \in Seq(S)
      BY <1>2, <2>1
    <3> QED BY <2>1, <3>1, <3>2
  <2>3. s \in Seq(S) /\ s # <<>> /\ Head(s) = w[c + 1] /\ Tail(s) \in Seq(S)
    BY <1>3, <2>1
  <2>4. t # <<>> /\ Head(t) = w[c + 1] /\ t = s \o <<x>>
    <3>1. t # <<>> /\ Head(t) = w[c + 1]
      BY <1>3, <2>1
    <3>2. t = s \o <<x>>
      BY <2>1, SubSeqRecursiveSecond
    <3> QED BY <3>1, <3>2
  <2>5. ~AfterNl(w, k)
    BY <2>1 DEF AfterNl
  <2>6. u[k] = <<x>>
    BY <1>1, <2>1, <2>5
  <2>7. Upto(u, k) = Upto(u, k - 1) \o <<x>>
    BY <1>2, <2>1, <2>6
  <2>8. Upto(u, k - 1) = a \o Unstuffed(s)
    BY <1>5
  <2> HIDE DEF s, t, a, x, Good
  <2>9. Tail(s \o <<x>>) = Tail(s) \o <<x>>
    BY <2>2, <2>3
  <2>10. Unstuffed(t) = Unstuffed(s) \o <<x>> /\ Unstuffed(s) \in Seq(S)
    BY <2>3, <2>4, <2>9 DEF Unstuffed
  <2>11. <<x>> \in Seq(S)
    BY <2>2
  <2>12. a \o (Unstuffed(s) \o <<x>>) = (a \o Unstuffed(s)) \o <<x>>
    <3> DEFINE v == Unstuffed(s)
               y == <<x>>
    <3>1. v \in Seq(S) /\ y \in Seq(S) /\ a \in Seq(S)
      BY <2>2, <2>10, <2>11
    <3> HIDE DEF v, y
    <3>2. a \o (v \o y) = (a \o v) \o y
      BY ONLY <3>1, Associates
    <3> QED BY <3>2 DEF v, y
  <2>13. Upto(u, k) = a \o Unstuffed(t)
    BY <2>7, <2>8, <2>10, <2>12
  <2> QED BY <2>13 DEF Good, a, t
<1>6. Bad = {}
  <2> SUFFICES ASSUME Bad # {} PROVE FALSE
    OBVIOUS
  <2>1. PICK k \in Bad : \A y \in Bad : k <= y
    <3>1. Bad \subseteq Nat
      OBVIOUS
    <3> HIDE DEF Bad
    <3> QED BY <3>1, Least
  <2>2. k # c + 1
    <3> HIDE DEF Good
    <3> QED BY <1>4
  <2>3. k \in c + 2 .. d /\ k - 1 \in c + 1 .. d /\ ~(k <= k - 1)
    BY <2>2
  <2>4. Good(k - 1)
    <3> HIDE DEF Good
    <3> QED BY <2>1, <2>3
  <2>5. Good(k)
    <3> HIDE DEF Good
    <3> QED BY <1>5, <2>3, <2>4
  <2> HIDE DEF Good
  <2> QED BY <2>1, <2>5
<1>7. d \in c + 1 .. d
  OBVIOUS
<1>8. Good(d)
  <2> HIDE DEF Good
  <2> QED BY <1>6, <1>7
<1> QED BY <1>8 DEF u

(* The escaped text has no more lines than the text.                       *)
LEMMA ModuleEscapedRight ==
  ASSUME NEW S, NEW t \in Seq(S), t # <<>>
  PROVE  /\ ModuleEscaped(t) \in Seq(S) /\ ModuleEscaped(t) # <<>>
         /\ OneEnd(t) => OneEnd(ModuleEscaped(t))
<1>1. PICK f \in Seq(Seq(S)) :
        Doubles(t, f) /\ ModuleEscaped(t) = FlattenSeq(f) /\ ModuleEscaped(t) \in Seq(S)
  BY ModuleDoubles
<1>2. /\ Len(f) = Len(t)
      /\ \A k \in 1 .. Len(t) : \/ Len(f[k]) = 1 /\ f[k][1] = t[k]
                                \/ Len(f[k]) = 2 /\ f[k][1] = Dot /\ f[k][2] = Dot
  <2>1. Len(f) = Len(t) /\ \A k \in 1 .. Len(t) : f[k] = <<t[k]>> \/ f[k] = <<Dot, Dot>>
    BY <1>1 DEF Doubles
  <2>2. ASSUME NEW k \in 1 .. Len(t), f[k] = <<t[k]>>
        PROVE  Len(f[k]) = 1 /\ f[k][1] = t[k]
    BY <2>2
  <2>3. ASSUME NEW k \in 1 .. Len(t), f[k] = <<Dot, Dot>>
        PROVE  Len(f[k]) = 2 /\ f[k][1] = Dot /\ f[k][2] = Dot
    BY <2>3
  <2> QED BY <2>1, <2>2, <2>3, Zenon
<1>3. ModuleEscaped(t) # <<>>
  <2> DEFINE m == Len(f[1])
  <2>1. 1 \in 1 .. Len(t) /\ Len(f) >= 1
    <3>1. Len(t) \in Nat /\ Len(t) # 0
      BY EmptySeq
    <3> QED BY <1>2, <3>1
  <2>2. m = 1 \/ m = 2
    BY <1>2, <2>1
  <2> HIDE DEF m
  <2>3. m >= 1
    BY ONLY <2>2
  <2> QED BY <1>1, <2>1, <2>3, FlattenNonempty DEF m
<1>4. ASSUME OneEnd(t) PROVE OneEnd(ModuleEscaped(t))
  <2>1. \A k \in 1 .. Len(t) : \A j \in 1 .. Len(f[k]) : f[k][j] = NL => j = 1 /\ t[k] = NL
    <3> SUFFICES ASSUME NEW k \in 1 .. Len(t), NEW j \in 1 .. Len(f[k]), f[k][j] = NL
                 PROVE  j = 1 /\ t[k] = NL
      OBVIOUS
    <3>0. NL # Dot
      BY DEF NL, Dot
    <3>1. CASE Len(f[k]) = 1 /\ f[k][1] = t[k]
      <4>1. j = 1
        BY <3>1
      <4> QED BY <3>1, <4>1
    <3>2. CASE Len(f[k]) = 2 /\ f[k][1] = Dot /\ f[k][2] = Dot
      <4>1. j = 1 \/ j = 2
        BY <3>2
      <4> QED BY <3>0, <3>2, <4>1
    <3> QED BY <1>2, <3>1, <3>2
  <2> QED BY <1>1, <1>2, <1>4, <2>1, OneEndKept
<1> QED BY <1>1, <1>3, <1>4

-----------------------------------------------------------------------------
(* An escaped text, and the dot on a line of its own that ends it.         *)
LEMMA WireRight ==
  ASSUME NEW S, NEW e \in Seq(S), {NL, Dot} \subseteq S, NEW w, w = e \o <<NL, Dot, NL>>
  PROVE  /\ w \in Seq(S) /\ Len(w) = Len(e) + 3 /\ Len(e) \in Nat
         /\ \A i \in 1 .. Len(e) : w[i] = e[i]
         /\ w[Len(e) + 1] = NL /\ w[Len(e) + 2] = Dot /\ w[Len(e) + 3] = NL
<1> DEFINE z == <<NL, Dot, NL>>
<1>1. z \in Seq(S) /\ Len(z) = 3 /\ z[1] = NL /\ z[2] = Dot /\ z[3] = NL
  OBVIOUS
<1>2. w = e \o z /\ Len(e) \in Nat
  OBVIOUS
<1> HIDE DEF z
<1>3. w \in Seq(S) /\ Len(w) = Len(e) + 3 /\ \A i \in 1 .. Len(e) + 3 : w[i] = IF i <= Len(e) THEN e[i] ELSE z[i - Len(e)]
  <2>1. /\ e \o z \in Seq(S) /\ Len(e \o z) = Len(e) + Len(z)
        /\ \A i \in 1 .. Len(e) + Len(z) : (e \o z)[i] = IF i <= Len(e) THEN e[i] ELSE z[i - Len(e)]
    BY ONLY <1>1, e \in Seq(S), ConcatProperties
  <2> QED BY ONLY <1>1, <1>2, <2>1
<1>4. \A i \in 1 .. Len(e) : w[i] = e[i]
  BY ONLY <1>2, <1>3
<1>5. w[Len(e) + 1] = z[1] /\ w[Len(e) + 2] = z[2] /\ w[Len(e) + 3] = z[3]
  BY ONLY <1>2, <1>3
<1> QED BY <1>1, <1>2, <1>3, <1>4, <1>5

(* No line before that one is just a dot.                                  *)
LEMMA NoDotBefore ==
  ASSUME NEW S, NEW t \in Seq(S), {NL, Dot} \subseteq S, NEW e, e = ModuleEscaped(t), e \in Seq(S),
         NEW w, w = e \o <<NL, Dot, NL>>,
         NEW c \in Nat, c + 2 <= Len(w), c > 0 => w[c] = NL, w[c + 1] = Dot, w[c + 2] = NL
  PROVE  c = Len(e) + 1
<1>1. /\ Len(w) = Len(e) + 3 /\ Len(e) \in Nat
      /\ \A i \in 1 .. Len(e) : w[i] = e[i]
      /\ w[Len(e) + 1] = NL /\ w[Len(e) + 3] = NL
  BY WireRight
<1>2. NL # Dot
  BY DEF NL, Dot
<1>3. c + 1 > Len(e)
  <2> SUFFICES ASSUME ~(c + 1 > Len(e)) PROVE FALSE
    OBVIOUS
  <2>1. c + 1 \in 1 .. Len(e) /\ (c > 0 => c \in 1 .. Len(e)) /\ (c + 1) - 1 = c /\ (c + 1) + 1 = c + 2
    BY <1>1
  <2>2. e[c + 1] = Dot /\ (c > 0 => e[c] = NL)
    BY <1>1, <2>1
  <2>3. c + 1 \in 1 .. Len(ModuleEscaped(t)) /\ ModuleEscaped(t)[c + 1] = Dot /\ AfterNl(ModuleEscaped(t), c + 1)
    BY <2>1, <2>2 DEF AfterNl
  <2>4. c + 1 < Len(ModuleEscaped(t)) /\ ModuleEscaped(t)[(c + 1) + 1] = Dot
    BY <2>3, ModuleDotsPaired
  <2>5. c + 2 \in 1 .. Len(e) /\ e[c + 2] = Dot
    BY <1>1, <2>1, <2>4
  <2> QED BY <1>1, <1>2, <2>5
<1>4. c + 1 # Len(e) + 1 /\ c + 1 # Len(e) + 3
  BY <1>1, <1>2
<1> QED BY <1>1, <1>3, <1>4

(* Without its dots, what is before that line is the text.                 *)
LEMMA TextWhole ==
  ASSUME NEW S, NEW t \in Seq(S), {NL, Dot} \subseteq S, NEW e, e = ModuleEscaped(t), e \in Seq(S),
         NEW w, w = e \o <<NL, Dot, NL>>
  PROVE  Upto(Undotted(w), Len(e) + 1) = t \o <<NL>>
<1> DEFINE u == Undotted(w)
           v == Undotted(e)
           n == Len(e)
<1>1. /\ w \in Seq(S) /\ Len(w) = n + 3 /\ n \in Nat
      /\ \A i \in 1 .. n : w[i] = e[i]
      /\ w[n + 1] = NL
  BY WireRight
<1>2. /\ u \in Seq(Seq(S)) /\ Len(u) = Len(w)
      /\ \A i \in 1 .. Len(w) : u[i] = IF w[i] = Dot /\ AfterNl(w, i) THEN <<>> ELSE <<w[i]>>
  BY <1>1, UndottedType
<1>3. /\ v \in Seq(Seq(S)) /\ Len(v) = n
      /\ \A i \in 1 .. n : v[i] = IF e[i] = Dot /\ AfterNl(e, i) THEN <<>> ELSE <<e[i]>>
  BY UndottedType
<1>4. FlattenSeq(v) = t
  BY ModuleDotsUndone
<1> HIDE DEF u, v, n
<1>5. SubSeq(u, 1, n) = v
  <2> DEFINE R == Seq(S)
             s == SubSeq(u, 1, n)
  <2>1. u \in Seq(R) /\ v \in Seq(R) /\ Len(u) = n + 3 /\ Len(v) = n /\ n \in Nat
    BY <1>1, <1>2, <1>3
  <2>2. \A i \in 1 .. n : u[i] = v[i]
    <3> SUFFICES ASSUME NEW i \in 1 .. n PROVE u[i] = v[i]
      OBVIOUS
    <3>1. i \in 1 .. Len(w) /\ w[i] = e[i] /\ (i # 1 => i - 1 \in 1 .. n)
      BY <1>1
    <3>2. AfterNl(w, i) <=> AfterNl(e, i)
      BY <1>1, <3>1 DEF AfterNl
    <3> QED BY <1>2, <1>3, <3>1, <3>2, Zenon
  <2> HIDE DEF R
  <2>3. s \in Seq(R) /\ Len(s) = n /\ \A i \in 1 .. n : s[i] = u[i]
    BY ONLY <2>1
  <2> HIDE DEF s
  <2>4. s = v
    BY ONLY <2>1, <2>2, <2>3, SeqEqual
  <2> QED BY <2>4 DEF s
<1>6. Upto(u, n) = t
  BY <1>4, <1>5 DEF Upto
<1>7. n + 1 \in 1 .. Len(u) /\ (n + 1) - 1 = n /\ n + 1 \in 1 .. Len(w)
  BY <1>1, <1>2
<1>8. Upto(u, n + 1) = Upto(u, n) \o u[n + 1]
  BY <1>2, <1>7, UptoStep
<1>9. u[n + 1] = <<NL>>
  <2>1. NL # Dot
    BY DEF NL, Dot
  <2> QED BY <1>1, <1>2, <1>7, <2>1
<1> QED BY <1>6, <1>8, <1>9 DEF u, n

-----------------------------------------------------------------------------
(* The invariant. *)

(* What the server writes: the text as the module is to find it, and the   *)
(* dot that ends it.  Out bytes of it have been written, Taken read.       *)
Content == IF kind = "text" THEN Marked(Bytes(said)) ELSE Bytes(said)
Sent == ModuleEscaped(Content)
Wire == Sent \o <<NL, Dot, NL>>
Out == CASE server = "end" -> Len(Sent) [] server = "done" -> Len(Sent) + 3 [] OTHER -> 0
Taken == Out - Len(pipe)

Elements == Alphabet \cup {NL, CR, Dot, Less, Lead, Tail2, LessEntity, SpeakTag, EndTag, MarkTag, Stale}

ServerInv ==
  /\ server \in {"receive", "prepare", "text", "end", "done"}
  /\ server = "prepare" => buf = Bytes(said)
  /\ server \in {"text", "end", "done"} => buf = Sent
  /\ server \in {"receive", "prepare"} <=> module = "command"
  /\ module \in {"command", "read", "strip", "speak", "spoken"}

IdleInv ==
  module = "command" => pipe = <<>> /\ ptr = 0 /\ used = 0 /\ noLf = 0 /\ text = <<>>

UnspokenInv ==
  module \in {"command", "read", "strip"} => pos = 0 /\ parts = <<>>

(* The pipe holds what was written and not yet read, the buffer what was   *)
(* read up to there, its last lines from ptr on not yet returned.          *)
PipeInv ==
  /\ pipe \in Seq(Elements)
  /\ module = "read" =>
       /\ Taken \in Nat
       /\ \A i \in 1 .. Len(pipe) : pipe[i] = Wire[Taken + i]

BufferInv ==
  /\ data \in Seq(Elements) /\ ptr \in Nat /\ used \in Nat /\ noLf \in Nat
  /\ ptr + used <= Len(data)
  /\ used = 0 => ptr = 0
  /\ module = "read" =>
       /\ ptr + used <= Taken
       /\ \A i \in 1 .. ptr + used : data[i] = Wire[(Taken - ptr - used) + i]

(* What was returned ends a line.  The next line is searched from there,   *)
(* or again from the beginning of a buffer with no other line in it.       *)
LineInv ==
  module = "read" =>
    /\ Taken - used > 0 => Wire[Taken - used] = NL
    /\ used > 0 => \/ noLf = ptr
                   \/ noLf = 0 /\ \A i \in 1 .. ptr : data[i] = NL => i = ptr
    /\ \/ used = 0
       \/ ptr + used = Len(data)
       \/ Taken \in {Len(Sent), Len(Sent) + 3}

TextInv ==
  /\ module = "read" => text = Upto(Undotted(Wire), Taken - used)
  /\ module = "strip" => text = Content
  /\ module \in {"speak", "spoken"} => text = Bytes(said)

(* What is spoken so far is the beginning of the text, in whole characters. *)
PartsInv ==
  /\ module \in {"speak", "spoken"} =>
       /\ pos \in 0 .. Len(text) /\ (pos > 0 => text[pos] # Lead)
       /\ parts \in Seq(Seq(Elements)) /\ FlattenSeq(parts) = SubSeq(text, 1, pos)
       /\ \A i \in 1 .. Len(parts) : Last(parts[i]) # Lead /\ Head(parts[i]) # Tail2
  /\ module = "spoken" => pos = Len(text)

(* What the client may say: a text of at most two lines, in its alphabet.  *)
SaidInv ==
  /\ said \in Seq(Alphabet) /\ said # <<>> /\ OneEnd(said)
  /\ kind \in {"text", "char"}

InputInv ==
  /\ SaidInv /\ ServerInv /\ IdleInv /\ UnspokenInv
  /\ PipeInv /\ BufferInv /\ LineInv /\ TextInv /\ PartsInv

(* The client's text has the lines that the model gives it.                *)
LEMMA SaidRight ==
  ASSUME MaxLines <= 2, InputInit
  PROVE  SaidInv
<1>1. CASE kind = "text" /\ said \in Texts
  <2>1. PICK m \in 0 .. MaxLength : said \in [1 .. m -> Alphabet]
    BY <1>1 DEF Texts, BoundedSeq, SeqOf
  <2>2. m \in Nat
    BY <2>1, InputAssumption
  <2>3. said \in Seq(Alphabet) /\ DOMAIN said = 1 .. m /\ said # <<>>
    BY <1>1, <2>1, <2>2 DEF Texts
  <2> DEFINE N == {i \in DOMAIN said : said[i] = NL}
  <2>4. IsFiniteSet(N) /\ Cardinality(N) \in Nat
    <3>1. IsFiniteSet(1 .. m)
      BY <2>2, FS_Interval
    <3>2. N \in SUBSET (1 .. m)
      BY <2>3
    <3> HIDE DEF N
    <3>3. IsFiniteSet(N)
      BY <3>1, <3>2, FS_Subset
    <3> QED BY <3>3, FS_CardinalityType
  <2>5. Cardinality(N) <= 1
    <3>1. 1 + Cardinality(N) <= MaxLines
      BY <1>1 DEF Texts, LinesOf
    <3> HIDE DEF N
    <3> QED BY <2>4, <3>1, InputAssumption
  <2>6. ASSUME NEW i \in N, NEW j \in N, i # j PROVE FALSE
    <3>1. Cardinality(N \ {i}) = Cardinality(N) - 1 /\ IsFiniteSet(N \ {i})
      <4> HIDE DEF N
      <4> QED BY <2>4, <2>6, FS_RemoveElement
    <3>2. Cardinality((N \ {i}) \ {j}) = Cardinality(N \ {i}) - 1 /\ IsFiniteSet((N \ {i}) \ {j})
      <4>1. j \in N \ {i}
        BY <2>6
      <4> HIDE DEF N
      <4> QED BY <3>1, <4>1, FS_RemoveElement
    <3>3. Cardinality((N \ {i}) \ {j}) \in Nat
      <4> HIDE DEF N
      <4> QED BY <3>2, FS_CardinalityType
    <3> HIDE DEF N
    <3> QED BY <2>4, <2>5, <3>1, <3>2, <3>3
  <2>7. OneEnd(said)
    BY <2>6 DEF OneEnd
  <2> QED BY <1>1, <2>3, <2>7 DEF SaidInv
<1>2. CASE kind = "char" /\ said \in Characters
  <2>1. PICK c \in Alphabet \ {NL, CR} : said = <<c>>
    BY <1>2 DEF Characters
  <2>2. said \in Seq(Alphabet) /\ said # <<>> /\ DOMAIN said = {1}
    BY <2>1
  <2>3. OneEnd(said)
    BY <2>2 DEF OneEnd
  <2> QED BY <1>2, <2>2, <2>3 DEF SaidInv
<1> QED BY <1>1, <1>2 DEF InputInit

(* What the text, the escaped text and what is written look like.          *)
LEMMA ContentRight ==
  ASSUME SaidInv
  PROVE  /\ Bytes(said) \in Seq(Elements) /\ Bytes(said) # <<>> /\ WholeCharacters(Bytes(said))
         /\ Content \in Seq(Elements) /\ Content # <<>>
         /\ (IF kind = "text" THEN WithoutSsml(Content) ELSE Content) = Bytes(said)
         /\ Sent \in Seq(Elements) /\ Sent # <<>> /\ OneEnd(Sent)
<1>1. Alphabet \cap {Lead, Tail2, LessEntity, SpeakTag, EndTag, MarkTag} = {}
  BY InputAssumption
<1>2. /\ said \in Seq(Elements) /\ said # <<>> /\ OneEnd(said)
      /\ \A k \in 1 .. Len(said) : said[k] \in Alphabet
  <2>1. Alphabet \subseteq Elements
    BY DEF Elements
  <2> QED BY <2>1 DEF SaidInv
<1>3. {Lead, Tail2} \subseteq Elements /\ Tags \cup {LessEntity, Less, Dot} \subseteq Elements
  BY DEF Elements, Tags
<1> DEFINE b == Bytes(said)
<1>4. /\ b \in Seq(Elements) /\ b # <<>> /\ OneEnd(b) /\ WholeCharacters(b)
      /\ \A i \in 1 .. Len(b) : b[i] \in {Lead, Tail2} \/ \E k \in 1 .. Len(said) : b[i] = said[k]
  <2>1. \A k \in 1 .. Len(said) : said[k] \notin {Lead, Tail2}
    BY <1>1, <1>2
  <2> QED BY <1>2, <1>3, <2>1, BytesRight
<1> HIDE DEF b
<1>5. \A k \in 1 .. Len(b) : b[k] \notin Tags \cup {LessEntity}
  <2>1. Lead \notin Tags \cup {LessEntity} /\ Tail2 \notin Tags \cup {LessEntity}
    BY DEF Lead, Tail2, Tags, LessEntity, SpeakTag, EndTag, MarkTag
  <2>2. Alphabet \cap (Tags \cup {LessEntity}) = {}
    BY <1>1 DEF Tags
  <2> QED BY <1>2, <1>4, <2>1, <2>2
<1>6. WithoutSsml(Marked(b)) = b /\ Marked(b) \in Seq(Elements) /\ Marked(b) # <<>> /\ OneEnd(Marked(b))
  BY <1>3, <1>4, <1>5, MarkedRight
<1>7. /\ Content \in Seq(Elements) /\ Content # <<>> /\ OneEnd(Content)
      /\ (IF kind = "text" THEN WithoutSsml(Content) ELSE Content) = b
  <2>1. Content = IF kind = "text" THEN Marked(b) ELSE b
    BY DEF Content, b
  <2> QED BY <1>4, <1>6, <2>1
<1>8. Sent \in Seq(Elements) /\ Sent # <<>> /\ OneEnd(Sent)
  BY <1>7, ModuleEscapedRight DEF Sent
<1> QED BY <1>4, <1>7, <1>8 DEF b

LEMMA SameText ==
  ASSUME said' = said, kind' = kind
  PROVE  Content' = Content /\ Sent' = Sent /\ Wire' = Wire /\ Bytes(said)' = Bytes(said)
         /\ (SaidInv => SaidInv')
<1>1. Bytes(said)' = Bytes(said)
  OBVIOUS
<1>2. Content' = Content
  BY DEF Content
<1>3. Sent' = Sent
  BY <1>2 DEF Sent
<1>4. Wire' = Wire
  BY <1>3 DEF Wire
<1>5. SaidInv => SaidInv'
  BY DEF SaidInv
<1> QED BY <1>1, <1>2, <1>3, <1>4, <1>5

LEMMA InputInitRight ==
  ASSUME MaxLines <= 2, InputInit
  PROVE  InputInv
<1>1. SaidInv
  BY SaidRight
<1>2. ServerInv /\ IdleInv /\ UnspokenInv /\ TextInv /\ PartsInv /\ LineInv
  BY DEF InputInit, ServerInv, IdleInv, UnspokenInv, TextInv, PartsInv, LineInv
<1>3. PipeInv
  BY DEF InputInit, PipeInv
<1>4. BufferInv
  <2>1. PICK size \in Sizes : data = [i \in 1 .. size |-> Stale]
    BY DEF InputInit
  <2>2. size \in Nat /\ Stale \in Elements
    BY <2>1, InputAssumption DEF Elements
  <2>3. data \in Seq(Elements) /\ Len(data) = size
    BY <2>1, <2>2
  <2>4. ptr = 0 /\ used = 0 /\ noLf = 0 /\ module = "command"
    BY DEF InputInit
  <2>5. ptr + used <= Len(data)
    BY <2>2, <2>3, <2>4
  <2> QED BY <2>3, <2>4, <2>5 DEF BufferInv
<1> QED BY <1>1, <1>2, <1>3, <1>4 DEF InputInv

LEMMA ReceiveRight ==
  ASSUME InputInv, Receive
  PROVE  InputInv'
<1> USE DEF InputInv
<1>1. /\ server = "receive" /\ server' = "prepare" /\ module = "command"
      /\ buf' = IF kind = "text" THEN Deescaped(Collected(ClientEscaped(Bytes(said)) \o Terminator)) ELSE Bytes(said)
      /\ UNCHANGED <<said, kind, pipe, data, ptr, used, noLf, lines, text, module, pos, parts>>
  BY DEF Receive, ServerInv, buffer, speaking
<1>2. SaidInv' /\ Bytes(said)' = Bytes(said)
  BY <1>1, SameText
<1>3. buf' = Bytes(said)
  <2>1. Bytes(said) \in Seq(Elements) /\ Bytes(said) # <<>> /\ {NL, CR, Dot} \subseteq Elements
    BY ContentRight DEF Elements
  <2>2. Collected(ClientEscaped(Bytes(said)) \o Terminator) = ClientEscaped(Bytes(said))
    BY <2>1, CollectedIsSent
  <2>3. Deescaped(ClientEscaped(Bytes(said))) = Bytes(said)
    BY <2>1, ClientDotsUndone
  <2> QED BY <1>1, <2>2, <2>3
<1>4. ServerInv'
  BY <1>1, <1>2, <1>3 DEF ServerInv
<1>5. IdleInv' /\ UnspokenInv' /\ PipeInv' /\ BufferInv' /\ LineInv' /\ TextInv' /\ PartsInv'
  BY <1>1 DEF IdleInv, UnspokenInv, PipeInv, BufferInv, LineInv, TextInv, PartsInv
<1> QED BY <1>2, <1>4, <1>5

LEMMA PrepareRight ==
  ASSUME InputInv, Prepare
  PROVE  InputInv'
<1> USE DEF InputInv
<1>1. /\ server = "prepare" /\ server' = "text" /\ module = "command" /\ module' = "read"
      /\ buf = Bytes(said)
      /\ buf' = ModuleEscaped(IF kind = "text" THEN Marked(buf) ELSE buf)
      /\ UNCHANGED <<said, kind, pipe, data, ptr, used, noLf, lines, text, pos, parts>>
  BY DEF Prepare, ServerInv, buffer, speaking
<1>2. SaidInv' /\ Sent' = Sent /\ Wire' = Wire /\ Bytes(said)' = Bytes(said)
  BY <1>1, SameText
<1>3. buf' = Sent
  BY <1>1 DEF Sent, Content
<1>4. ServerInv'
  BY <1>1, <1>2, <1>3 DEF ServerInv
<1>5. pipe = <<>> /\ ptr = 0 /\ used = 0 /\ noLf = 0 /\ text = <<>>
  BY <1>1 DEF IdleInv
<1>6. Len(pipe') = 0 /\ Out' = 0 /\ Taken' = 0
  BY <1>1, <1>5 DEF Out, Taken
<1>7. IdleInv' /\ UnspokenInv' /\ PartsInv'
  BY <1>1 DEF IdleInv, UnspokenInv, PartsInv
<1>8. PipeInv'
  BY <1>1, <1>5, <1>6 DEF PipeInv
<1>9. BufferInv'
  BY <1>1, <1>5, <1>6 DEF BufferInv
<1>10. LineInv'
  BY <1>1, <1>5, <1>6 DEF LineInv
<1>11. TextInv'
  <2>1. Wire \in Seq(Elements)
    <3>1. {NL, Dot} \subseteq Elements /\ Sent \in Seq(Elements)
      BY ContentRight DEF Elements
    <3> QED BY <3>1, WireRight DEF Wire
  <2>2. Upto(Undotted(Wire), 0) = <<>>
    <3>1. Undotted(Wire) \in Seq(Seq(Elements))
      BY <2>1, UndottedType
    <3> QED BY <3>1, UptoEnds
  <2>3. text' = <<>> /\ Taken' - used' = 0
    BY <1>1, <1>5, <1>6
  <2> QED BY <1>1, <1>2, <2>2, <2>3 DEF TextInv
<1> QED BY <1>2, <1>4, <1>7, <1>8, <1>9, <1>10, <1>11

LEMMA StripRight ==
  ASSUME InputInv, Strip
  PROVE  InputInv'
<1> USE DEF InputInv
<1>1. /\ module = "strip" /\ module' = "speak" /\ text = Content
      /\ text' = IF kind = "text" THEN WithoutSsml(text) ELSE text
      /\ UNCHANGED <<said, kind, server, buf, pipe, data, ptr, used, noLf, lines, pos, parts>>
  BY DEF Strip, serverVars, buffer, speaking, TextInv
<1>2. SaidInv' /\ Sent' = Sent /\ Bytes(said)' = Bytes(said)
  BY <1>1, SameText
<1>3. text' = Bytes(said) /\ Bytes(said) \in Seq(Elements)
  BY <1>1, ContentRight
<1>4. ServerInv' /\ IdleInv' /\ UnspokenInv' /\ PipeInv' /\ BufferInv' /\ LineInv'
  BY <1>1, <1>2 DEF ServerInv, IdleInv, UnspokenInv, PipeInv, BufferInv, LineInv
<1>5. TextInv'
  BY <1>1, <1>2, <1>3 DEF TextInv
<1>6. PartsInv'
  <2>1. pos' = 0 /\ parts' = <<>> /\ module' = "speak"
    BY <1>1 DEF UnspokenInv
  <2>2. Len(text') \in Nat /\ SubSeq(text', 1, 0) = <<>>
    BY <1>3
  <2>3. parts' \in Seq(Seq(Elements)) /\ Len(parts') = 0 /\ FlattenSeq(parts') = <<>>
    BY <2>1, FlattenNone
  <2>4. pos' \in 0 .. Len(text') /\ ~(pos' > 0) /\ 1 .. Len(parts') = {}
    BY <2>1, <2>2, <2>3
  <2>5. FlattenSeq(parts') = SubSeq(text', 1, pos')
    BY <2>1, <2>2, <2>3
  <2> QED BY <2>1, <2>3, <2>4, <2>5 DEF PartsInv
<1> QED BY <1>2, <1>4, <1>5, <1>6

LEMMA SpokenRight ==
  ASSUME InputInv, Spoken
  PROVE  InputInv'
<1> USE DEF InputInv
<1>1. /\ module = "speak" /\ module' = "spoken" /\ pos = Len(text)
      /\ UNCHANGED <<said, kind, server, buf, pipe, data, ptr, used, noLf, lines, text, pos, parts>>
  BY DEF Spoken, serverVars, buffer, speaking
<1>2. SaidInv' /\ Sent' = Sent /\ Bytes(said)' = Bytes(said)
  BY <1>1, SameText
<1>3. ServerInv' /\ IdleInv' /\ UnspokenInv' /\ PipeInv' /\ BufferInv' /\ LineInv' /\ TextInv'
  BY <1>1, <1>2 DEF ServerInv, IdleInv, UnspokenInv, PipeInv, BufferInv, LineInv, TextInv
<1>4. PartsInv'
  BY <1>1 DEF PartsInv
<1> QED BY <1>2, <1>3, <1>4

LEMMA WireOf ==
  ASSUME SaidInv
  PROVE  /\ {NL, Dot} \subseteq Elements /\ Sent \in Seq(Elements) /\ Len(Sent) \in Nat /\ Len(Sent) >= 1
         /\ Wire \in Seq(Elements) /\ Len(Wire) = Len(Sent) + 3
         /\ \A i \in 1 .. Len(Sent) : Wire[i] = Sent[i]
         /\ Wire[Len(Sent) + 1] = NL /\ Wire[Len(Sent) + 2] = Dot /\ Wire[Len(Sent) + 3] = NL
<1>1. {NL, Dot} \subseteq Elements /\ Sent \in Seq(Elements) /\ Sent # <<>>
  BY ContentRight DEF Elements
<1>2. Len(Sent) \in Nat /\ Len(Sent) >= 1
  <2>1. Len(Sent) \in Nat \ {0}
    BY <1>1, EmptySeq
  <2> QED BY <2>1
<1>3. Wire = Sent \o <<NL, Dot, NL>>
  BY DEF Wire
<1>4. /\ Wire \in Seq(Elements) /\ Len(Wire) = Len(Sent) + 3
      /\ \A i \in 1 .. Len(Sent) : Wire[i] = Sent[i]
      /\ Wire[Len(Sent) + 1] = NL /\ Wire[Len(Sent) + 2] = Dot /\ Wire[Len(Sent) + 3] = NL
  BY <1>1, <1>3, WireRight
<1> QED BY <1>1, <1>2, <1>4

(* What is written continues what is in the pipe.                          *)
LEMMA WriteTextRight ==
  ASSUME InputInv, WriteText
  PROVE  InputInv'
<1> USE DEF InputInv
<1>1. /\ server = "text" /\ server' = "end" /\ pipe' = pipe \o buf /\ buf = Sent
      /\ UNCHANGED <<said, kind, buf, data, ptr, used, noLf, lines, text, module, pos, parts>>
  BY DEF WriteText, ServerInv, buffer, speaking
<1>2. SaidInv' /\ Sent' = Sent /\ Wire' = Wire /\ Bytes(said)' = Bytes(said)
  BY <1>1, SameText
<1>3. /\ Sent \in Seq(Elements) /\ Len(Sent) \in Nat /\ pipe \in Seq(Elements) /\ Len(pipe) \in Nat
      /\ \A i \in 1 .. Len(Sent) : Wire[i] = Sent[i]
  BY WireOf DEF PipeInv
<1>4. pipe' \in Seq(Elements) /\ Len(pipe') = Len(pipe) + Len(Sent)
  BY <1>1, <1>3
<1>5. Out = 0 /\ Out' = Len(Sent) /\ Taken = 0 - Len(pipe) /\ Taken' = Taken
  <2>1. Out = 0 /\ Out' = Len(Sent)
    BY <1>1, <1>2 DEF Out
  <2> QED BY <1>3, <1>4, <2>1 DEF Taken
<1>6. ServerInv' /\ UnspokenInv' /\ BufferInv' /\ LineInv' /\ TextInv' /\ PartsInv'
  <2>1. ServerInv'
    BY <1>1, <1>2 DEF ServerInv
  <2>2. UnspokenInv' /\ PartsInv'
    BY <1>1 DEF UnspokenInv, PartsInv
  <2>3. BufferInv'
    BY <1>1, <1>2, <1>5 DEF BufferInv
  <2>4. LineInv'
    BY <1>1, <1>2, <1>5 DEF LineInv
  <2>5. TextInv'
    BY <1>1, <1>2, <1>5, SameText DEF TextInv
  <2> QED BY <2>1, <2>2, <2>3, <2>4, <2>5
<1>7. IdleInv'
  BY <1>1 DEF IdleInv, ServerInv
<1>8. PipeInv'
  <2>1. ASSUME module = "read", NEW i \in 1 .. Len(pipe')
        PROVE  pipe'[i] = Wire[Taken + i]
    <3>1. Len(pipe) = 0 /\ Taken = 0 /\ pipe = <<>>
      BY <1>3, <1>5, <2>1 DEF PipeInv
    <3>2. pipe' = Sent /\ i \in 1 .. Len(Sent) /\ Taken + i = i
      BY <1>1, <1>3, <1>4, <2>1, <3>1
    <3> QED BY <1>3, <3>2
  <2> QED BY <1>1, <1>2, <1>4, <1>5, <2>1 DEF PipeInv
<1> QED BY <1>2, <1>6, <1>7, <1>8

LEMMA WriteEndRight ==
  ASSUME InputInv, WriteEnd
  PROVE  InputInv'
<1> USE DEF InputInv
<1> DEFINE z == <<NL, Dot, NL>>
<1>1. /\ server = "end" /\ server' = "done" /\ pipe' = pipe \o z
      /\ UNCHANGED <<said, kind, buf, data, ptr, used, noLf, lines, text, module, pos, parts>>
  BY DEF WriteEnd, buffer, speaking
<1>2. SaidInv' /\ Sent' = Sent /\ Wire' = Wire /\ Bytes(said)' = Bytes(said)
  BY <1>1, SameText
<1>3. /\ Sent \in Seq(Elements) /\ Len(Sent) \in Nat /\ pipe \in Seq(Elements) /\ Len(pipe) \in Nat
      /\ Wire[Len(Sent) + 1] = NL /\ Wire[Len(Sent) + 2] = Dot /\ Wire[Len(Sent) + 3] = NL
      /\ {NL, Dot} \subseteq Elements
  BY WireOf DEF PipeInv
<1>4. z \in Seq(Elements) /\ Len(z) = 3 /\ z[1] = NL /\ z[2] = Dot /\ z[3] = NL
  BY <1>3
<1> HIDE DEF z
<1>5. /\ pipe' \in Seq(Elements) /\ Len(pipe') = Len(pipe) + 3
      /\ \A i \in 1 .. Len(pipe) + 3 : pipe'[i] = IF i <= Len(pipe) THEN pipe[i] ELSE z[i - Len(pipe)]
  <2>1. /\ pipe \o z \in Seq(Elements) /\ Len(pipe \o z) = Len(pipe) + Len(z)
        /\ \A i \in 1 .. Len(pipe) + Len(z) : (pipe \o z)[i] = IF i <= Len(pipe) THEN pipe[i] ELSE z[i - Len(pipe)]
    BY ONLY <1>3, <1>4, ConcatProperties
  <2> QED BY ONLY <1>1, <1>4, <2>1
<1>6. Out = Len(Sent) /\ Out' = Len(Sent) + 3 /\ Taken = Len(Sent) - Len(pipe) /\ Taken' = Taken
  <2>1. Out = Len(Sent) /\ Out' = Len(Sent) + 3
    BY <1>1, <1>2 DEF Out
  <2> QED BY <1>3, <1>5, <2>1 DEF Taken
<1>7. ServerInv' /\ UnspokenInv' /\ BufferInv' /\ LineInv' /\ TextInv' /\ PartsInv'
  <2>1. ServerInv'
    BY <1>1, <1>2 DEF ServerInv
  <2>2. UnspokenInv' /\ PartsInv'
    BY <1>1 DEF UnspokenInv, PartsInv
  <2>3. BufferInv'
    BY <1>1, <1>2, <1>6 DEF BufferInv
  <2>4. LineInv'
    BY <1>1, <1>2, <1>6 DEF LineInv
  <2>5. TextInv'
    BY <1>1, <1>2, <1>6, SameText DEF TextInv
  <2> QED BY <2>1, <2>2, <2>3, <2>4, <2>5
<1>8. IdleInv'
  BY <1>1 DEF IdleInv, ServerInv
<1>9. PipeInv'
  <2>1. ASSUME module = "read", NEW i \in 1 .. Len(pipe')
        PROVE  pipe'[i] = Wire[Taken + i]
    <3>1. i \in 1 .. Len(pipe) + 3
      BY <1>5, <2>1
    <3>2. CASE i \in 1 .. Len(pipe)
      BY <1>3, <1>5, <2>1, <3>1, <3>2 DEF PipeInv
    <3>3. CASE i \in Len(pipe) + 1 .. Len(pipe) + 3
      <4>1. pipe'[i] = z[i - Len(pipe)]
        BY <1>3, <1>5, <3>1, <3>3
      <4>2. Taken + i = Len(Sent) + (i - Len(pipe)) /\ i - Len(pipe) \in {1, 2, 3}
        BY <1>3, <1>6, <3>3
      <4> QED BY <1>3, <1>4, <4>1, <4>2
    <3> QED BY <1>3, <3>1, <3>2, <3>3
  <2> QED BY <1>1, <1>2, <1>5, <1>6, <2>1 DEF PipeInv
<1> QED BY <1>2, <1>7, <1>8, <1>9

-----------------------------------------------------------------------------
(* A part ends after at least one byte and not within a character.         *)
LEMMA PartEndRight ==
  ASSUME NEW S, NEW t \in Seq(S), WholeCharacters(t), NEW p \in 0 .. Len(t), p < Len(t)
  PROVE  PartEnd(t, p) \in p + 1 .. Len(t) /\ t[PartEnd(t, p)] # Lead
<1> DEFINE room == IF MaxPart < Len(t) - p THEN MaxPart ELSE Len(t) - p
           stops == {i \in 0 .. room : \/ i = room
                                       \/ i < room /\ ~Fits(t[p + i + 1], i)
                                       \/ i > 0 /\ Breaks(t, p + i, i - 1)}
           i == CHOOSE i \in stops : \A j \in stops : i <= j
<1>0. Len(t) \in Nat /\ MaxPart \in Nat /\ MaxPart > 1 /\ p \in Nat
  BY PartAssumption
<1>1. PartEnd(t, p) = p + i
  BY Zenon DEF PartEnd
<1>2. room \in Nat /\ room >= 1 /\ room <= MaxPart /\ room <= Len(t) - p
      /\ (room = MaxPart \/ room = Len(t) - p)
  BY <1>0
<1> HIDE DEF room
<1>3. room \in stops /\ stops \subseteq Nat
  BY <1>2
<1>4. i \in stops /\ \A j \in stops : i <= j
  <2>1. \E k \in stops : \A j \in stops : k <= j
    <3> HIDE DEF stops
    <3> QED BY <1>3, Least
  <2> HIDE DEF stops
  <2> QED BY <2>1
<1> HIDE DEF i
<1>5. i \in 0 .. room /\ (\/ i = room
                          \/ i < room /\ ~Fits(t[p + i + 1], i)
                          \/ i > 0 /\ Breaks(t, p + i, i - 1))
  BY <1>4
<1>6. i # 0
  <2> SUFFICES ASSUME i = 0 PROVE FALSE
    OBVIOUS
  <2>1. ~Fits(t[p + i + 1], i)
    BY <1>2, <1>5
  <2> QED BY <1>0, <2>1 DEF Fits
<1>7. i \in 1 .. room /\ i - 1 \in 0 .. room /\ i - 1 < room /\ i - 1 \notin stops
      /\ p + i \in p + 1 .. Len(t) /\ p + i \in 1 .. Len(t) /\ i - 1 \in Nat /\ i \in Nat
  <2>1. i \in 1 .. room /\ i - 1 \in 0 .. room /\ i - 1 < room /\ ~(i <= i - 1) /\ i - 1 \in Nat /\ i \in Nat
    BY <1>2, <1>5, <1>6
  <2>2. i - 1 \notin stops
    <3> HIDE DEF stops
    <3> QED BY <1>4, <2>1
  <2>3. p + i \in p + 1 .. Len(t) /\ p + i \in 1 .. Len(t)
    BY <1>0, <1>2, <2>1
  <2> QED BY <2>1, <2>2, <2>3
<1>8. Fits(t[p + (i - 1) + 1], i - 1)
  BY <1>7
<1>9. p + (i - 1) + 1 = p + i
  BY <1>0, <1>7
<1>10. t[p + i] # Lead
  <2> SUFFICES ASSUME t[p + i] = Lead PROVE FALSE
    OBVIOUS
  <2>1. i - 1 < MaxPart - 1
    BY <1>8, <1>9 DEF Fits
  <2>2. p + i < Len(t) /\ t[p + i + 1] = Tail2
    BY <1>7 DEF WholeCharacters
  <2>3. i < room
    BY <1>0, <1>2, <1>7, <2>1, <2>2
  <2>4. Fits(t[p + i + 1], i)
    BY <2>2 DEF Fits, Lead, Tail2
  <2>5. Breaks(t, p + i, i - 1)
    <3> HIDE DEF stops
    <3> QED BY <1>2, <1>5, <2>3, <2>4
  <2>6. t[p + i] \in {Dot, NL, CR}
    <3>1. CASE t[p + i] = Dot \/ t[p + i] = NL
      BY <3>1
    <3>2. CASE p + i + 3 <= Len(t) /\ SubSeq(t, p + i, p + i + 3) = <<CR, NL, CR, NL>>
      <4> DEFINE a == p + i
      <4>1. a \in 1 .. Len(t) /\ a + 3 <= Len(t) /\ SubSeq(t, a, a + 3)[1] = CR
        <5>1. <<CR, NL, CR, NL>>[1] = CR
          OBVIOUS
        <5> HIDE DEF stops
        <5> QED BY <1>7, <3>2, <5>1
      <4> HIDE DEF a
      <4>2. SubSeq(t, a, a + 3)[1] = t[a]
        BY <4>1
      <4> QED BY <4>1, <4>2 DEF a
    <3> QED BY <2>5, <3>1, <3>2 DEF Breaks
  <2> QED BY <2>6 DEF Dot, NL, CR, Lead
<1> QED BY <1>1, <1>7, <1>10

LEMMA SpeakPartRight ==
  ASSUME InputInv, SpeakPart
  PROVE  InputInv'
<1> USE DEF InputInv
<1>1. /\ module = "speak" /\ pos < Len(text)
      /\ pos' = PartEnd(text, pos)
      /\ parts' = Append(parts, SubSeq(text, pos + 1, pos'))
      /\ UNCHANGED <<said, kind, server, buf, pipe, data, ptr, used, noLf, lines, text, module>>
  BY DEF SpeakPart, serverVars, buffer
<1>2. SaidInv' /\ Sent' = Sent /\ Bytes(said)' = Bytes(said)
  BY <1>1, SameText
<1>3. text \in Seq(Elements) /\ WholeCharacters(text)
  BY <1>1, ContentRight DEF TextInv
<1>4. /\ pos \in 0 .. Len(text) /\ (pos > 0 => text[pos] # Lead)
      /\ parts \in Seq(Seq(Elements)) /\ FlattenSeq(parts) = SubSeq(text, 1, pos)
      /\ \A i \in 1 .. Len(parts) : Last(parts[i]) # Lead /\ Head(parts[i]) # Tail2
  BY <1>1 DEF PartsInv
<1>5. pos' \in pos + 1 .. Len(text) /\ text[pos'] # Lead
  BY <1>1, <1>3, <1>4, PartEndRight
<1>6. ServerInv' /\ IdleInv' /\ PipeInv' /\ BufferInv' /\ LineInv' /\ TextInv'
  BY <1>1, <1>2 DEF ServerInv, IdleInv, PipeInv, BufferInv, LineInv, TextInv
<1>7. UnspokenInv'
  BY <1>1 DEF UnspokenInv
<1>8. PartsInv'
  <2> SUFFICES ASSUME NEW q, q = pos', NEW x, x = SubSeq(text, pos + 1, q)
               PROVE  /\ Append(parts, x) \in Seq(Seq(Elements))
                      /\ FlattenSeq(Append(parts, x)) = SubSeq(text, 1, q)
                      /\ \A i \in 1 .. Len(Append(parts, x)) :
                           Last(Append(parts, x)[i]) # Lead /\ Head(Append(parts, x)[i]) # Tail2
    <3>1. pos' \in 0 .. Len(text) /\ module' # "spoken" /\ (pos' > 0 => text[pos'] # Lead)
      BY <1>1, <1>3, <1>4, <1>5
    <3> QED BY <1>1, <3>1 DEF PartsInv
  <2>1. q \in pos + 1 .. Len(text) /\ text[q] # Lead /\ pos \in 0 .. Len(text) /\ Len(text) \in Nat
    BY <1>3, <1>4, <1>5
  <2>2. x \in Seq(Elements) /\ Len(x) = q - pos /\ \A i \in 1 .. q - pos : x[i] = text[pos + i]
    BY ONLY <1>3, <2>1, x = SubSeq(text, pos + 1, q)
  <2>3. 1 \in 1 .. q - pos /\ q - pos \in 1 .. q - pos /\ pos + (q - pos) = q /\ q - pos \in Nat \ {0}
    <3>1. q \in Nat /\ pos \in Nat /\ pos < q
      BY ONLY <2>1
    <3> QED BY ONLY <3>1
  <2>4. Last(x) # Lead
    BY <2>1, <2>2, <2>3 DEF Last
  <2>5. Head(x) # Tail2
    <3>1. x # <<>>
      BY ONLY <2>2, <2>3, EmptySeq
    <3>2. Head(x) = text[pos + 1]
      BY ONLY <2>2, <2>3, <3>1
    <3>3. text[pos + 1] = Tail2 => pos > 0 /\ text[pos] = Lead
      <4>1. pos + 1 \in 1 .. Len(text) /\ (pos + 1) - 1 = pos /\ (pos + 1 > 1 => pos > 0)
        BY <2>1
      <4> QED BY <1>3, <4>1 DEF WholeCharacters
    <3> QED BY <1>4, <3>2, <3>3
  <2>6. Append(parts, x) \in Seq(Seq(Elements)) /\ FlattenSeq(Append(parts, x)) = FlattenSeq(parts) \o x
    <3>1. FlattenSeq(Append(parts, x)) = FlattenSeq(parts) \o x
      BY ONLY <1>4, <2>2, FlattenAppend
    <3> DEFINE R == Seq(Elements)
    <3>2. parts \in Seq(R) /\ x \in R
      BY <1>4, <2>2
    <3> HIDE DEF R
    <3>3. Append(parts, x) \in Seq(R)
      BY ONLY <3>2
    <3> QED BY <3>1, <3>3 DEF R
  <2>7. SubSeq(text, 1, pos) \o x = SubSeq(text, 1, q)
    <3>1. 1 \in 1 .. Len(text) + 1 /\ pos \in 1 - 1 .. Len(text) /\ q \in pos .. Len(text)
      BY <2>1
    <3>2. SubSeq(text, 1, pos) \o SubSeq(text, pos + 1, q) = SubSeq(text, 1, q)
      BY ONLY <1>3, <3>1, ConcatAdjacentSubSeq
    <3> QED BY ONLY <3>2, x = SubSeq(text, pos + 1, q)
  <2>8. \A i \in 1 .. Len(Append(parts, x)) : Append(parts, x)[i] = x \/ (i \in 1 .. Len(parts) /\ Append(parts, x)[i] = parts[i])
    <3> DEFINE R == Seq(Elements)
    <3>1. parts \in Seq(R) /\ x \in R
      BY <1>4, <2>2
    <3> HIDE DEF R
    <3> QED BY ONLY <3>1
  <2>9. \A i \in 1 .. Len(Append(parts, x)) :
          Last(Append(parts, x)[i]) # Lead /\ Head(Append(parts, x)[i]) # Tail2
    BY <1>4, <2>4, <2>5, <2>8, Zenon
  <2> QED BY <1>4, <2>6, <2>7, <2>9
<1> QED BY <1>2, <1>6, <1>7, <1>8

-----------------------------------------------------------------------------
(* Where the reader is.                                                    *)
LEMMA WhereRead ==
  ASSUME InputInv, module = "read"
  PROVE  /\ Taken \in Nat /\ ptr \in Nat /\ used \in Nat /\ noLf \in Nat /\ ptr + used <= Taken
         /\ Taken - used \in Nat /\ (Taken - ptr) - used \in Nat
         /\ Out \in {Len(Sent), Len(Sent) + 3} \cup {0} /\ Len(pipe) \in Nat /\ Out = Taken + Len(pipe)
         /\ Taken <= Len(Sent) + 3 /\ Len(Sent) \in Nat /\ Len(Wire) = Len(Sent) + 3
         /\ data \in Seq(Elements) /\ Len(data) \in Nat /\ ptr + used <= Len(data)
         /\ \A i \in 1 .. ptr + used : data[i] = Wire[((Taken - ptr) - used) + i]
<1> USE DEF InputInv
<1>1. Taken \in Nat /\ ptr \in Nat /\ used \in Nat /\ noLf \in Nat /\ ptr + used <= Taken
      /\ \A i \in 1 .. ptr + used : data[i] = Wire[((Taken - ptr) - used) + i]
  BY DEF PipeInv, BufferInv
<1>2. data \in Seq(Elements) /\ Len(data) \in Nat /\ ptr + used <= Len(data) /\ pipe \in Seq(Elements) /\ Len(pipe) \in Nat
  BY DEF PipeInv, BufferInv
<1>3. Len(Sent) \in Nat /\ Len(Wire) = Len(Sent) + 3
  BY WireOf
<1>4. Out \in {Len(Sent), Len(Sent) + 3} \cup {0} /\ Out \in Nat
  BY <1>3 DEF Out
<1>5. Out = Taken + Len(pipe)
  BY <1>2, <1>4 DEF Taken
<1>6. Taken <= Len(Sent) + 3
  BY <1>1, <1>2, <1>3, <1>4, <1>5
<1>7. Taken - used \in Nat /\ (Taken - ptr) - used \in Nat
  BY <1>1
<1> QED BY <1>1, <1>2, <1>3, <1>4, <1>5, <1>6, <1>7

(* The line that module_readline() finds starts where the last one ended;  *)
(* it is empty if that end is found once more.                             *)
LEMMA LineFound ==
  ASSUME InputInv, module = "read", used > 0, Pending(noLf) # {},
         NEW nl, nl = CHOOSE i \in Pending(noLf) : \A j \in Pending(noLf) : i <= j
  PROVE  /\ nl \in Nat /\ ptr <= nl + 1 /\ nl + 1 <= ptr + used /\ data[nl + 1] = NL
         /\ \A i \in ptr + 1 .. nl : data[i] # NL
<1> USE DEF InputInv
<1>1. ptr \in Nat /\ used \in Nat /\ noLf \in Nat
  BY WhereRead
<1>2. Pending(noLf) = {i \in noLf .. ptr + used - 1 : data[i + 1] = NL} /\ Pending(noLf) \subseteq Nat
  BY <1>1 DEF Pending, At
<1>3. nl \in Pending(noLf) /\ \A j \in Pending(noLf) : nl <= j
  <2>1. \E i \in Pending(noLf) : \A j \in Pending(noLf) : i <= j
    BY <1>2, Least
  <2> QED BY <2>1
<1>4. nl \in Nat /\ noLf <= nl /\ nl + 1 <= ptr + used /\ data[nl + 1] = NL
  BY <1>1, <1>2, <1>3
<1>5. \/ noLf = ptr
      \/ noLf = 0 /\ \A i \in 1 .. ptr : data[i] = NL => i = ptr
  BY DEF LineInv
<1>6. ptr <= nl + 1 /\ noLf <= ptr
  <2>1. CASE noLf = ptr
    BY <1>1, <1>4, <2>1
  <2>2. CASE noLf = 0 /\ \A i \in 1 .. ptr : data[i] = NL => i = ptr
    <3>1. nl + 1 <= ptr => nl + 1 \in 1 .. ptr
      BY <1>1, <1>4
    <3> QED BY <1>1, <1>4, <2>2, <3>1
  <2> QED BY <1>5, <2>1, <2>2
<1>7. ASSUME NEW i \in ptr + 1 .. nl, data[i] = NL PROVE FALSE
  <2>1. i - 1 \in noLf .. ptr + used - 1 /\ (i - 1) + 1 = i /\ ~(nl <= i - 1)
    BY <1>1, <1>4, <1>6, <1>7
  <2>2. i - 1 \in Pending(noLf)
    BY <1>2, <1>7, <2>1
  <2> QED BY <1>3, <2>1, <2>2
<1> QED BY <1>4, <1>6, <1>7

LEMMA FrontOfLine ==
  ASSUME NEW S, NEW t, t \in Seq(S), NL \in S, NEW u, u = t \o <<NL>>
  PROVE  u # <<>> /\ Front(u) = t
<1> DEFINE z == <<NL>>
<1>1. z \in Seq(S) /\ Len(z) = 1 /\ Len(t) \in Nat /\ u = t \o z
  OBVIOUS
<1> HIDE DEF z
<1>2. u \in Seq(S) /\ Len(u) = Len(t) + 1 /\ \A i \in 1 .. Len(t) : u[i] = t[i]
  BY <1>1
<1>3. u # <<>>
  BY ONLY <1>1, <1>2, EmptySeq
<1>4. Front(u) = SubSeq(u, 1, Len(t))
  BY <1>1, <1>2 DEF Front
<1>5. SubSeq(u, 1, Len(t)) = t
  <2> DEFINE s == SubSeq(u, 1, Len(t))
  <2>1. s \in Seq(S) /\ Len(s) = Len(t) /\ \A i \in 1 .. Len(t) : s[i] = u[i]
    BY ONLY <1>1, <1>2
  <2> HIDE DEF s
  <2>2. s = t
    BY ONLY <1>1, <1>2, <2>1, t \in Seq(S), SeqEqual
  <2> QED BY <2>2 DEF s
<1> QED BY <1>3, <1>4, <1>5

LEMMA SliceRight ==
  ASSUME NEW S, NEW s, s \in Seq(S), NEW a, a \in Nat, NEW n, n \in Nat, a + n <= Len(s)
  PROVE  /\ SubSeq(s, a + 1, a + n) \in Seq(S) /\ Len(SubSeq(s, a + 1, a + n)) = n
         /\ \A i \in 1 .. n : SubSeq(s, a + 1, a + n)[i] = s[a + i]
OBVIOUS

LEMMA TakeLineRight ==
  ASSUME InputInv, TakeLine
  PROVE  InputInv'
<1> USE DEF InputInv
<1> DEFINE nl   == CHOOSE i \in Pending(noLf) : \A j \in Pending(noLf) : i <= j
           n    == nl + 1 - ptr
           line == Slice(n)
<1>1. /\ module = "read" /\ used > 0 /\ Pending(noLf) # {}
      /\ noLf' = nl + 1 /\ used' = used - n
      /\ ptr' = IF used - n = 0 THEN 0 ELSE ptr + n
      /\ IF line = <<Dot, NL>>
         THEN module' = "strip" /\ text' = (IF text = <<>> THEN <<>> ELSE Front(text))
         ELSE text' = text \o Unstuffed(line) /\ module' = module
      /\ UNCHANGED <<said, kind, server, buf, pipe, data, pos, parts>>
  BY Zenon DEF TakeLine, serverVars, speaking
<1> HIDE DEF line
<1>2. SaidInv' /\ Content' = Content /\ Sent' = Sent /\ Wire' = Wire /\ Bytes(said)' = Bytes(said) /\ Out' = Out /\ Taken' = Taken
  <2>1. SaidInv' /\ Content' = Content /\ Sent' = Sent /\ Wire' = Wire /\ Bytes(said)' = Bytes(said)
    BY <1>1, SameText
  <2>2. Out' = Out
    BY <1>1, <2>1 DEF Out
  <2> QED BY <1>1, <2>1, <2>2 DEF Taken
<1>3. /\ Taken \in Nat /\ ptr \in Nat /\ used \in Nat /\ noLf \in Nat /\ ptr + used <= Taken
      /\ Taken - used \in Nat /\ (Taken - ptr) - used \in Nat
      /\ Taken <= Len(Sent) + 3 /\ Len(Sent) \in Nat /\ Len(Wire) = Len(Sent) + 3
      /\ data \in Seq(Elements) /\ Len(data) \in Nat /\ ptr + used <= Len(data)
      /\ \A i \in 1 .. ptr + used : data[i] = Wire[((Taken - ptr) - used) + i]
  BY <1>1, WhereRead
<1>4. /\ nl \in Nat /\ ptr <= nl + 1 /\ nl + 1 <= ptr + used /\ data[nl + 1] = NL
      /\ \A i \in ptr + 1 .. nl : data[i] # NL
  BY <1>1, LineFound
<1> HIDE DEF nl
<1>5. n \in Nat /\ n <= used /\ ptr + n = nl + 1
  BY <1>3, <1>4
<1> HIDE DEF n
<1> DEFINE c == Taken - used
<1>6. c \in Nat /\ c + n \in Nat /\ c + n <= Len(Wire) /\ Taken' - used' = c + n
  BY <1>1, <1>2, <1>3, <1>5
<1>7. c > 0 => Wire[c] = NL
  BY <1>1 DEF LineInv
<1>8. \A i \in 1 .. used : data[ptr + i] = Wire[c + i]
  <2> SUFFICES ASSUME NEW i \in 1 .. used PROVE data[ptr + i] = Wire[c + i]
    OBVIOUS
  <2>1. ptr + i \in 1 .. ptr + used /\ ((Taken - ptr) - used) + (ptr + i) = c + i
    BY <1>3
  <2> QED BY <1>3, <2>1
<1>9. n > 0 => Wire[c + n] = NL
  <2> HIDE DEF c
  <2>1. n > 0 => n \in 1 .. used
    BY <1>3, <1>5
  <2> QED BY <1>4, <1>5, <1>8, <2>1
<1>10. \A i \in 1 .. n - 1 : Wire[c + i] # NL
  <2> HIDE DEF c
  <2> SUFFICES ASSUME NEW i \in 1 .. n - 1 PROVE Wire[c + i] # NL
    OBVIOUS
  <2>1. i \in 1 .. used /\ ptr + i \in ptr + 1 .. nl
    BY <1>3, <1>4, <1>5
  <2> QED BY <1>4, <1>8, <2>1
<1>11. Wire \in Seq(Elements)
  BY WireOf
<1>12. line = SubSeq(Wire, c + 1, c + n)
  <2> HIDE DEF c
  <2>1. line = SubSeq(data, ptr + 1, ptr + n)
    <3>1. line = SubSeq(data, ptr + 1, IF n >= 0 THEN ptr + n ELSE Len(data))
      BY Zenon DEF Slice, line
    <3>2. n >= 0
      BY ONLY <1>5
    <3> QED BY ONLY <3>1, <3>2
  <2>2. line \in Seq(Elements) /\ Len(line) = n /\ \A i \in 1 .. n : line[i] = data[ptr + i]
    <3>1. ptr + n <= Len(data)
      BY <1>3, <1>5
    <3> QED BY <1>3, <1>5, <2>1, <3>1, SliceRight
  <2> DEFINE s == SubSeq(Wire, c + 1, c + n)
  <2>3. s \in Seq(Elements) /\ Len(s) = n /\ \A i \in 1 .. n : s[i] = Wire[c + i]
    BY <1>5, <1>6, <1>11, SliceRight
  <2>4. \A i \in 1 .. n : line[i] = Wire[c + i]
    <3>1. \A i \in 1 .. n : i \in 1 .. used
      BY <1>3, <1>5
    <3> QED BY <1>8, <2>2, <3>1
  <2> HIDE DEF s
  <2>5. line = s
    BY ONLY <1>5, <2>2, <2>3, <2>4, SeqEqual
  <2> QED BY <2>5 DEF s
<1>13. text = Upto(Undotted(Wire), c)
  BY <1>1 DEF TextInv
<1>14. text \in Seq(Elements)
  <2>1. Undotted(Wire) \in Seq(Seq(Elements)) /\ Len(Undotted(Wire)) = Len(Wire)
    BY <1>11, UndottedType
  <2>2. c \in 0 .. Len(Undotted(Wire))
    BY <1>3, <1>5, <1>6, <2>1
  <2> HIDE DEF c
  <2> QED BY <1>13, <2>1, <2>2, UptoPrefix
<1> HIDE DEF c
<1>15. text \o Unstuffed(line) = Upto(Undotted(Wire), c + n)
  <2>1. CASE n = 0
    <3>1. line = <<>>
      <4>1. c + n < c + 1 /\ c + n \in Int /\ c + 1 \in Int
        BY <1>6, <2>1
      <4> QED BY <1>12, <4>1, SubSeqEmpty
    <3>2. Unstuffed(line) = <<>>
      BY <3>1 DEF Unstuffed
    <3>3. text \o <<>> = text /\ c + n = c
      BY <1>6, <1>14, <2>1
    <3> QED BY <1>13, <3>2, <3>3
  <2>2. CASE n # 0
    <3>1. c < c + n
      BY <1>5, <1>6, <2>2
    <3>2. \A i \in c + 1 .. (c + n) - 1 : Wire[i] # NL
      <4> SUFFICES ASSUME NEW i \in c + 1 .. (c + n) - 1 PROVE Wire[i] # NL
        OBVIOUS
      <4>1. i - c \in 1 .. n - 1 /\ c + (i - c) = i
        BY <1>5, <1>6
      <4> QED BY <1>10, <4>1
    <3>3. Upto(Undotted(Wire), c + n) = Upto(Undotted(Wire), c) \o Unstuffed(SubSeq(Wire, c + 1, c + n))
      BY <1>6, <1>7, <1>11, <3>1, <3>2, LineUndotted
    <3> QED BY <1>12, <1>13, <3>3
  <2> QED BY <2>1, <2>2
<1>16. ServerInv' /\ IdleInv' /\ UnspokenInv' /\ PartsInv'
  <2>1. module' \in {"read", "strip"}
    BY <1>1
  <2>2. ServerInv'
    BY <1>1, <1>2, <2>1 DEF ServerInv
  <2> QED BY <1>1, <2>1, <2>2 DEF IdleInv, UnspokenInv, PartsInv
<1>17. PipeInv'
  BY <1>1, <1>2 DEF PipeInv
<1>18. /\ used' \in Nat /\ ptr' \in Nat /\ noLf' \in Nat
       /\ (used' = 0 => ptr' = 0)
       /\ (used' # 0 => (ptr' = noLf' /\ ptr' + used' = ptr + used))
  <2>1. noLf' = nl + 1 /\ used' = used - n /\ ptr' = IF used - n = 0 THEN 0 ELSE ptr + n
    BY ONLY <1>1
  <2>2. ptr \in Nat /\ used \in Nat /\ nl \in Nat
    BY ONLY <1>3, <1>4
  <2> QED BY ONLY <1>5, <2>1, <2>2
<1>places. Taken \in Nat /\ ptr \in Nat /\ used \in Nat /\ ptr + used <= Taken /\ Len(data) \in Nat /\ ptr + used <= Len(data)
  BY <1>3
<1>19. BufferInv'
  <2>1. ptr' + used' <= Len(data) /\ ptr' + used' <= Taken
    <3>1. CASE used' = 0
      BY <1>18, <1>places, <3>1
    <3>2. CASE used' # 0
      BY <1>18, <1>places, <3>2
    <3> QED BY <3>1, <3>2
  <2>2. \A i \in 1 .. ptr' + used' : data[i] = Wire[((Taken - ptr') - used') + i]
    <3> SUFFICES ASSUME NEW i \in 1 .. ptr' + used' PROVE data[i] = Wire[((Taken - ptr') - used') + i]
      OBVIOUS
    <3>1. used' # 0 /\ ptr' + used' = ptr + used
      <4>1. CASE used' = 0
        <5>1. ptr' = 0 /\ ptr' + used' = 0
          BY <1>18, <4>1
        <5> QED BY <5>1
      <4>2. CASE used' # 0
        BY <1>18, <4>2
      <4> QED BY <4>1, <4>2
    <3>2. i \in 1 .. ptr + used /\ ((Taken - ptr') - used') + i = ((Taken - ptr) - used) + i
      <4> DEFINE m == ptr'
                 k == used'
      <4>1. m \in Nat /\ k \in Nat /\ m + k = ptr + used /\ i \in 1 .. m + k
        BY <1>18, <3>1
      <4> HIDE DEF m, k
      <4>2. i \in 1 .. ptr + used /\ ((Taken - m) - k) + i = ((Taken - ptr) - used) + i
        BY ONLY <1>places, <4>1
      <4> QED BY <4>2 DEF m, k
    <3> QED BY <1>3, <3>2
  <2> QED BY <1>1, <1>2, <1>3, <1>18, <2>1, <2>2 DEF BufferInv
<1>20. LineInv'
  <2> SUFFICES ASSUME module' = "read"
               PROVE  /\ c + n > 0 => Wire[c + n] = NL
                      /\ used' > 0 => noLf' = ptr'
                      /\ \/ used' = 0
                         \/ ptr' + used' = Len(data)
                         \/ Taken \in {Len(Sent), Len(Sent) + 3}
    BY <1>1, <1>2, <1>6 DEF LineInv
  <2>1. c + n > 0 => Wire[c + n] = NL
    BY <1>5, <1>6, <1>7, <1>9
  <2>2. used' > 0 => noLf' = ptr'
    BY <1>18
  <2>3. \/ used' = 0
        \/ ptr' + used' = Len(data)
        \/ Taken \in {Len(Sent), Len(Sent) + 3}
    <3>1. \/ used = 0
          \/ ptr + used = Len(data)
          \/ Taken \in {Len(Sent), Len(Sent) + 3}
      BY <1>1 DEF LineInv
    <3>2. used # 0
      BY <1>1, <1>3
    <3> QED BY <1>18, <3>1, <3>2
  <2> QED BY <2>1, <2>2, <2>3
<1>21. TextInv'
  <2>1. CASE line = <<Dot, NL>>
    <3>1. module' = "strip" /\ text' = (IF text = <<>> THEN <<>> ELSE Front(text))
      BY <1>1, <2>1
    <3>2. n = 2
      <4>1. Len(line) = 2
        BY <2>1
      <4>2. Len(SubSeq(Wire, c + 1, c + n)) = n
        BY <1>5, <1>6, <1>11
      <4> QED BY <1>12, <4>1, <4>2
    <3>3. Wire[c + 1] = Dot /\ Wire[c + 2] = NL
      <4>1. line[1] = Dot /\ line[2] = NL
        BY <2>1
      <4>2. SubSeq(Wire, c + 1, c + 2)[1] = Wire[c + 1] /\ SubSeq(Wire, c + 1, c + 2)[2] = Wire[c + 2]
        <5>1. 2 \in Nat /\ c + 2 <= Len(Wire) /\ 1 \in 1 .. 2 /\ 2 \in 1 .. 2
          BY <1>6, <3>2
        <5> QED BY ONLY <1>6, <1>11, <5>1, SliceRight
      <4> QED BY <1>12, <3>2, <4>1, <4>2
    <3>4. /\ Content \in Seq(Elements) /\ {NL, Dot} \subseteq Elements /\ Sent = ModuleEscaped(Content)
          /\ Sent \in Seq(Elements) /\ Wire = Sent \o <<NL, Dot, NL>>
      BY ContentRight, WireOf DEF Sent, Wire
    <3>5. c = Len(Sent) + 1
      <4>1. c + 2 <= Len(Wire)
        BY <1>6, <3>2
      <4> QED BY <1>6, <1>7, <3>3, <3>4, <4>1, NoDotBefore
    <3>6. text = Content \o <<NL>>
      <4>1. Upto(Undotted(Wire), Len(Sent) + 1) = Content \o <<NL>>
        BY <3>4, TextWhole
      <4> QED BY <1>13, <3>5, <4>1
    <3>7. text # <<>> /\ Front(text) = Content
      BY <3>4, <3>6, FrontOfLine
    <3> QED BY <1>2, <3>1, <3>7 DEF TextInv
  <2>2. CASE line # <<Dot, NL>>
    <3>1. text' = text \o Unstuffed(line) /\ module' = "read"
      BY <1>1, <2>2
    <3>2. text' = Upto(Undotted(Wire), Taken' - used')
      BY <1>6, <1>15, <3>1
    <3> QED BY <1>2, <3>1, <3>2 DEF TextInv
  <2> QED BY <2>1, <2>2
<1> QED BY <1>2, <1>16, <1>17, <1>19, <1>20, <1>21

(* The buffer d, from which place p on there is what was not returned yet, *)
(* has room for more; only a buffer that is not full stays as it is.       *)
Roomy(d, p) ==
  /\ d \in Seq(Elements) /\ p \in Nat /\ p + used < Len(d)
  /\ p <= ptr
  /\ \A i \in 1 .. p + used : d[i] = Wire[((Taken - p) - used) + i]
  /\ p = 0 \/ (p = ptr /\ d = data /\ ptr + used # Len(data))

LEMMA RoomMade ==
  ASSUME InputInv, module = "read"
  PROVE  /\ ptr + used = Len(data) /\ ptr > 0 => Roomy(Moved, 0)
         /\ ptr + used = Len(data) /\ ~(ptr > 0) => Roomy(Grown(data), 0)
         /\ ptr + used # Len(data) => Roomy(data, ptr)
<1>1. /\ Taken \in Nat /\ ptr \in Nat /\ used \in Nat /\ ptr + used <= Taken
      /\ (Taken - ptr) - used \in Nat
      /\ data \in Seq(Elements) /\ Len(data) \in Nat /\ ptr + used <= Len(data)
  BY WhereRead
<1>2. \A i \in 1 .. ptr + used : data[i] = Wire[((Taken - ptr) - used) + i]
  BY WhereRead
<1>3. ASSUME ptr + used = Len(data), ptr > 0 PROVE Roomy(Moved, 0)
  <2> DEFINE d == Moved
  <2>1. DOMAIN data = 1 .. Len(data) /\ \A i \in 1 .. Len(data) : data[i] \in Elements
    BY <1>1
  <2>2. d = [i \in 1 .. Len(data) |-> IF i <= used THEN data[ptr + i] ELSE data[i]]
    BY <2>1 DEF Moved
  <2>3. \A i \in 1 .. used : ptr + i \in 1 .. ptr + used /\ ptr + i \in 1 .. Len(data) /\ i \in 1 .. Len(data)
    BY <1>1
  <2> HIDE DEF d
  <2>4. \A i \in 1 .. Len(data) : i <= used => i \in 1 .. used
    BY <1>1
  <2>5. \A i \in 1 .. Len(data) : d[i] \in Elements
    BY <2>1, <2>2, <2>3, <2>4
  <2>6. d \in Seq(Elements) /\ Len(d) = Len(data)
    BY ONLY <1>1, <2>2, <2>5
  <2>7. ASSUME NEW i \in 1 .. 0 + used PROVE d[i] = Wire[((Taken - 0) - used) + i]
    <3>1. i \in 1 .. used /\ i <= used
      BY <1>1
    <3>2. d[i] = data[ptr + i]
      BY <2>2, <2>3, <3>1
    <3>3. data[ptr + i] = Wire[((Taken - ptr) - used) + (ptr + i)]
      BY <1>2, <2>3, <3>1
    <3>4. ((Taken - ptr) - used) + (ptr + i) = ((Taken - 0) - used) + i
      BY <1>1
    <3> QED BY <3>2, <3>3, <3>4
  <2>8. 0 + used < Len(d) /\ 0 <= ptr /\ 0 \in Nat
    BY <1>1, <1>3, <2>6
  <2> QED BY <2>6, <2>7, <2>8 DEF Roomy, d
<1>4. ASSUME ptr + used = Len(data), ~(ptr > 0) PROVE Roomy(Grown(data), 0)
  <2> DEFINE d == Grown(data)
             n == IF data = <<>> THEN 2 ELSE Len(data)
             z == [i \in 1 .. n |-> Stale]
  <2>1. n \in Nat /\ n > 0
    <3>1. data # <<>> => Len(data) \in Nat \ {0}
      BY <1>1, EmptySeq
    <3> QED BY <3>1
  <2>2. d = data \o z
    BY Zenon DEF Grown
  <2> HIDE DEF n
  <2>3. z \in Seq(Elements) /\ Len(z) = n
    <3>1. Stale \in Elements
      BY DEF Elements
    <3> QED BY <2>1, <3>1
  <2> HIDE DEF z, d
  <2>4. d \in Seq(Elements) /\ Len(d) = Len(data) + n /\ \A i \in 1 .. Len(data) : d[i] = data[i]
    <3>1. /\ data \o z \in Seq(Elements) /\ Len(data \o z) = Len(data) + Len(z)
          /\ \A i \in 1 .. Len(data) + Len(z) : (data \o z)[i] = IF i <= Len(data) THEN data[i] ELSE z[i - Len(data)]
      BY ONLY <1>1, <2>3, ConcatProperties
    <3> QED BY ONLY <1>1, <2>1, <2>2, <2>3, <3>1
  <2>5. ptr = 0 /\ used = Len(data)
    BY <1>1, <1>4
  <2>6. ASSUME NEW i \in 1 .. 0 + used PROVE d[i] = Wire[((Taken - 0) - used) + i]
    BY <1>1, <1>2, <2>4, <2>5
  <2>7. 0 + used < Len(d) /\ 0 <= ptr /\ 0 \in Nat
    BY <1>1, <2>1, <2>4, <2>5
  <2> QED BY <2>4, <2>6, <2>7 DEF Roomy, d
<1>5. ASSUME ptr + used # Len(data) PROVE Roomy(data, ptr)
  <2>1. ptr + used < Len(data) /\ ptr <= ptr
    BY <1>1, <1>5
  <2> QED BY <1>1, <1>2, <1>5, <2>1 DEF Roomy
<1> QED BY <1>3, <1>4, <1>5

(* n bytes are stored in d as e, and r is left in the pipe.                *)
Received(d, p, n, e, r) ==
  /\ e \in Seq(Elements) /\ Len(e) = Len(d)
  /\ \A i \in 1 .. p + (used + n) : e[i] = Wire[((Taken - p) - used) + i]
  /\ \A i \in 1 .. p + used : e[i] = d[i]
  /\ r \in Seq(Elements) /\ Len(r) = Len(pipe) - n
  /\ \A i \in 1 .. Len(pipe) - n : r[i] = Wire[(Taken + n) + i]

(* What comes is put after the bytes that wait for the rest of their line. *)
LEMMA StoredRight ==
  ASSUME InputInv, module = "read", NEW d, NEW p, Roomy(d, p),
         NEW n, n \in Nat, n > 0, n <= Len(pipe), n <= (Len(d) - p) - used,
         NEW e, e = Stored(d, p, SubSeq(pipe, 1, n)),
         NEW r, r = SubSeq(pipe, n + 1, Len(pipe))
  PROVE  Received(d, p, n, e, r)
<1> DEFINE b == SubSeq(pipe, 1, n)
<1>1. /\ Taken \in Nat /\ used \in Nat /\ Len(pipe) \in Nat /\ pipe \in Seq(Elements)
      /\ \A i \in 1 .. Len(pipe) : pipe[i] = Wire[Taken + i]
  BY WhereRead DEF InputInv, PipeInv
<1>2. /\ d \in Seq(Elements) /\ Len(d) \in Nat /\ p \in Nat /\ p + used < Len(d)
      /\ \A i \in 1 .. p + used : d[i] = Wire[((Taken - p) - used) + i]
      /\ DOMAIN d = 1 .. Len(d) /\ \A i \in 1 .. Len(d) : d[i] \in Elements
  BY DEF Roomy
<1>3. b \in Seq(Elements) /\ Len(b) = n /\ DOMAIN b = 1 .. n /\ \A i \in 1 .. n : b[i] = pipe[i] /\ b[i] \in Elements
  <2>1. 0 + n <= Len(pipe) /\ 0 \in Nat /\ 0 + 1 = 1 /\ 0 + n = n
    BY <1>1
  <2>2. b \in Seq(Elements) /\ Len(b) = n /\ \A i \in 1 .. n : b[i] = pipe[0 + i]
    BY <1>1, <2>1, SliceRight
  <2> HIDE DEF b
  <2> QED BY <2>2
<1>4. r \in Seq(Elements) /\ Len(r) = Len(pipe) - n /\ \A i \in 1 .. Len(pipe) - n : r[i] = pipe[n + i]
  <2> DEFINE k == Len(pipe) - n
  <2>1. k \in Nat /\ n + k = Len(pipe) /\ n + k <= Len(pipe)
    BY <1>1
  <2> HIDE DEF k
  <2>2. /\ SubSeq(pipe, n + 1, n + k) \in Seq(Elements) /\ Len(SubSeq(pipe, n + 1, n + k)) = k
        /\ \A i \in 1 .. k : SubSeq(pipe, n + 1, n + k)[i] = pipe[n + i]
    <3>1. n \in Nat
      OBVIOUS
    <3> QED BY ONLY <1>1, <2>1, <3>1, SliceRight
  <2> QED BY <2>1, <2>2 DEF k
<1> HIDE DEF b
<1>5. e = [i \in 1 .. Len(d) |-> IF (i - p) - used \in 1 .. n THEN b[(i - p) - used] ELSE d[i]]
  BY <1>2, <1>3 DEF Stored, b
<1>6. \A i \in 1 .. Len(d) : e[i] \in Elements
  BY <1>2, <1>3, <1>5
<1>7. e \in Seq(Elements) /\ Len(e) = Len(d)
  BY ONLY <1>2, <1>5, <1>6
<1>8. ASSUME NEW i \in 1 .. p + used PROVE e[i] = d[i] /\ e[i] = Wire[((Taken - p) - used) + i]
  <2>1. i \in 1 .. Len(d) /\ (i - p) - used \notin 1 .. n
    BY <1>1, <1>2
  <2> QED BY <1>2, <1>5, <2>1
<1>9. ASSUME NEW i \in 1 .. p + (used + n), i \notin 1 .. p + used PROVE e[i] = Wire[((Taken - p) - used) + i]
  <2> DEFINE j == (i - p) - used
  <2>1. i \in 1 .. Len(d) /\ j \in 1 .. n /\ j \in 1 .. Len(pipe) /\ Taken + j = ((Taken - p) - used) + i
    BY <1>1, <1>2, <1>9
  <2>2. e[i] = b[j]
    BY <1>5, <2>1
  <2> HIDE DEF j
  <2> QED BY <1>1, <1>3, <2>1, <2>2
<1>10. \A i \in 1 .. p + (used + n) : e[i] = Wire[((Taken - p) - used) + i]
  BY <1>8, <1>9
<1>11. ASSUME NEW i \in 1 .. Len(pipe) - n PROVE r[i] = Wire[(Taken + n) + i]
  <2>1. n + i \in 1 .. Len(pipe) /\ Taken + (n + i) = (Taken + n) + i
    BY <1>1
  <2> QED BY <1>1, <1>4, <2>1
<1> QED BY <1>4, <1>7, <1>8, <1>10, <1>11 DEF Received

LEMMA ReadMoreRight ==
  ASSUME InputInv, ReadMore
  PROVE  InputInv'
<1> DEFINE full == ptr + used = Len(data)
           p    == IF full THEN 0 ELSE ptr
           d    == CASE ~full -> data [] full /\ ptr > 0 -> Moved [] OTHER -> Grown(data)
           room == Len(d) - p - used
           n    == IF room < Len(pipe) THEN room ELSE Len(pipe)
<1>1. /\ module = "read" /\ pipe # <<>> /\ (used = 0 \/ Pending(noLf) = {})
      /\ data' = Stored(d, p, SubSeq(pipe, 1, n))
      /\ pipe' = SubSeq(pipe, n + 1, Len(pipe))
      /\ ptr' = p /\ used' = used + n /\ noLf' = 0
      /\ UNCHANGED <<said, kind, server, buf, lines, text, module, pos, parts>>
  BY Zenon DEF ReadMore, serverVars, speaking
<1>2. /\ Taken \in Nat /\ ptr \in Nat /\ used \in Nat /\ ptr + used <= Taken
      /\ Out \in {Len(Sent), Len(Sent) + 3} \cup {0} /\ Len(pipe) \in Nat /\ Out = Taken + Len(pipe)
      /\ Taken <= Len(Sent) + 3 /\ Len(Sent) \in Nat /\ Len(Wire) = Len(Sent) + 3
      /\ Len(data) \in Nat /\ ptr + used <= Len(data)
  BY <1>1, WhereRead
<1>3. Roomy(d, p)
  <2>1. CASE full /\ ptr > 0
    BY <1>1, <2>1, RoomMade
  <2>2. CASE full /\ ~(ptr > 0)
    BY <1>1, <2>2, RoomMade
  <2>3. CASE ~full
    BY <1>1, <2>3, RoomMade
  <2> QED BY <2>1, <2>2, <2>3
<1> HIDE DEF d, p
<1>4. /\ d \in Seq(Elements) /\ Len(d) \in Nat /\ p \in Nat /\ p + used < Len(d) /\ p <= ptr
      /\ p = 0 \/ (p = ptr /\ d = data /\ ptr + used # Len(data))
  BY <1>3 DEF Roomy
<1>5. Len(pipe) > 0
  <2>1. pipe \in Seq(Elements)
    BY DEF InputInv, PipeInv
  <2>2. Len(pipe) \in Nat \ {0}
    BY <1>1, <2>1, EmptySeq
  <2> QED BY <2>2
<1>6. /\ n \in Nat /\ n > 0 /\ n <= Len(pipe) /\ n <= (Len(d) - p) - used
      /\ n = Len(pipe) \/ p + (used + n) = Len(d)
  BY <1>2, <1>4, <1>5
<1> HIDE DEF n
<1>7. /\ data' \in Seq(Elements) /\ Len(data') = Len(d)
      /\ \A i \in 1 .. p + (used + n) : data'[i] = Wire[((Taken - p) - used) + i]
      /\ \A i \in 1 .. p + used : data'[i] = d[i]
      /\ pipe' \in Seq(Elements) /\ Len(pipe') = Len(pipe) - n
      /\ \A i \in 1 .. Len(pipe) - n : pipe'[i] = Wire[(Taken + n) + i]
  <2>1. \A e, r : e = Stored(d, p, SubSeq(pipe, 1, n)) /\ r = SubSeq(pipe, n + 1, Len(pipe)) => Received(d, p, n, e, r)
    BY <1>1, <1>3, <1>6, StoredRight
  <2>2. Received(d, p, n, data', pipe')
    BY <1>1, <2>1, Zenon
  <2> QED BY <2>2 DEF Received
<1>8. SaidInv' /\ Content' = Content /\ Sent' = Sent /\ Wire' = Wire /\ Bytes(said)' = Bytes(said)
  BY <1>1, SameText DEF InputInv
<1>9. Out' = Out /\ Taken' = Taken + n
  <2>1. Out' = Out
    BY <1>1, <1>8 DEF Out
  <2>2. Taken' = Out - (Len(pipe) - n)
    BY <1>7, <2>1 DEF Taken
  <2> QED BY <1>2, <1>6, <2>1, <2>2
<1>10. ServerInv' /\ IdleInv' /\ UnspokenInv' /\ PartsInv'
  <2>1. ServerInv'
    BY <1>1, <1>8 DEF InputInv, ServerInv
  <2> QED BY <1>1, <2>1 DEF InputInv, IdleInv, UnspokenInv, PartsInv
<1>11. PipeInv'
  <2>1. Taken + n \in Nat /\ Len(pipe') = Len(pipe) - n
    BY <1>2, <1>6, <1>7
  <2> QED BY <1>7, <1>8, <1>9, <2>1 DEF PipeInv
<1>12. /\ used' \in Nat /\ ptr' \in Nat /\ noLf' \in Nat /\ used' > 0
       /\ ptr' + used' = p + (used + n) /\ ptr' + used' <= Len(data') /\ ptr' + used' <= Taken'
       /\ Taken' - used' = Taken - used
       /\ (Taken' - ptr') - used' = (Taken - p) - used
  <2>1. ptr' = p /\ used' = used + n /\ noLf' = 0 /\ Taken' = Taken + n /\ Len(data') = Len(d)
    BY <1>1, <1>7, <1>9
  <2>2. /\ used + n \in Nat /\ p \in Nat /\ used + n > 0
        /\ p + (used + n) <= Len(d) /\ p + (used + n) <= Taken + n
        /\ (Taken + n) - (used + n) = Taken - used
        /\ ((Taken + n) - p) - (used + n) = (Taken - p) - used
    BY <1>2, <1>4, <1>6
  <2> QED BY <2>1, <2>2
<1>13. BufferInv'
  <2>1. \A i \in 1 .. ptr' + used' : data'[i] = Wire'[((Taken' - ptr') - used') + i]
    BY <1>7, <1>8, <1>12
  <2>2. used' # 0
    BY <1>12
  <2> QED BY <1>7, <1>12, <2>1, <2>2 DEF InputInv, BufferInv
<1>14. LineInv'
  <2>1. Taken - used > 0 => Wire[Taken - used] = NL
    BY <1>1 DEF InputInv, LineInv
  <2>2. ASSUME p # 0, NEW i \in 1 .. ptr, data'[i] = NL PROVE i = ptr
    <3>1. p = ptr /\ d = data /\ ptr + used # Len(data) /\ used # 0
      BY <1>1, <1>4, <2>2 DEF InputInv, BufferInv
    <3>2. Taken \in {Len(Sent), Len(Sent) + 3}
      BY <1>1, <3>1 DEF InputInv, LineInv
    <3>3. Taken = Len(Sent)
      BY <1>2, <1>5, <3>2
    <3>4. i \in 1 .. p + used /\ i \in 1 .. p + (used + n)
      BY <1>2, <1>4, <1>6, <2>2, <3>1
    <3> DEFINE j == ((Taken - p) - used) + i
               c == Taken - used
    <3>5. Wire[j] = NL
      BY <1>7, <2>2, <3>4
    <3>6. j \in 1 .. Len(Sent) /\ c \in 1 .. Len(Sent) /\ c > 0 /\ (j = c => i = ptr)
      BY <1>2, <2>2, <3>1, <3>3
    <3>7. Wire[c] = NL
      BY <2>1, <3>6
    <3> HIDE DEF j, c
    <3>8. Sent[j] = NL /\ Sent[c] = NL /\ DOMAIN Sent = 1 .. Len(Sent)
      BY <3>5, <3>6, <3>7, WireOf DEF InputInv
    <3>9. j = c
      BY <3>6, <3>8, ContentRight DEF InputInv, OneEnd
    <3> QED BY <3>6, <3>9
  <2>3. noLf' = ptr' \/ (noLf' = 0 /\ \A i \in 1 .. ptr' : data'[i] = NL => i = ptr')
    <3>1. CASE p = 0
      BY <1>1, <3>1
    <3>2. CASE p # 0
      <4>1. ptr' = ptr /\ noLf' = 0
        BY <1>1, <1>4, <3>2
      <4> QED BY <2>2, <3>2, <4>1
    <3> QED BY <3>1, <3>2
  <2>4. ptr' + used' = Len(data') \/ Taken' \in {Len(Sent'), Len(Sent') + 3}
    <3>1. CASE n = Len(pipe)
      <4>1. Taken' = Out /\ Out # 0
        BY <1>2, <1>5, <1>9, <3>1
      <4> QED BY <1>2, <1>8, <4>1
    <3>2. CASE p + (used + n) = Len(d)
      BY <1>7, <1>12, <3>2
    <3> QED BY <1>6, <3>1, <3>2
  <2>5. Taken' - used' > 0 => Wire'[Taken' - used'] = NL
    BY <1>8, <1>12, <2>1
  <2> QED BY <2>3, <2>4, <2>5 DEF InputInv, LineInv
<1>15. TextInv'
  <2>1. text' = Upto(Undotted(Wire), Taken - used)
    BY <1>1 DEF InputInv, TextInv
  <2> QED BY <1>1, <1>8, <1>12, <2>1 DEF InputInv, TextInv
<1> QED BY <1>8, <1>10, <1>11, <1>13, <1>14, <1>15 DEF InputInv

-----------------------------------------------------------------------------
LEMMA InputStepRight ==
  ASSUME InputInv, [InputNext]_inputVars
  PROVE  InputInv'
<1>1. CASE UNCHANGED inputVars
  <2>1. UNCHANGED <<said, kind, server, buf, pipe, data, ptr, used, noLf, lines, text, module, pos, parts>>
    BY <1>1 DEF inputVars, serverVars, buffer, speaking
  <2>2. SaidInv' /\ Content' = Content /\ Sent' = Sent /\ Wire' = Wire /\ Bytes(said)' = Bytes(said)
    BY <2>1, SameText DEF InputInv
  <2>3. Out' = Out /\ Taken' = Taken
    BY <2>1, <2>2 DEF Out, Taken
  <2>4. ServerInv' /\ IdleInv' /\ UnspokenInv' /\ PartsInv'
    BY <2>1, <2>2 DEF InputInv, ServerInv, IdleInv, UnspokenInv, PartsInv
  <2>5. PipeInv' /\ BufferInv'
    BY <2>1, <2>2, <2>3 DEF InputInv, PipeInv, BufferInv
  <2>6. LineInv' /\ TextInv'
    BY <2>1, <2>2, <2>3 DEF InputInv, LineInv, TextInv
  <2> QED BY <2>2, <2>4, <2>5, <2>6 DEF InputInv
<1>2. CASE InputNext
  BY <1>2, ReceiveRight, PrepareRight, WriteTextRight, WriteEndRight, TakeLineRight, ReadMoreRight,
     StripRight, SpeakPartRight, SpokenRight DEF InputNext
<1> QED BY <1>1, <1>2

(* A text that is spoken is what was said.                                 *)
LEMMA SpokenThen ==
  ASSUME InputInv
  PROVE  SpokenAsSaid
<1> SUFFICES ASSUME module = "spoken"
             PROVE  /\ FlattenSeq(parts) = Bytes(said)
                    /\ \A i \in DOMAIN parts : Last(parts[i]) # Lead /\ Head(parts[i]) # Tail2
  BY DEF SpokenAsSaid
<1>1. text = Bytes(said) /\ Bytes(said) \in Seq(Elements)
  BY ContentRight DEF InputInv, TextInv
<1>2. /\ pos = Len(text) /\ parts \in Seq(Seq(Elements)) /\ FlattenSeq(parts) = SubSeq(text, 1, pos)
      /\ \A i \in 1 .. Len(parts) : Last(parts[i]) # Lead /\ Head(parts[i]) # Tail2
  BY DEF InputInv, PartsInv
<1>3. SubSeq(text, 1, pos) = Bytes(said)
  BY <1>1, <1>2, SubSeqFull
<1>4. DOMAIN parts = 1 .. Len(parts)
  BY <1>2, LenProperties
<1> QED BY <1>2, <1>3, <1>4

(* What a client says in at most two lines is what the synthesizer is      *)
(* given, whatever its characters and however the pipe is read: the run    *)
(* checks texts of a few characters, this is for every length.             *)
THEOREM SpokenCorrect ==
  ASSUME MaxLines <= 2
  PROVE  InputSpec => []SpokenAsSaid
<1>1. InputInit => InputInv
  BY InputInitRight
<1>2. InputInv /\ [InputNext]_inputVars => InputInv'
  BY InputStepRight
<1>3. InputInv => SpokenAsSaid
  BY SpokenThen
<1> QED BY <1>1, <1>2, <1>3, PTL DEF InputSpec

-----------------------------------------------------------------------------
(* Texts that are made block by block. *)

(* Each block of f, one to three elements of what it is flattened to, is   *)
(* contracted by g to a block of h.                                        *)
Contracts(f, g, h) ==
  \A k \in 1 .. Len(f), p \in Nat : p = BlockEnd(f, k - 1) =>
    \/ Len(f[k]) = 1 /\ g[p + 1] = h[k]
    \/ Len(f[k]) = 2 /\ g[p + 1] \o g[p + 2] = h[k]
    \/ Len(f[k]) = 3 /\ (g[p + 1] \o g[p + 2]) \o g[p + 3] = h[k]

LEMMA Blockwise ==
  ASSUME NEW S, NEW f \in Seq(Seq(S)), NEW g \in Seq(Seq(S)), NEW h \in Seq(Seq(S)),
         Len(h) = Len(f), Len(g) = Len(FlattenSeq(f)), Contracts(f, g, h)
  PROVE  FlattenSeq(g) = FlattenSeq(h)
<1> DEFINE n == Len(f)
           Good(k) == Upto(g, BlockEnd(f, k)) = Upto(h, k)
           Bad == {k \in 0 .. n : ~Good(k)}
<1>1. n \in Nat
  OBVIOUS
<1>2. Good(0)
  BY UptoEnds
<1>3. ASSUME NEW k \in 1 .. n, Good(k - 1)
      PROVE  Good(k)
  <2> DEFINE p == BlockEnd(f, k - 1)
  <2>1. /\ p \in Nat /\ f[k] \in Seq(S) /\ BlockEnd(f, k) = p + Len(f[k])
        /\ BlockEnd(f, k) <= Len(g) /\ Len(g) \in Nat
    <3>1. k \in 1 .. Len(f)
      OBVIOUS
    <3>2. BlockEnd(f, k) <= Len(FlattenSeq(f))
      BY <3>1, Block
    <3>3. p \in Nat /\ f[k] \in Seq(S) /\ BlockEnd(f, k) = p + Len(f[k])
      BY <3>1, UptoStep
    <3> QED BY <3>2, <3>3
  <2>2. Upto(h, k) = Upto(h, k - 1) \o h[k]
    <3>1. k \in 1 .. Len(h)
      OBVIOUS
    <3> QED BY <3>1, UptoStep
  <2>3. Upto(g, p) = Upto(h, k - 1)
    BY <1>3
  <2>4. \/ Len(f[k]) = 1 /\ g[p + 1] = h[k]
        \/ Len(f[k]) = 2 /\ g[p + 1] \o g[p + 2] = h[k]
        \/ Len(f[k]) = 3 /\ (g[p + 1] \o g[p + 2]) \o g[p + 3] = h[k]
    BY <2>1 DEF Contracts
  <2> HIDE DEF p, Bad
  <2>5. CASE Len(f[k]) = 1 /\ g[p + 1] = h[k]
    <3>1. p + 1 \in 1 .. Len(g) /\ (p + 1) - 1 = p /\ BlockEnd(f, k) = p + 1
      <4> DEFINE m == Len(f[k])
      <4>1. m = 1 /\ BlockEnd(f, k) = p + m
        BY <2>1, <2>5
      <4> HIDE DEF m
      <4> QED BY ONLY <2>1, <4>1
    <3>2. Upto(g, p + 1) = Upto(g, p) \o g[p + 1]
      BY <3>1, UptoStep
    <3> QED BY <2>2, <2>3, <2>5, <3>1, <3>2
  <2>6. CASE Len(f[k]) = 2 /\ g[p + 1] \o g[p + 2] = h[k]
    <3>1. p + 2 <= Len(g) /\ BlockEnd(f, k) = p + 2
      <4> DEFINE m == Len(f[k])
      <4>1. m = 2 /\ BlockEnd(f, k) = p + m
        BY <2>1, <2>6
      <4> HIDE DEF m
      <4> QED BY ONLY <2>1, <4>1
    <3>2. Upto(g, p + 2) = Upto(g, p) \o (g[p + 1] \o g[p + 2])
      BY <2>1, <3>1, UptoTwice
    <3> QED BY <2>2, <2>3, <2>6, <3>1, <3>2
  <2>7. CASE Len(f[k]) = 3 /\ (g[p + 1] \o g[p + 2]) \o g[p + 3] = h[k]
    <3>1. /\ p + 2 <= Len(g) /\ BlockEnd(f, k) = p + 3 /\ p + 3 \in 1 .. Len(g) /\ (p + 3) - 1 = p + 2
          /\ p + 1 \in 1 .. Len(g) /\ p + 2 \in 1 .. Len(g) /\ (p + 1) - 1 = p
      <4> DEFINE m == Len(f[k])
      <4>1. m = 3 /\ BlockEnd(f, k) = p + m
        BY <2>1, <2>7
      <4> HIDE DEF m
      <4> QED BY ONLY <2>1, <4>1
    <3> DEFINE u == Upto(g, p)
               x == g[p + 1]
               y == g[p + 2]
               z == g[p + 3]
    <3>2. Upto(g, p + 2) = u \o (x \o y)
      BY <2>1, <3>1, UptoTwice
    <3>3. Upto(g, p + 3) = Upto(g, p + 2) \o z
      <4> DEFINE q == p + 3
      <4>1. q \in 1 .. Len(g) /\ q - 1 = p + 2
        BY <3>1
      <4> HIDE DEF q
      <4>2. Upto(g, q) = Upto(g, q - 1) \o g[q]
        BY ONLY <4>1, g \in Seq(Seq(S)), UptoStep
      <4> QED BY <4>1, <4>2 DEF q
    <3>4. u \in Seq(S) /\ x \in Seq(S) /\ y \in Seq(S) /\ z \in Seq(S)
      BY <3>1, UptoStep
    <3>5. Upto(h, k) = u \o ((x \o y) \o z)
      BY <2>2, <2>3, <2>7
    <3> HIDE DEF u, x, y, z
    <3>6. x \o y \in Seq(S)
      BY ONLY <3>4
    <3> DEFINE w == x \o y
    <3>7. w \in Seq(S)
      BY <3>6
    <3> HIDE DEF w
    <3>8. u \o (w \o z) = (u \o w) \o z
      <4>1. u \in Seq(S) /\ w \in Seq(S) /\ z \in Seq(S)
        BY <3>4, <3>7
      <4> QED BY ONLY <4>1, Associates
    <3> QED BY <3>1, <3>2, <3>3, <3>5, <3>8 DEF w
  <2> QED BY <2>4, <2>5, <2>6, <2>7
<1>4. Bad = {}
  <2> SUFFICES ASSUME Bad # {} PROVE FALSE
    OBVIOUS
  <2>1. PICK k \in Bad : \A y \in Bad : k <= y
    <3>1. Bad \subseteq Nat
      BY <1>1
    <3> HIDE DEF Bad
    <3> QED BY <3>1, Least
  <2> HIDE DEF Good
  <2>2. k # 0
    BY <1>2, <2>1
  <2>3. k \in 1 .. n /\ k - 1 \in 0 .. n /\ ~(k <= k - 1)
    BY <1>1, <2>2
  <2>4. Good(k - 1)
    BY <2>1, <2>3
  <2> QED BY <1>3, <2>1, <2>3, <2>4
<1>5. Good(n)
  <2> HIDE DEF Good
  <2> QED BY <1>1, <1>4
<1>6. BlockEnd(f, n) = Len(g)
  BY UptoEnds DEF BlockEnd
<1> QED BY <1>5, <1>6, UptoEnds

(* Blocks of one element each.                                             *)
LEMMA Singles ==
  ASSUME NEW S, NEW t \in Seq(S), NEW h \in Seq(Seq(S)), Len(h) = Len(t),
         \A k \in 1 .. Len(t) : h[k] = <<t[k]>>
  PROVE  FlattenSeq(h) = t
<1> DEFINE n == Len(t)
           Good(k) == Upto(h, k) = SubSeq(t, 1, k)
           Bad == {k \in 0 .. n : ~Good(k)}
<1>1. n \in Nat
  OBVIOUS
<1>2. Good(0)
  <2>1. SubSeq(t, 1, 0) = <<>>
    BY SubSeqEmpty
  <2> QED BY <2>1, UptoEnds
<1>3. ASSUME NEW k \in 1 .. n, Good(k - 1)
      PROVE  Good(k)
  <2>1. SubSeq(t, 1, k) = SubSeq(t, 1, k - 1) \o <<t[k]>>
    <3>1. 1 \in 1 .. Len(t) /\ k \in 1 .. Len(t)
      OBVIOUS
    <3> QED BY <3>1, SubSeqRecursiveSecond
  <2>2. Upto(h, k) = Upto(h, k - 1) \o h[k]
    <3>1. k \in 1 .. Len(h)
      OBVIOUS
    <3> QED BY <3>1, UptoStep
  <2> QED BY <1>3, <2>1, <2>2
<1>4. Bad = {}
  <2> SUFFICES ASSUME Bad # {} PROVE FALSE
    OBVIOUS
  <2>1. PICK k \in Bad : \A y \in Bad : k <= y
    <3>1. Bad \subseteq Nat
      BY <1>1
    <3> HIDE DEF Bad
    <3> QED BY <3>1, Least
  <2> HIDE DEF Good
  <2>2. k # 0
    BY <1>2, <2>1
  <2>3. k \in 1 .. n /\ k - 1 \in 0 .. n /\ ~(k <= k - 1)
    BY <1>1, <2>2
  <2>4. Good(k - 1)
    BY <2>1, <2>3
  <2> QED BY <1>3, <2>1, <2>3, <2>4
<1>5. Good(n)
  <2> HIDE DEF Good
  <2> QED BY <1>1, <1>4
<1> QED BY <1>5, UptoEnds, SubSeqFull

(* Blocks end one behind the other.                                        *)
LEMMA BlocksInOrder ==
  ASSUME NEW S, NEW f \in Seq(Seq(S)), \A k \in 1 .. Len(f) : Len(f[k]) >= 1,
         NEW i \in 0 .. Len(f), NEW j \in 0 .. Len(f), i < j
  PROVE  BlockEnd(f, i) < BlockEnd(f, j) /\ BlockEnd(f, i) \in Nat /\ BlockEnd(f, j) \in Nat
<1> DEFINE Good(k) == BlockEnd(f, k) \in Nat /\ BlockEnd(f, i) \in Nat /\ BlockEnd(f, i) < BlockEnd(f, k)
           Bad == {k \in i + 1 .. j : ~Good(k)}
<1>0. Len(f) \in Nat /\ i \in Nat /\ j \in Nat
  OBVIOUS
<1>1. \A k \in 1 .. Len(f) : /\ BlockEnd(f, k - 1) \in Nat /\ BlockEnd(f, k) \in Nat
                             /\ BlockEnd(f, k) = BlockEnd(f, k - 1) + Len(f[k]) /\ f[k] \in Seq(S)
  BY UptoStep
<1>2. \A k \in 1 .. Len(f) : BlockEnd(f, k - 1) < BlockEnd(f, k)
  <2> SUFFICES ASSUME NEW k \in 1 .. Len(f) PROVE BlockEnd(f, k - 1) < BlockEnd(f, k)
    OBVIOUS
  <2> DEFINE m == Len(f[k])
  <2>1. m \in Nat /\ m >= 1
    BY <1>1
  <2> HIDE DEF m
  <2>2. BlockEnd(f, k) = BlockEnd(f, k - 1) + m
    BY <1>1 DEF m
  <2> QED BY <1>1, <2>1, <2>2
<1>3. Bad = {}
  <2> SUFFICES ASSUME Bad # {} PROVE FALSE
    OBVIOUS
  <2>1. PICK k \in Bad : \A y \in Bad : k <= y
    <3>1. Bad \subseteq Nat
      BY <1>0
    <3> HIDE DEF Bad
    <3> QED BY <3>1, Least
  <2>2. k \in 1 .. Len(f) /\ k \in i + 1 .. j /\ k \in Nat
    BY <1>0
  <2>3. k - 1 = i \/ (k - 1 \in i + 1 .. j /\ ~(k <= k - 1))
    BY <1>0, <2>2
  <2>4. k - 1 = i \/ Good(k - 1)
    BY <2>1, <2>3
  <2>5. BlockEnd(f, i) \in Nat /\ BlockEnd(f, k - 1) \in Nat /\ (k - 1 = i \/ BlockEnd(f, i) < BlockEnd(f, k - 1))
    BY <1>1, <2>2, <2>4
  <2>6. BlockEnd(f, k) \in Nat /\ BlockEnd(f, k - 1) < BlockEnd(f, k)
    BY <1>1, <1>2, <2>2
  <2>7. BlockEnd(f, i) < BlockEnd(f, k)
    <3>1. CASE k - 1 = i
      BY <2>6, <3>1
    <3>2. CASE BlockEnd(f, i) < BlockEnd(f, k - 1)
      BY ONLY <2>5, <2>6, <3>2
    <3> QED BY <2>5, <3>1, <3>2
  <2> QED BY <2>1, <2>5, <2>6, <2>7
<1>4. j \in i + 1 .. j
  BY <1>0
<1> QED BY <1>3, <1>4

(* What is next to a block, where no block is empty.                       *)
Near(f, k, e, p) ==
  /\ p + Len(f[k]) <= Len(e)
  /\ \A j \in 1 .. Len(f[k]) : e[p + j] = f[k][j]
  /\ k = 1 => p = 0
  /\ k > 1 => p >= 1 /\ e[p] = f[k - 1][Len(f[k - 1])]
  /\ k < Len(f) => p + Len(f[k]) < Len(e) /\ e[p + Len(f[k]) + 1] = f[k + 1][1]
  /\ k = Len(f) => p + Len(f[k]) = Len(e)

LEMMA Neighbours ==
  ASSUME NEW S, NEW f \in Seq(Seq(S)), \A k \in 1 .. Len(f) : Len(f[k]) >= 1,
         NEW k \in 1 .. Len(f), NEW e, e = FlattenSeq(f), NEW p, p = BlockEnd(f, k - 1)
  PROVE  /\ p \in Nat /\ Len(f[k]) \in Nat /\ BlockEnd(f, k) = p + Len(f[k])
         /\ Near(f, k, e, p)
<1>1. e \in Seq(S) /\ Len(e) \in Nat
  BY FlattenType, LenProperties
<1>2. \A i \in 1 .. Len(f) :
        /\ BlockEnd(f, i - 1) \in Nat /\ f[i] \in Seq(S)
        /\ BlockEnd(f, i) = BlockEnd(f, i - 1) + Len(f[i])
        /\ BlockEnd(f, i) <= Len(e)
        /\ \A j \in 1 .. Len(f[i]) : e[BlockEnd(f, i - 1) + j] = f[i][j]
  BY UptoStep, Block
<1>3. \A i \in 1 .. Len(f) : Len(f[i]) \in Nat /\ Len(f[i]) >= 1
  BY <1>2, LenProperties
<1> DEFINE m == Len(f[k])
<1>4. /\ p \in Nat /\ BlockEnd(f, k) = p + m /\ p + m <= Len(e) /\ m \in Nat /\ m >= 1
      /\ \A j \in 1 .. m : e[p + j] = f[k][j]
  BY <1>2, <1>3
<1>5. k = 1 => p = 0
  BY UptoEnds
<1>6. ASSUME k > 1 PROVE p >= 1 /\ e[p] = f[k - 1][Len(f[k - 1])]
  <2> DEFINE l == Len(f[k - 1])
             q == BlockEnd(f, (k - 1) - 1)
  <2>1. k - 1 \in 1 .. Len(f)
    BY <1>6
  <2>2. q \in Nat /\ p = q + l /\ l \in Nat /\ l >= 1 /\ \A j \in 1 .. l : e[q + j] = f[k - 1][j]
    BY <1>2, <1>3, <2>1
  <2> HIDE DEF l, q
  <2>3. l \in 1 .. l /\ p >= 1
    BY <2>2
  <2> QED BY <2>2, <2>3 DEF l
<1>7. ASSUME k < Len(f) PROVE p + m < Len(e) /\ e[p + m + 1] = f[k + 1][1]
  <2> DEFINE l == Len(f[k + 1])
  <2>1. k + 1 \in 1 .. Len(f) /\ (k + 1) - 1 = k
    BY <1>7
  <2>2. /\ BlockEnd(f, k + 1) = (p + m) + l /\ BlockEnd(f, k + 1) <= Len(e) /\ l \in Nat /\ l >= 1
        /\ \A j \in 1 .. l : e[(p + m) + j] = f[k + 1][j]
    BY <1>2, <1>3, <1>4, <2>1
  <2> HIDE DEF l, m
  <2>3. 1 \in 1 .. l /\ p + m < Len(e)
    BY <1>1, <1>4, <2>2
  <2> QED BY <2>2, <2>3
<1>8. ASSUME k = Len(f) PROVE p + m = Len(e)
  BY <1>4, <1>8, UptoEnds DEF BlockEnd
<1> QED BY <1>1, <1>4, <1>5, <1>6, <1>7, <1>8 DEF Near

(* What follows a block is made of the blocks that follow it.              *)
LEMMA BlocksBehind ==
  ASSUME NEW S, NEW f \in Seq(Seq(S)), NEW k \in 0 .. Len(f), NEW e, e = FlattenSeq(f)
  PROVE  SubSeq(e, BlockEnd(f, k) + 1, Len(e)) = FlattenSeq(SubSeq(f, k + 1, Len(f)))
<1> DEFINE a == SubSeq(f, 1, k)
           b == SubSeq(f, k + 1, Len(f))
<1>1. a \in Seq(Seq(S)) /\ b \in Seq(Seq(S))
  OBVIOUS
<1>2. f = a \o b
  <2>1. Len(f) \in Nat /\ k \in Int /\ 1 \in 1 .. Len(f) + 1 /\ k \in 1 - 1 .. Len(f) /\ Len(f) \in k .. Len(f)
    OBVIOUS
  <2>2. SubSeq(f, 1, k) \o SubSeq(f, k + 1, Len(f)) = SubSeq(f, 1, Len(f))
    BY <2>1, ConcatAdjacentSubSeq
  <2> QED BY <2>2, SubSeqFull
<1> DEFINE x == FlattenSeq(a)
           y == FlattenSeq(b)
<1>3. x \in Seq(S) /\ y \in Seq(S) /\ e = x \o y
  <2>1. FlattenSeq(a \o b) = FlattenSeq(a) \o FlattenSeq(b)
    <3> HIDE DEF a, b
    <3> QED BY <1>1, FlattenConcat
  <2>2. FlattenSeq(a) \in Seq(S) /\ FlattenSeq(b) \in Seq(S)
    <3> HIDE DEF a, b
    <3> QED BY <1>1, FlattenType
  <2> HIDE DEF a, b
  <2> QED BY <1>2, <2>1, <2>2
<1>4. BlockEnd(f, k) = Len(x)
  BY DEF BlockEnd, Upto
<1> HIDE DEF x, y, a, b
<1>5. SubSeq(x \o y, Len(x) + 1, Len(x \o y)) = y
  <2>1. /\ x \o y \in Seq(S) /\ Len(x \o y) = Len(x) + Len(y) /\ Len(x) \in Nat /\ Len(y) \in Nat
        /\ \A i \in 1 .. Len(x) + Len(y) : (x \o y)[i] = IF i <= Len(x) THEN x[i] ELSE y[i - Len(x)]
    BY ONLY <1>3, ConcatProperties, LenProperties
  <2> DEFINE z == x \o y
  <2> HIDE DEF z
  <2>2. /\ SubSeq(z, Len(x) + 1, Len(z)) \in Seq(S)
        /\ Len(SubSeq(z, Len(x) + 1, Len(z))) = IF Len(x) + 1 <= Len(z) THEN Len(z) - (Len(x) + 1) + 1 ELSE 0
        /\ \A i \in 1 .. Len(z) - (Len(x) + 1) + 1 : SubSeq(z, Len(x) + 1, Len(z))[i] = z[Len(x) + 1 + i - 1]
    <3>1. Len(x) + 1 \in Int /\ Len(z) \in Int /\ \A i \in Len(x) + 1 .. Len(z) : z[i] \in S
      BY <2>1 DEF z
    <3> QED BY ONLY <3>1, SubSeqProperties
  <2>3. Len(SubSeq(z, Len(x) + 1, Len(z))) = Len(y)
    BY ONLY <2>1, <2>2 DEF z
  <2>4. \A i \in 1 .. Len(y) : SubSeq(z, Len(x) + 1, Len(z))[i] = y[i]
    <3> SUFFICES ASSUME NEW i \in 1 .. Len(y) PROVE SubSeq(z, Len(x) + 1, Len(z))[i] = y[i]
      OBVIOUS
    <3>1. /\ i \in 1 .. Len(z) - (Len(x) + 1) + 1 /\ Len(x) + 1 + i - 1 = Len(x) + i
          /\ Len(x) + i \in 1 .. Len(x) + Len(y) /\ ~(Len(x) + i <= Len(x)) /\ (Len(x) + i) - Len(x) = i
      BY <2>1 DEF z
    <3>2. SubSeq(z, Len(x) + 1, Len(z))[i] = z[Len(x) + i]
      BY ONLY <2>2, <3>1
    <3>3. z[Len(x) + i] = y[i]
      BY ONLY <2>1, <3>1 DEF z
    <3> QED BY <3>2, <3>3
  <2> QED BY ONLY <1>3, <2>2, <2>3, <2>4, SeqEqual DEF z
<1> QED BY <1>3, <1>4, <1>5 DEF y, b

(* A map that keeps the order and reaches everything keeps the rank too,   *)
(* and no two elements have the same rank.                                 *)
LEMMA SameRank ==
  ASSUME NEW A, A \subseteq Nat, IsFiniteSet(A), NEW B, B \subseteq Nat, NEW h \in [A -> B],
         \A i, j \in A : i < j => h[i] < h[j],
         \A b \in B : \E a \in A : h[a] = b
  PROVE  /\ Cardinality(B) = Cardinality(A)
         /\ \A k \in A : Cardinality({j \in B : j < h[k]}) = Cardinality({i \in A : i < k})
         /\ \A b \in B, k \in A :
              Cardinality({j \in B : j < b}) = Cardinality({i \in A : i < k}) => b = h[k]
<1>1. \A i, j \in A : (h[i] = h[j] => i = j) /\ (h[i] < h[j] => i < j)
  <2> SUFFICES ASSUME NEW i \in A, NEW j \in A
               PROVE  (h[i] = h[j] => i = j) /\ (h[i] < h[j] => i < j)
    OBVIOUS
  <2>1. i \in Nat /\ j \in Nat /\ h[i] \in Nat /\ h[j] \in Nat
    OBVIOUS
  <2>2. (i < j => h[i] < h[j]) /\ (j < i => h[j] < h[i])
    OBVIOUS
  <2> QED BY <2>1, <2>2
<1>2. Cardinality(B) = Cardinality(A) /\ IsFiniteSet(B)
  <2>1. h \in Bijection(A, B)
    BY <1>1, Fun_IsBij
  <2>2. ExistsBijection(A, B)
    BY <2>1 DEF ExistsBijection
  <2> QED BY <2>2, FS_Bijection
<1>3. ASSUME NEW k \in A
      PROVE  Cardinality({j \in B : j < h[k]}) = Cardinality({i \in A : i < k})
  <2> DEFINE X == {i \in A : i < k}
             Y == {j \in B : j < h[k]}
             g == [i \in X |-> h[i]]
  <2>1. X \in SUBSET A /\ IsFiniteSet(X)
    <3>1. X \in SUBSET A
      OBVIOUS
    <3> HIDE DEF X
    <3> QED BY <3>1, FS_Subset
  <2>2. g \in [X -> Y]
    OBVIOUS
  <2>3. \A i, j \in X : g[i] = g[j] => i = j
    BY <1>1
  <2>4. \A y \in Y : \E i \in X : g[i] = y
    <3> SUFFICES ASSUME NEW y \in Y PROVE \E i \in X : g[i] = y
      OBVIOUS
    <3>1. PICK a \in A : h[a] = y
      OBVIOUS
    <3>2. a < k
      BY <1>1, <3>1
    <3> QED BY <3>1, <3>2
  <2> HIDE DEF X, Y, g
  <2>5. g \in Bijection(X, Y)
    BY <2>2, <2>3, <2>4, Fun_IsBij
  <2>6. ExistsBijection(X, Y)
    BY <2>5 DEF ExistsBijection
  <2>7. Cardinality(Y) = Cardinality(X)
    BY <2>1, <2>6, FS_Bijection
  <2> QED BY <2>7 DEF X, Y
<1>4. ASSUME NEW i \in A, NEW k \in A, i < k
      PROVE  Cardinality({j \in A : j < i}) # Cardinality({j \in A : j < k})
  <2> DEFINE X == {j \in A : j < i}
             Y == {j \in A : j < k}
  <2>1. X \in SUBSET Y /\ Y \in SUBSET A /\ i \in Y /\ i \notin X
    <3>1. \A j \in A : j < i => j < k
      <4> SUFFICES ASSUME NEW j \in A, j < i PROVE j < k
        OBVIOUS
      <4>1. i \in Nat /\ j \in Nat /\ k \in Nat
        OBVIOUS
      <4> QED BY <1>4, <4>1
    <3>2. i \in Nat /\ ~(i < i)
      OBVIOUS
    <3> QED BY <1>4, <3>1, <3>2
  <2> HIDE DEF X, Y
  <2>2. IsFiniteSet(Y)
    BY <2>1, FS_Subset
  <2>3. Cardinality(Y) = Cardinality(X) => Y = X
    BY <2>1, <2>2, FS_Subset
  <2>4. Cardinality(X) # Cardinality(Y)
    BY <2>1, <2>3
  <2> QED BY <2>4 DEF X, Y
<1>5. ASSUME NEW b \in B, NEW k \in A,
             Cardinality({j \in B : j < b}) = Cardinality({i \in A : i < k})
      PROVE  b = h[k]
  <2>1. PICK a \in A : h[a] = b
    OBVIOUS
  <2>2. Cardinality({j \in B : j < b}) = Cardinality({i \in A : i < a})
    BY <1>3, <2>1
  <2>3. ~(a < k) /\ ~(k < a)
    BY <1>4, <1>5, <2>2
  <2>4. a = k
    BY <2>3
  <2> QED BY <2>1, <2>4
<1> QED BY <1>2, <1>3, <1>5

-----------------------------------------------------------------------------
(* What becomes of each character of a text: with its mark, then escaped,  *)
(* then again without its mark.                                            *)

(* A dot at the start of a line that is not the first.                     *)
Fresh(t, k) == t[k] = Dot /\ k > 1 /\ t[k - 1] = NL

MarkedBlocks(t) ==
  [k \in DOMAIN t |-> IF EndsSentence(t, k) THEN <<Dot, MarkTag>> ELSE <<Entity(t[k])>>]

SentBlocks(t) ==
  [k \in DOMAIN t |-> IF EndsSentence(t, k)
                      THEN IF Fresh(t, k) THEN <<Dot, Dot, MarkTag>> ELSE <<Dot, MarkTag>>
                      ELSE IF Fresh(t, k) THEN <<Dot, Dot>> ELSE <<Entity(t[k])>>]

PlainBlocks(t) ==
  [k \in DOMAIN t |-> IF Fresh(t, k) THEN <<Dot, Dot>> ELSE <<Entity(t[k])>>]

Entities(t) == [k \in DOMAIN t |-> Entity(t[k])]

LEMMA MarkedBlocksAre ==
  ASSUME NEW S, NEW t \in Seq(S), {Dot, MarkTag, LessEntity} \subseteq S, NEW f, f = MarkedBlocks(t)
  PROVE  /\ f \in Seq(Seq(S)) /\ Len(f) = Len(t)
         /\ \A k \in 1 .. Len(t) :
              /\ Len(f[k]) >= 1
              /\ EndsSentence(t, k) => Len(f[k]) = 2 /\ f[k][1] = Dot /\ f[k][2] = MarkTag
              /\ ~EndsSentence(t, k) => Len(f[k]) = 1 /\ f[k][1] = Entity(t[k])
<1>1. f = [k \in DOMAIN t |-> f[k]] /\ DOMAIN t = 1 .. Len(t)
  BY DEF MarkedBlocks
<1>2. \A k \in 1 .. Len(t) : f[k] = IF EndsSentence(t, k) THEN <<Dot, MarkTag>> ELSE <<Entity(t[k])>>
  BY <1>1 DEF MarkedBlocks
<1>3. \A k \in 1 .. Len(t) : Entity(t[k]) \in S
  BY DEF Entity
<1>4. \A k \in 1 .. Len(t) : f[k] \in Seq(S)
  <2>1. \A k \in 1 .. Len(t) : <<Entity(t[k])>> \in Seq(S) /\ <<Dot, MarkTag>> \in Seq(S)
    BY <1>3
  <2> QED BY <1>2, <2>1, Zenon
<1>5. f \in Seq(Seq(S)) /\ Len(f) = Len(t)
  BY <1>1, <1>4, ExpandType
<1>6. ASSUME NEW k \in 1 .. Len(t)
      PROVE  /\ Len(f[k]) >= 1
             /\ EndsSentence(t, k) => Len(f[k]) = 2 /\ f[k][1] = Dot /\ f[k][2] = MarkTag
             /\ ~EndsSentence(t, k) => Len(f[k]) = 1 /\ f[k][1] = Entity(t[k])
  <2>1. CASE EndsSentence(t, k)
    <3>1. f[k] = <<Dot, MarkTag>>
      BY <1>2, <2>1
    <3> QED BY ONLY <2>1, <3>1
  <2>2. CASE ~EndsSentence(t, k)
    <3>1. f[k] = <<Entity(t[k])>>
      BY <1>2, <2>2
    <3> QED BY ONLY <2>2, <3>1
  <2> QED BY <2>1, <2>2
<1> QED BY <1>5, <1>6

SentAre(t, f) ==
  \A k \in 1 .. Len(t) :
    /\ Len(f[k]) >= 1
    /\ EndsSentence(t, k) /\ Fresh(t, k) =>
         /\ f[k] = <<Dot, Dot, MarkTag>>
         /\ Len(f[k]) = 3 /\ f[k][1] = Dot /\ f[k][2] = Dot /\ f[k][3] = MarkTag
    /\ EndsSentence(t, k) /\ ~Fresh(t, k) =>
         f[k] = <<Dot, MarkTag>> /\ Len(f[k]) = 2 /\ f[k][1] = Dot /\ f[k][2] = MarkTag
    /\ ~EndsSentence(t, k) /\ Fresh(t, k) =>
         f[k] = <<Dot, Dot>> /\ Len(f[k]) = 2 /\ f[k][1] = Dot /\ f[k][2] = Dot
    /\ ~EndsSentence(t, k) /\ ~Fresh(t, k) =>
         f[k] = <<Entity(t[k])>> /\ Len(f[k]) = 1 /\ f[k][1] = Entity(t[k])

LEMMA SentBlocksAre ==
  ASSUME NEW S, NEW t \in Seq(S), {Dot, MarkTag, LessEntity} \subseteq S, NEW f, f = SentBlocks(t)
  PROVE  /\ f \in Seq(Seq(S)) /\ Len(f) = Len(t)
         /\ SentAre(t, f)
<1>1. f = [k \in DOMAIN t |-> f[k]] /\ DOMAIN t = 1 .. Len(t)
  BY DEF SentBlocks
<1>2. \A k \in 1 .. Len(t) :
        f[k] = IF EndsSentence(t, k)
               THEN IF Fresh(t, k) THEN <<Dot, Dot, MarkTag>> ELSE <<Dot, MarkTag>>
               ELSE IF Fresh(t, k) THEN <<Dot, Dot>> ELSE <<Entity(t[k])>>
  BY <1>1 DEF SentBlocks
<1>3. \A k \in 1 .. Len(t) : Entity(t[k]) \in S
  BY DEF Entity
<1>4. \A k \in 1 .. Len(t) : f[k] \in Seq(S)
  <2>1. \A k \in 1 .. Len(t) : /\ <<Entity(t[k])>> \in Seq(S) /\ <<Dot, MarkTag>> \in Seq(S)
                               /\ <<Dot, Dot>> \in Seq(S) /\ <<Dot, Dot, MarkTag>> \in Seq(S)
    BY <1>3
  <2> QED BY <1>2, <2>1, Zenon
<1>5. f \in Seq(Seq(S)) /\ Len(f) = Len(t)
  BY <1>1, <1>4, ExpandType
<1>6. ASSUME NEW k \in 1 .. Len(t)
      PROVE  /\ Len(f[k]) >= 1
             /\ EndsSentence(t, k) /\ Fresh(t, k) =>
                  /\ f[k] = <<Dot, Dot, MarkTag>>
                  /\ Len(f[k]) = 3 /\ f[k][1] = Dot /\ f[k][2] = Dot /\ f[k][3] = MarkTag
             /\ EndsSentence(t, k) /\ ~Fresh(t, k) =>
                  f[k] = <<Dot, MarkTag>> /\ Len(f[k]) = 2 /\ f[k][1] = Dot /\ f[k][2] = MarkTag
             /\ ~EndsSentence(t, k) /\ Fresh(t, k) =>
                  f[k] = <<Dot, Dot>> /\ Len(f[k]) = 2 /\ f[k][1] = Dot /\ f[k][2] = Dot
             /\ ~EndsSentence(t, k) /\ ~Fresh(t, k) =>
                  f[k] = <<Entity(t[k])>> /\ Len(f[k]) = 1 /\ f[k][1] = Entity(t[k])
  <2>1. CASE EndsSentence(t, k) /\ Fresh(t, k)
    <3>1. f[k] = <<Dot, Dot, MarkTag>>
      BY <1>2, <2>1
    <3> QED BY ONLY <2>1, <3>1
  <2>2. CASE EndsSentence(t, k) /\ ~Fresh(t, k)
    <3>1. f[k] = <<Dot, MarkTag>>
      BY <1>2, <2>2
    <3> QED BY ONLY <2>2, <3>1
  <2>3. CASE ~EndsSentence(t, k) /\ Fresh(t, k)
    <3>1. f[k] = <<Dot, Dot>>
      BY <1>2, <2>3
    <3> QED BY ONLY <2>3, <3>1
  <2>4. CASE ~EndsSentence(t, k) /\ ~Fresh(t, k)
    <3>1. f[k] = <<Entity(t[k])>>
      BY <1>2, <2>4
    <3> QED BY ONLY <2>4, <3>1
  <2> QED BY <2>1, <2>2, <2>3, <2>4
<1>7. SentAre(t, f)
  BY ONLY <1>6, Zenon DEF SentAre
<1> QED BY <1>5, <1>7

PlainAre(t, f) ==
  \A k \in 1 .. Len(t) :
    /\ Len(f[k]) >= 1
    /\ Fresh(t, k) => f[k] = <<Dot, Dot>> /\ Len(f[k]) = 2 /\ f[k][1] = Dot /\ f[k][2] = Dot
    /\ ~Fresh(t, k) => f[k] = <<Entity(t[k])>> /\ Len(f[k]) = 1 /\ f[k][1] = Entity(t[k])

LEMMA PlainBlocksAre ==
  ASSUME NEW S, NEW t \in Seq(S), {Dot, LessEntity} \subseteq S, NEW f, f = PlainBlocks(t)
  PROVE  f \in Seq(Seq(S)) /\ Len(f) = Len(t) /\ PlainAre(t, f)
<1>1. f = [k \in DOMAIN t |-> f[k]] /\ DOMAIN t = 1 .. Len(t)
  BY DEF PlainBlocks
<1>2. \A k \in 1 .. Len(t) : f[k] = IF Fresh(t, k) THEN <<Dot, Dot>> ELSE <<Entity(t[k])>>
  BY <1>1 DEF PlainBlocks
<1>3. \A k \in 1 .. Len(t) : Entity(t[k]) \in S
  BY DEF Entity
<1>4. \A k \in 1 .. Len(t) : f[k] \in Seq(S)
  <2>1. \A k \in 1 .. Len(t) : <<Entity(t[k])>> \in Seq(S) /\ <<Dot, Dot>> \in Seq(S)
    BY <1>3
  <2> QED BY <1>2, <2>1, Zenon
<1>5. f \in Seq(Seq(S)) /\ Len(f) = Len(t)
  BY <1>1, <1>4, ExpandType
<1>6. ASSUME NEW k \in 1 .. Len(t)
      PROVE  /\ Len(f[k]) >= 1
             /\ Fresh(t, k) => f[k] = <<Dot, Dot>> /\ Len(f[k]) = 2 /\ f[k][1] = Dot /\ f[k][2] = Dot
             /\ ~Fresh(t, k) => f[k] = <<Entity(t[k])>> /\ Len(f[k]) = 1 /\ f[k][1] = Entity(t[k])
  <2>1. CASE Fresh(t, k)
    <3>1. f[k] = <<Dot, Dot>>
      BY <1>2, <2>1
    <3> QED BY ONLY <2>1, <3>1
  <2>2. CASE ~Fresh(t, k)
    <3>1. f[k] = <<Entity(t[k])>>
      BY <1>2, <2>2
    <3> QED BY ONLY <2>2, <3>1
  <2> QED BY <2>1, <2>2
<1>7. PlainAre(t, f)
  BY ONLY <1>6, Zenon DEF PlainAre
<1> QED BY <1>5, <1>7

LEMMA EntitiesAre ==
  ASSUME NEW S, NEW t \in Seq(S), LessEntity \in S
  PROVE  /\ Entities(t) \in Seq(S) /\ Len(Entities(t)) = Len(t)
         /\ \A k \in 1 .. Len(t) : Entities(t)[k] = Entity(t[k])
<1>1. \A k \in 1 .. Len(t) : Entity(t[k]) \in S
  BY DEF Entity
<1>2. DOMAIN t = 1 .. Len(t) /\ Len(t) \in Nat
  OBVIOUS
<1>3. Entities(t) = [k \in 1 .. Len(t) |-> Entity(t[k])]
  BY <1>2 DEF Entities
<1>4. Entities(t) \in [1 .. Len(t) -> S]
  BY <1>1, <1>3
<1> QED BY <1>2, <1>3, <1>4

(* A text with a tag before it and one behind it.                          *)
LEMMA Tagged ==
  ASSUME NEW S, NEW b, b \in Seq(S), {SpeakTag, EndTag} \subseteq S,
         NEW t, t = <<SpeakTag>> \o b \o <<EndTag>>
  PROVE  /\ t \in Seq(S) /\ Len(b) \in Nat /\ Len(t) = Len(b) + 2
         /\ t[1] = SpeakTag /\ t[Len(b) + 2] = EndTag
         /\ \A k \in 1 .. Len(b) : t[k + 1] = b[k]
<1> DEFINE x == <<SpeakTag>>
           z == <<EndTag>>
           n == Len(b)
<1>0. n \in Nat
  OBVIOUS
<1>1. /\ x \in Seq(S) /\ Len(x) = 1 /\ x[1] = SpeakTag
      /\ z \in Seq(S) /\ Len(z) = 1 /\ z[1] = EndTag
  OBVIOUS
<1> DEFINE y == x \o b
<1> HIDE DEF x, z
<1>2. y \in Seq(S) /\ Len(y) = 1 + n /\ \A i \in 1 .. 1 + n : y[i] = IF i <= 1 THEN x[i] ELSE b[i - 1]
  <2>1. /\ x \o b \in Seq(S) /\ Len(x \o b) = Len(x) + Len(b)
        /\ \A i \in 1 .. Len(x) + Len(b) : (x \o b)[i] = IF i <= Len(x) THEN x[i] ELSE b[i - Len(x)]
    BY ONLY <1>1, b \in Seq(S), ConcatProperties
  <2> QED BY ONLY <1>1, <2>1
<1>3. t = y \o z
  BY DEF x, z
<1> HIDE DEF y
<1>4. /\ y \o z \in Seq(S) /\ Len(y \o z) = Len(y) + Len(z)
      /\ \A i \in 1 .. Len(y) + Len(z) : (y \o z)[i] = IF i <= Len(y) THEN y[i] ELSE z[i - Len(y)]
  BY ONLY <1>1, <1>2, ConcatProperties
<1>5. t \in Seq(S) /\ Len(t) = n + 2 /\ \A i \in 1 .. n + 2 : t[i] = IF i <= 1 + n THEN y[i] ELSE z[i - (1 + n)]
  BY ONLY <1>0, <1>1, <1>2, <1>3, <1>4
<1> HIDE DEF n
<1>6. t[1] = SpeakTag /\ t[n + 2] = EndTag
  BY ONLY <1>0, <1>1, <1>2, <1>5
<1>7. ASSUME NEW k \in 1 .. n PROVE t[k + 1] = b[k]
  <2>1. k + 1 \in 1 .. n + 2 /\ k + 1 <= 1 + n /\ k + 1 \in 1 .. 1 + n /\ ~(k + 1 <= 1) /\ (k + 1) - 1 = k
    BY ONLY <1>0, k \in 1 .. n
  <2> QED BY ONLY <1>2, <1>5, <2>1
<1> QED BY <1>0, <1>5, <1>6, <1>7 DEF n

(* The marks are put in by characters, the tags around like characters.    *)
LEMMA MarkedIs ==
  ASSUME NEW S, NEW b \in Seq(S), {Dot, MarkTag, LessEntity, SpeakTag, EndTag} \subseteq S,
         NEW t, t = <<SpeakTag>> \o b \o <<EndTag>>
  PROVE  Marked(b) = FlattenSeq(MarkedBlocks(t))
<1> DEFINE f == [i \in DOMAIN b |-> IF EndsSentence(b, i) THEN <<Dot, MarkTag>> ELSE <<Entity(b[i])>>]
           x == <<SpeakTag>>
           z == <<EndTag>>
           c == MarkedBlocks(t)
           n == Len(b)
<1>0. n \in Nat /\ DOMAIN b = 1 .. n
  OBVIOUS
<1>1. Marked(b) = (x \o FlattenSeq(f)) \o z
  BY Zenon DEF Marked, Expand
<1>2. f = MarkedBlocks(b)
  BY DEF MarkedBlocks
<1>3. f \in Seq(Seq(S)) /\ Len(f) = n
  <2> HIDE DEF f
  <2> QED BY <1>2, MarkedBlocksAre
<1>4. /\ t \in Seq(S) /\ Len(t) = n + 2 /\ t[1] = SpeakTag /\ t[n + 2] = EndTag
      /\ \A k \in 1 .. n : t[k + 1] = b[k]
  <2>1. {SpeakTag, EndTag} \subseteq S
    OBVIOUS
  <2> QED BY ONLY <2>1, b \in Seq(S), t = <<SpeakTag>> \o b \o <<EndTag>>, Tagged
<1>5. c \in Seq(Seq(S)) /\ Len(c) = n + 2
      /\ \A k \in 1 .. n + 2 : c[k] = IF EndsSentence(t, k) THEN <<Dot, MarkTag>> ELSE <<Entity(t[k])>>
  <2>1. c \in Seq(Seq(S)) /\ Len(c) = Len(t)
    <3>1. c = MarkedBlocks(t) /\ {Dot, MarkTag, LessEntity} \subseteq S /\ t \in Seq(S)
      BY <1>4
    <3> HIDE DEF c, f
    <3> QED BY ONLY <3>1, MarkedBlocksAre
  <2>2. DOMAIN t = 1 .. n + 2
    BY <1>4
  <2> QED BY <1>4, <2>1, <2>2 DEF MarkedBlocks
<1>6. c[1] = x /\ c[n + 2] = z /\ \A k \in 1 .. n : c[k + 1] = f[k]
  <2>1. 1 \in 1 .. n + 2 /\ n + 2 \in 1 .. n + 2
    BY <1>0
  <2>2. ~EndsSentence(t, 1) /\ ~EndsSentence(t, n + 2)
    BY <1>4 DEF EndsSentence, Dot, SpeakTag, EndTag
  <2>3. Entity(SpeakTag) = SpeakTag /\ Entity(EndTag) = EndTag
    BY DEF Entity, Less, SpeakTag, EndTag
  <2>4. c[1] = x /\ c[n + 2] = z
    BY <1>4, <1>5, <2>1, <2>2, <2>3
  <2>5. ASSUME NEW k \in 1 .. n PROVE c[k + 1] = f[k]
    <3>1. k + 1 \in 1 .. n + 2 /\ t[k + 1] = b[k] /\ k \in DOMAIN b
      BY <1>0, <1>4
    <3>2. EndsSentence(t, k + 1) <=> EndsSentence(b, k)
      <4>1. CASE k < n
        <5>1. k + 1 \in 1 .. n /\ t[(k + 1) + 1] = b[k + 1] /\ k + 1 < Len(t) /\ k < Len(b)
          BY <1>0, <1>4, <4>1
        <5> QED BY ONLY <3>1, <5>1, Zenon DEF EndsSentence
      <4>2. CASE k = n
        <5>1. t[(k + 1) + 1] = EndTag /\ ~(k < Len(b))
          <6>1. (k + 1) + 1 = n + 2
            BY <1>0, <4>2
          <6> QED BY <1>0, <1>4, <4>2, <6>1
        <5>2. ~Space(EndTag) /\ EndTag # Less
          BY DEF Space, EndTag, NL, CR, Less
        <5> QED BY <5>1, <5>2 DEF EndsSentence
      <4>3. k < n \/ k = n
        <5> HIDE DEF n
        <5> QED BY ONLY <1>0, k \in 1 .. n
      <4> QED BY ONLY <4>1, <4>2, <4>3
    <3> QED BY <1>5, <3>1, <3>2
  <2> QED BY <2>4, <2>5
<1>7. c = (<<x>> \o f) \o <<z>>
  <2> DEFINE R == Seq(S)
             X == <<x>>
             Z == <<z>>
             y == X \o f
  <2>1. /\ X \in Seq(R) /\ Len(X) = 1 /\ X[1] = x
        /\ Z \in Seq(R) /\ Len(Z) = 1 /\ Z[1] = z
        /\ f \in Seq(R) /\ c \in Seq(R)
    <3>1. f \in Seq(R) /\ c \in Seq(R)
      BY <1>3, <1>5
    <3>2. x \in R /\ z \in R
      OBVIOUS
    <3> HIDE DEF R, x, z, f, c
    <3> QED BY <3>1, <3>2
  <2> HIDE DEF X, Z, R, c, f, x, z
  <2>2. y \in Seq(R) /\ Len(y) = 1 + n /\ \A i \in 1 .. 1 + n : y[i] = IF i <= 1 THEN X[i] ELSE f[i - 1]
    <3>1. /\ X \o f \in Seq(R) /\ Len(X \o f) = Len(X) + Len(f)
          /\ \A i \in 1 .. Len(X) + Len(f) : (X \o f)[i] = IF i <= Len(X) THEN X[i] ELSE f[i - Len(X)]
      BY ONLY <2>1, ConcatProperties
    <3> QED BY ONLY <1>3, <2>1, <3>1
  <2> HIDE DEF y, n
  <2>3. /\ y \o Z \in Seq(R) /\ Len(y \o Z) = Len(y) + Len(Z)
        /\ \A i \in 1 .. Len(y) + Len(Z) : (y \o Z)[i] = IF i <= Len(y) THEN y[i] ELSE Z[i - Len(y)]
    BY ONLY <2>1, <2>2, ConcatProperties
  <2>4. /\ Len(y \o Z) = n + 2
        /\ \A i \in 1 .. n + 2 : (y \o Z)[i] = IF i <= 1 + n THEN y[i] ELSE Z[i - (1 + n)]
    BY ONLY <1>0, <2>1, <2>2, <2>3
  <2>5. ASSUME NEW i \in 1 .. n + 2 PROVE c[i] = (y \o Z)[i]
    <3>1. CASE i = 1
      <4>1. 1 <= 1 + n /\ 1 <= 1 /\ 1 \in 1 .. 1 + n /\ 1 \in 1 .. n + 2
        BY ONLY <1>0
      <4> QED BY ONLY <1>6, <2>1, <2>2, <2>4, <3>1, <4>1
    <3>2. CASE i = n + 2
      <4>1. ~(n + 2 <= 1 + n) /\ (n + 2) - (1 + n) = 1 /\ n + 2 \in 1 .. n + 2
        BY ONLY <1>0
      <4> QED BY ONLY <1>6, <2>1, <2>4, <3>2, <4>1
    <3>3. CASE i # 1 /\ i # n + 2
      <4>1. i - 1 \in 1 .. n /\ (i - 1) + 1 = i /\ i <= 1 + n /\ ~(i <= 1) /\ i \in 1 .. 1 + n
        BY ONLY <1>0, <3>3, i \in 1 .. n + 2
      <4>2. c[(i - 1) + 1] = f[i - 1]
        BY ONLY <1>6, <4>1
      <4> QED BY ONLY <2>2, <2>4, <4>1, <4>2, i \in 1 .. n + 2
    <3> QED BY <3>1, <3>2, <3>3
  <2>6. c = y \o Z
    BY ONLY <1>5, <2>1, <2>3, <2>4, <2>5, SeqEqual
  <2> QED BY <2>6 DEF y, X, Z
<1>8. FlattenSeq(<<x>>) = x /\ FlattenSeq(<<z>>) = z
  <2>1. \A w \in Seq(S) : FlattenSeq(<<w>>) = w
    <3> SUFFICES ASSUME NEW w \in Seq(S) PROVE FlattenSeq(<<w>>) = w
      OBVIOUS
    <3>1. <<>> \in Seq(Seq(S)) /\ Append(<<>>, w) = <<w>>
      OBVIOUS
    <3>2. FlattenSeq(Append(<<>>, w)) = FlattenSeq(<<>>) \o w
      BY <3>1, FlattenAppend
    <3>3. <<>> \o w = w
      BY ConcatEmptySeq
    <3> QED BY <3>1, <3>2, <3>3, FlattenNone
  <2>2. x \in Seq(S) /\ z \in Seq(S)
    OBVIOUS
  <2> QED BY <2>1, <2>2
<1>9. FlattenSeq(c) = (FlattenSeq(<<x>>) \o FlattenSeq(f)) \o FlattenSeq(<<z>>)
  <2> DEFINE X == <<x>>
             Z == <<z>>
             y == X \o f
  <2>1. X \in Seq(Seq(S)) /\ Z \in Seq(Seq(S)) /\ f \in Seq(Seq(S))
    BY <1>3
  <2> HIDE DEF X, Z, f
  <2>2. y \in Seq(Seq(S))
    <3> DEFINE R == Seq(S)
    <3>1. X \in Seq(R) /\ f \in Seq(R)
      BY <2>1
    <3> HIDE DEF R
    <3>2. X \o f \in Seq(R)
      BY ONLY <3>1
    <3> QED BY <3>2 DEF R
  <2>3. FlattenSeq(y) = FlattenSeq(X) \o FlattenSeq(f)
    BY <2>1, FlattenConcat
  <2> HIDE DEF y
  <2>4. FlattenSeq(y \o Z) = FlattenSeq(y) \o FlattenSeq(Z)
    BY <2>1, <2>2, FlattenConcat
  <2>5. c = y \o Z
    BY <1>7 DEF y, X, Z
  <2> QED BY <2>3, <2>4, <2>5 DEF X, Z
<1> QED BY <1>1, <1>8, <1>9

LEMMA Joined ==
  ASSUME NEW a, NEW b, NEW c
  PROVE  /\ <<a>> \o <<b>> = <<a, b>> /\ <<a, b>> \o <<c>> = <<a, b, c>>
         /\ <<a, b>> \o <<>> = <<a, b>> /\ <<a>> \o <<>> = <<a>>
<1> DEFINE S == {a, b, c}
           x == <<a>>
           y == <<b>>
           w == <<a, b>>
           z == <<c>>
           v == <<a, b, c>>
<1>1. /\ x \in Seq(S) /\ y \in Seq(S) /\ z \in Seq(S) /\ w \in Seq(S) /\ v \in Seq(S)
      /\ Len(x) = 1 /\ Len(y) = 1 /\ Len(z) = 1 /\ Len(w) = 2 /\ Len(v) = 3
      /\ x[1] = a /\ y[1] = b /\ z[1] = c /\ w[1] = a /\ w[2] = b
      /\ v[1] = a /\ v[2] = b /\ v[3] = c
  OBVIOUS
<1> HIDE DEF S, x, y, z, w, v
<1>2. x \o y = w
  <2>1. /\ x \o y \in Seq(S) /\ Len(x \o y) = Len(x) + Len(y)
        /\ \A i \in 1 .. Len(x) + Len(y) : (x \o y)[i] = IF i <= Len(x) THEN x[i] ELSE y[i - Len(x)]
    BY ONLY <1>1, ConcatProperties
  <2>2. \A i \in 1 .. 2 : (x \o y)[i] = w[i]
    BY ONLY <1>1, <2>1
  <2>3. Len(x \o y) = 2
    BY ONLY <1>1, <2>1
  <2> QED BY ONLY <1>1, <2>1, <2>2, <2>3, SeqEqual
<1>3. w \o z = v
  <2>1. /\ w \o z \in Seq(S) /\ Len(w \o z) = Len(w) + Len(z)
        /\ \A i \in 1 .. Len(w) + Len(z) : (w \o z)[i] = IF i <= Len(w) THEN w[i] ELSE z[i - Len(w)]
    BY ONLY <1>1, ConcatProperties
  <2>2. \A i \in 1 .. 3 : (w \o z)[i] = v[i]
    BY ONLY <1>1, <2>1
  <2>3. Len(w \o z) = 3
    BY ONLY <1>1, <2>1
  <2> QED BY ONLY <1>1, <2>1, <2>2, <2>3, SeqEqual
<1>4. w \o <<>> = w /\ x \o <<>> = x
  BY <1>1, ConcatEmptySeq
<1> QED BY <1>2, <1>3, <1>4 DEF x, y, z, w, v

(* Escaped, a marked text has its dots doubled where a line begins with    *)
(* one.                                                                    *)
LEMMA EscapedIs ==
  ASSUME NEW S, NEW t \in Seq(S), {Dot, MarkTag, LessEntity} \subseteq S,
         Len(t) >= 1 => t[1] # Dot,
         NEW f, f = MarkedBlocks(t), NEW h, h = SentBlocks(t)
  PROVE  ModuleEscaped(FlattenSeq(f)) = FlattenSeq(h)
<1> DEFINE e == FlattenSeq(f)
           g == [i \in DOMAIN e |-> IF e[i] = Dot /\ AfterNl(e, i) THEN <<Dot, Dot>> ELSE <<e[i]>>]
<1>0. {Dot, MarkTag, LessEntity} \subseteq S
  OBVIOUS
<1>1. /\ f \in Seq(Seq(S)) /\ Len(f) = Len(t)
      /\ \A k \in 1 .. Len(t) :
           /\ Len(f[k]) >= 1
           /\ EndsSentence(t, k) => Len(f[k]) = 2 /\ f[k][1] = Dot /\ f[k][2] = MarkTag
           /\ ~EndsSentence(t, k) => Len(f[k]) = 1 /\ f[k][1] = Entity(t[k])
  BY ONLY <1>0, t \in Seq(S), f = MarkedBlocks(t), MarkedBlocksAre
<1>2. h \in Seq(Seq(S)) /\ Len(h) = Len(t) /\ SentAre(t, h)
  BY ONLY <1>0, t \in Seq(S), h = SentBlocks(t), SentBlocksAre
<1>3. ModuleEscaped(e) = FlattenSeq(g)
  BY Zenon DEF ModuleEscaped, Expand
<1>4. e \in Seq(S)
  BY <1>1, FlattenType
<1> DEFINE E == e
<1>5. E = FlattenSeq(f) /\ E \in Seq(S) /\ Len(E) \in Nat
  BY <1>4
<1> HIDE DEF E
<1>6. g = [i \in DOMAIN E |-> IF E[i] = Dot /\ AfterNl(E, i) THEN <<Dot, Dot>> ELSE <<E[i]>>]
  BY DEF E
<1> HIDE DEF g
<1>7. \A i \in 1 .. Len(E) : g[i] = IF E[i] = Dot /\ AfterNl(E, i) THEN <<Dot, Dot>> ELSE <<E[i]>>
  BY <1>5, <1>6
<1>8. g \in Seq(Seq(S)) /\ Len(g) = Len(E)
  <2>1. \A i \in 1 .. Len(E) : <<E[i]>> \in Seq(S) /\ <<Dot, Dot>> \in Seq(S)
    BY <1>0, <1>5
  <2>2. \A i \in 1 .. Len(E) : g[i] \in Seq(S)
    BY <1>7, <2>1, Zenon
  <2>3. g = [k \in DOMAIN E |-> g[k]]
    BY <1>6
  <2> QED BY <1>5, <2>2, <2>3, ExpandType
<1>9. Dot # MarkTag /\ Dot # LessEntity /\ NL # MarkTag /\ NL # LessEntity /\ NL # Less /\ Dot # Less
      /\ ~Space(Dot) /\ NL # Dot
  BY DEF Dot, MarkTag, LessEntity, NL, Less, Space, CR
<1>10. ASSUME NEW k \in 1 .. Len(f), NEW p \in Nat, p = BlockEnd(f, k - 1)
       PROVE  \/ Len(f[k]) = 1 /\ g[p + 1] = h[k]
              \/ Len(f[k]) = 2 /\ g[p + 1] \o g[p + 2] = h[k]
  <2>1. /\ p \in Nat /\ p + Len(f[k]) <= Len(E)
        /\ \A j \in 1 .. Len(f[k]) : E[p + j] = f[k][j]
        /\ k = 1 => p = 0
        /\ k > 1 => p >= 1 /\ E[p] = f[k - 1][Len(f[k - 1])]
    <3>1. \A i \in 1 .. Len(f) : Len(f[i]) >= 1
      BY <1>1
    <3>2. f \in Seq(Seq(S)) /\ E = FlattenSeq(f)
      BY <1>1, <1>5
    <3>3. Near(f, k, E, p)
      BY ONLY <3>1, <3>2, k \in 1 .. Len(f), p = BlockEnd(f, k - 1), Neighbours
    <3> QED BY ONLY <3>3, p \in Nat DEF Near
  <2>2. k \in 1 .. Len(t) /\ k \in Nat /\ Len(t) \in Nat /\ (k > 1 => k - 1 \in 1 .. Len(t) /\ (k - 1) + 1 = k)
    BY <1>1
  <2>3. t[k] = Dot => (AfterNl(E, p + 1) <=> Fresh(t, k))
    <3> SUFFICES ASSUME t[k] = Dot PROVE AfterNl(E, p + 1) <=> Fresh(t, k)
      OBVIOUS
    <3>1. k > 1
      BY <2>2
    <3>2. AfterNl(E, p + 1) <=> E[p] = NL
      <4>1. (p + 1) - 1 = p /\ p + 1 # 1
        BY <2>1, <3>1
      <4> QED BY <4>1 DEF AfterNl
    <3>3. ~EndsSentence(t, k - 1)
      BY <1>9, <2>2, <3>1 DEF EndsSentence
    <3>4. E[p] = Entity(t[k - 1])
      BY <1>1, <2>1, <2>2, <3>1, <3>3
    <3>5. Entity(t[k - 1]) = NL <=> t[k - 1] = NL
      BY <1>9 DEF Entity
    <3> QED BY <3>1, <3>2, <3>4, <3>5 DEF Fresh
  <2>4. CASE EndsSentence(t, k)
    <3>1. Len(f[k]) = 2 /\ f[k][1] = Dot /\ f[k][2] = MarkTag /\ t[k] = Dot
      BY <1>1, <2>2, <2>4 DEF EndsSentence
    <3>2. p + 1 \in 1 .. Len(E) /\ p + 2 \in 1 .. Len(E) /\ E[p + 1] = Dot /\ E[p + 2] = MarkTag
      BY <1>5, <2>1, <3>1
    <3>3. g[p + 2] = <<MarkTag>>
      BY <1>7, <1>9, <3>2
    <3>4. CASE Fresh(t, k)
      <4>1. g[p + 1] = <<Dot, Dot>> /\ h[k] = <<Dot, Dot, MarkTag>>
        BY <1>2, <1>7, <2>2, <2>3, <2>4, <3>1, <3>2, <3>4 DEF SentAre
      <4>2. <<Dot, Dot>> \o <<MarkTag>> = <<Dot, Dot, MarkTag>>
        BY ONLY Joined
      <4> QED BY <3>1, <3>3, <4>1, <4>2
    <3>5. CASE ~Fresh(t, k)
      <4>1. g[p + 1] = <<Dot>> /\ h[k] = <<Dot, MarkTag>>
        BY <1>2, <1>7, <2>2, <2>3, <2>4, <3>1, <3>2, <3>5 DEF SentAre
      <4>2. <<Dot>> \o <<MarkTag>> = <<Dot, MarkTag>>
        BY ONLY Joined
      <4> QED BY <3>1, <3>3, <4>1, <4>2
    <3> QED BY <3>4, <3>5
  <2>5. CASE ~EndsSentence(t, k)
    <3>1. Len(f[k]) = 1 /\ f[k][1] = Entity(t[k])
      BY <1>1, <2>2, <2>5
    <3>2. p + 1 \in 1 .. Len(E) /\ E[p + 1] = Entity(t[k])
      BY <1>5, <2>1, <3>1
    <3>3. Entity(t[k]) = Dot <=> t[k] = Dot
      BY <1>9 DEF Entity
    <3>4. CASE Fresh(t, k)
      <4>1. t[k] = Dot
        BY <3>4 DEF Fresh
      <4>2. g[p + 1] = <<Dot, Dot>> /\ h[k] = <<Dot, Dot>>
        BY <1>2, <1>7, <2>2, <2>3, <2>5, <3>2, <3>3, <3>4, <4>1 DEF SentAre
      <4> QED BY <3>1, <4>2
    <3>5. CASE ~Fresh(t, k)
      <4>1. g[p + 1] = <<Entity(t[k])>> /\ h[k] = <<Entity(t[k])>>
        BY <1>2, <1>7, <2>2, <2>3, <2>5, <3>2, <3>3, <3>5 DEF SentAre
      <4> QED BY <3>1, <4>1
    <3> QED BY <3>4, <3>5
  <2> QED BY <2>4, <2>5
<1>11. FlattenSeq(g) = FlattenSeq(h)
  <2>1. Len(h) = Len(f) /\ Len(g) = Len(FlattenSeq(f))
    BY <1>1, <1>2, <1>5, <1>8
  <2>2. f \in Seq(Seq(S)) /\ g \in Seq(Seq(S)) /\ h \in Seq(Seq(S))
    BY <1>1, <1>2, <1>8
  <2>3. Contracts(f, g, h)
    BY ONLY <1>10 DEF Contracts
  <2> QED BY ONLY <2>1, <2>2, <2>3, Blockwise
<1> QED BY <1>3, <1>11

(* strip_index_marks() takes the marks out again.                          *)
Unmarked(b) == Expand(b, LAMBDA i : IF b[i] = MarkTag THEN <<>> ELSE <<b[i]>>)

LEMMA UnmarkedIs ==
  ASSUME NEW S, NEW t \in Seq(S), {Dot, MarkTag, LessEntity} \subseteq S,
         \A k \in 1 .. Len(t) : t[k] # MarkTag,
         NEW f, f = SentBlocks(t), NEW h, h = PlainBlocks(t)
  PROVE  Unmarked(FlattenSeq(f)) = FlattenSeq(h)
<1> DEFINE e == FlattenSeq(f)
           g == [i \in DOMAIN e |-> IF e[i] = MarkTag THEN <<>> ELSE <<e[i]>>]
<1>0. {Dot, MarkTag, LessEntity} \subseteq S /\ {Dot, LessEntity} \subseteq S
  OBVIOUS
<1>1. f \in Seq(Seq(S)) /\ Len(f) = Len(t) /\ SentAre(t, f)
  BY ONLY <1>0, t \in Seq(S), f = SentBlocks(t), SentBlocksAre
<1>2. /\ h \in Seq(Seq(S)) /\ Len(h) = Len(t)
      /\ PlainAre(t, h)
  BY ONLY <1>0, t \in Seq(S), h = PlainBlocks(t), PlainBlocksAre
<1>3. Unmarked(e) = FlattenSeq(g)
  BY Zenon DEF Unmarked, Expand
<1> DEFINE E == e
<1>5. E = FlattenSeq(f) /\ E \in Seq(S) /\ Len(E) \in Nat
  <2>1. e \in Seq(S)
    BY <1>1, FlattenType
  <2> QED BY <2>1
<1> HIDE DEF E
<1>6. g = [i \in DOMAIN E |-> IF E[i] = MarkTag THEN <<>> ELSE <<E[i]>>]
  BY DEF E
<1> HIDE DEF g
<1>7. \A i \in 1 .. Len(E) : g[i] = IF E[i] = MarkTag THEN <<>> ELSE <<E[i]>>
  BY <1>5, <1>6
<1>8. g \in Seq(Seq(S)) /\ Len(g) = Len(E)
  <2>1. \A i \in 1 .. Len(E) : <<E[i]>> \in Seq(S) /\ <<>> \in Seq(S)
    BY <1>5
  <2>2. \A i \in 1 .. Len(E) : g[i] \in Seq(S)
    BY <1>7, <2>1, Zenon
  <2>3. g = [k \in DOMAIN E |-> g[k]]
    BY <1>6
  <2> QED BY <1>5, <2>2, <2>3, ExpandType
<1>9. Dot # MarkTag /\ Dot # Less /\ LessEntity # MarkTag
  BY DEF Dot, MarkTag, LessEntity, Less
<1>10. ASSUME NEW k \in 1 .. Len(f), NEW p \in Nat, p = BlockEnd(f, k - 1)
       PROVE  \/ Len(f[k]) = 1 /\ g[p + 1] = h[k]
              \/ Len(f[k]) = 2 /\ g[p + 1] \o g[p + 2] = h[k]
              \/ Len(f[k]) = 3 /\ (g[p + 1] \o g[p + 2]) \o g[p + 3] = h[k]
  <2>1. /\ p \in Nat /\ p + Len(f[k]) <= Len(E)
        /\ \A j \in 1 .. Len(f[k]) : E[p + j] = f[k][j]
    <3>1. \A i \in 1 .. Len(f) : Len(f[i]) >= 1
      BY <1>1 DEF SentAre
    <3>2. f \in Seq(Seq(S)) /\ E = FlattenSeq(f)
      BY <1>1, <1>5
    <3>3. Near(f, k, E, p)
      BY ONLY <3>1, <3>2, k \in 1 .. Len(f), p = BlockEnd(f, k - 1), Neighbours
    <3> QED BY ONLY <3>3, p \in Nat DEF Near
  <2>2. k \in 1 .. Len(t)
    BY <1>1
  <2>3. Entity(t[k]) # MarkTag /\ (t[k] = Dot => Entity(t[k]) = Dot)
    BY <1>9, <2>2 DEF Entity
  <2>4. <<Dot>> \o <<Dot>> = <<Dot, Dot>> /\ <<Dot, Dot>> \o <<>> = <<Dot, Dot>> /\ <<Dot>> \o <<>> = <<Dot>>
    BY ONLY Joined
  <2>5. CASE EndsSentence(t, k) /\ Fresh(t, k)
    <3>1. Len(f[k]) = 3 /\ f[k][1] = Dot /\ f[k][2] = Dot /\ f[k][3] = MarkTag
      BY <1>1, <2>2, <2>5 DEF SentAre
    <3>2. /\ p + 1 \in 1 .. Len(E) /\ p + 2 \in 1 .. Len(E) /\ p + 3 \in 1 .. Len(E)
          /\ E[p + 1] = Dot /\ E[p + 2] = Dot /\ E[p + 3] = MarkTag
      BY <1>5, <2>1, <3>1
    <3>3. g[p + 1] = <<Dot>> /\ g[p + 2] = <<Dot>> /\ g[p + 3] = <<>>
      BY <1>7, <1>9, <3>2
    <3>4. h[k] = <<Dot, Dot>>
      BY <1>2, <2>2, <2>5 DEF PlainAre
    <3> QED BY <2>4, <3>1, <3>3, <3>4
  <2>6. CASE EndsSentence(t, k) /\ ~Fresh(t, k)
    <3>1. Len(f[k]) = 2 /\ f[k][1] = Dot /\ f[k][2] = MarkTag
      BY <1>1, <2>2, <2>6 DEF SentAre
    <3>2. /\ p + 1 \in 1 .. Len(E) /\ p + 2 \in 1 .. Len(E)
          /\ E[p + 1] = Dot /\ E[p + 2] = MarkTag
      BY <1>5, <2>1, <3>1
    <3>3. g[p + 1] = <<Dot>> /\ g[p + 2] = <<>>
      BY <1>7, <1>9, <3>2
    <3>4. h[k] = <<Dot>>
      BY <1>2, <2>2, <2>3, <2>6 DEF EndsSentence, PlainAre
    <3> QED BY <2>4, <3>1, <3>3, <3>4
  <2>7. CASE ~EndsSentence(t, k) /\ Fresh(t, k)
    <3>1. Len(f[k]) = 2 /\ f[k][1] = Dot /\ f[k][2] = Dot
      BY <1>1, <2>2, <2>7 DEF SentAre
    <3>2. /\ p + 1 \in 1 .. Len(E) /\ p + 2 \in 1 .. Len(E)
          /\ E[p + 1] = Dot /\ E[p + 2] = Dot
      BY <1>5, <2>1, <3>1
    <3>3. g[p + 1] = <<Dot>> /\ g[p + 2] = <<Dot>>
      BY <1>7, <1>9, <3>2
    <3>4. h[k] = <<Dot, Dot>>
      BY <1>2, <2>2, <2>7 DEF PlainAre
    <3> QED BY <2>4, <3>1, <3>3, <3>4
  <2>8. CASE ~EndsSentence(t, k) /\ ~Fresh(t, k)
    <3>1. Len(f[k]) = 1 /\ f[k][1] = Entity(t[k])
      BY <1>1, <2>2, <2>8 DEF SentAre
    <3>2. p + 1 \in 1 .. Len(E) /\ E[p + 1] = Entity(t[k])
      BY <1>5, <2>1, <3>1
    <3>3. g[p + 1] = <<Entity(t[k])>>
      BY <1>7, <2>3, <3>2
    <3>4. h[k] = <<Entity(t[k])>>
      BY <1>2, <2>2, <2>8 DEF PlainAre
    <3> QED BY <3>1, <3>3, <3>4
  <2> QED BY <2>5, <2>6, <2>7, <2>8
<1>11. FlattenSeq(g) = FlattenSeq(h)
  <2>1. Len(h) = Len(f) /\ Len(g) = Len(FlattenSeq(f))
    BY <1>1, <1>2, <1>5, <1>8
  <2>2. f \in Seq(Seq(S)) /\ g \in Seq(Seq(S)) /\ h \in Seq(Seq(S))
    BY <1>1, <1>2, <1>8
  <2>3. Contracts(f, g, h)
    BY ONLY <1>10 DEF Contracts
  <2> QED BY ONLY <2>1, <2>2, <2>3, Blockwise
<1> QED BY <1>3, <1>11

(* The text ends at the tag that was put behind it.                        *)
LEMMA PlainEnds ==
  ASSUME NEW S, NEW u \in Seq(S), {Dot, LessEntity, EndTag} \subseteq S,
         \A k \in 1 .. Len(u) : u[k] # EndTag
  PROVE  /\ FlattenSeq(PlainBlocks(u \o <<EndTag>>)) = FlattenSeq(PlainBlocks(u)) \o <<EndTag>>
         /\ FlattenSeq(PlainBlocks(u)) \in Seq(S)
         /\ \A i \in 1 .. Len(FlattenSeq(PlainBlocks(u))) : FlattenSeq(PlainBlocks(u))[i] # EndTag
<1> DEFINE n == Len(u)
           z == <<EndTag>>
           t == u \o z
           f == PlainBlocks(u)
           c == PlainBlocks(t)
<1>0. n \in Nat /\ DOMAIN u = 1 .. n /\ {Dot, LessEntity} \subseteq S
  OBVIOUS
<1>1. z \in Seq(S) /\ Len(z) = 1 /\ z[1] = EndTag
  OBVIOUS
<1> HIDE DEF z
<1>2. t \in Seq(S) /\ Len(t) = n + 1 /\ t[n + 1] = EndTag /\ \A k \in 1 .. n : t[k] = u[k]
  <2>1. /\ u \o z \in Seq(S) /\ Len(u \o z) = Len(u) + Len(z)
        /\ \A i \in 1 .. Len(u) + Len(z) : (u \o z)[i] = IF i <= Len(u) THEN u[i] ELSE z[i - Len(u)]
    BY ONLY <1>1, u \in Seq(S), ConcatProperties
  <2> HIDE DEF n
  <2>2. \A i \in 1 .. n + 1 : t[i] = IF i <= n THEN u[i] ELSE z[i - n]
    BY ONLY <1>1, <2>1 DEF n
  <2>3. t[n + 1] = EndTag
    <3>1. n + 1 \in 1 .. n + 1 /\ ~(n + 1 <= n) /\ (n + 1) - n = 1
      BY ONLY <1>0
    <3> QED BY ONLY <1>1, <2>2, <3>1
  <2>4. ASSUME NEW k \in 1 .. n PROVE t[k] = u[k]
    <3>1. k \in 1 .. n + 1 /\ k <= n
      BY ONLY <1>0, k \in 1 .. n
    <3> QED BY ONLY <2>2, <3>1
  <2> QED BY <1>1, <2>1, <2>3, <2>4 DEF n
<1> HIDE DEF t
<1>3. f \in Seq(Seq(S)) /\ Len(f) = n /\ PlainAre(u, f)
  <2>1. f = PlainBlocks(u)
    OBVIOUS
  <2> HIDE DEF f
  <2> QED BY ONLY <1>0, <2>1, u \in Seq(S), PlainBlocksAre
<1>4. c \in Seq(Seq(S)) /\ Len(c) = n + 1 /\ PlainAre(t, c)
  <2>1. c = PlainBlocks(t)
    OBVIOUS
  <2> HIDE DEF c
  <2>2. c \in Seq(Seq(S)) /\ Len(c) = Len(t) /\ PlainAre(t, c)
    BY ONLY <1>0, <1>2, <2>1, PlainBlocksAre
  <2> QED BY <1>2, <2>2
<1> HIDE DEF f, c
<1>5. c[n + 1] = z
  <2>1. ~Fresh(t, n + 1) /\ Entity(EndTag) = EndTag
    BY <1>2 DEF Fresh, Entity, EndTag, Dot, Less
  <2>2. n + 1 \in 1 .. n + 1
    BY <1>0
  <2> QED BY <1>2, <1>4, <2>1, <2>2 DEF z, PlainAre
<1>6. \A k \in 1 .. n : c[k] = f[k]
  <2> SUFFICES ASSUME NEW k \in 1 .. n PROVE c[k] = f[k]
    OBVIOUS
  <2>1. k \in 1 .. n + 1 /\ t[k] = u[k] /\ (k > 1 => t[k - 1] = u[k - 1])
    BY <1>0, <1>2
  <2>2. Fresh(t, k) <=> Fresh(u, k)
    BY <2>1 DEF Fresh
  <2>3. k \in 1 .. Len(u) /\ k \in 1 .. Len(t)
    BY <1>2, <2>1
  <2> QED BY <1>3, <1>4, <2>1, <2>2, <2>3 DEF PlainAre
<1>7. c = Append(f, z)
  <2> DEFINE R == Seq(S)
             a == Append(f, z)
  <2>1. f \in Seq(R) /\ c \in Seq(R) /\ z \in R /\ Len(f) = n /\ Len(c) = n + 1
    BY <1>1, <1>3, <1>4
  <2> HIDE DEF R, n
  <2>2. a \in Seq(R) /\ Len(a) = n + 1 /\ a[n + 1] = z /\ \A k \in 1 .. n : a[k] = f[k]
    BY ONLY <2>1, AppendProperties
  <2> HIDE DEF a
  <2>3. ASSUME NEW k \in 1 .. n + 1 PROVE c[k] = a[k]
    <3>1. k \in 1 .. n \/ k = n + 1
      BY ONLY <1>0, k \in 1 .. n + 1
    <3> QED BY <1>5, <1>6, <2>2, <3>1
  <2>4. c = a
    BY ONLY <2>1, <2>2, <2>3, SeqEqual
  <2> QED BY <2>4 DEF a
<1>8. FlattenSeq(c) = FlattenSeq(f) \o z
  <2>1. FlattenSeq(Append(f, z)) = FlattenSeq(f) \o z
    BY <1>1, <1>3, FlattenAppend
  <2> QED BY <1>7, <2>1
<1>9. FlattenSeq(f) \in Seq(S)
  BY <1>3, FlattenType
<1>10. ASSUME NEW i \in 1 .. Len(FlattenSeq(f)) PROVE FlattenSeq(f)[i] # EndTag
  <2>1. PICK k, j : Stands(f, i, k, j)
    BY <1>3, FlattenWhere
  <2>2. k \in 1 .. n /\ j \in 1 .. Len(f[k]) /\ FlattenSeq(f)[i] = f[k][j]
    BY <1>3, <2>1 DEF Stands
  <2>3. Dot # EndTag /\ LessEntity # EndTag
    BY DEF Dot, EndTag, LessEntity
  <2>4. Entity(u[k]) # EndTag
    BY <2>2, <2>3 DEF Entity
  <2>5. CASE Fresh(u, k)
    <3>1. Len(f[k]) = 2 /\ f[k][1] = Dot /\ f[k][2] = Dot
      BY <1>3, <2>2, <2>5 DEF PlainAre
    <3>2. j = 1 \/ j = 2
      <4> DEFINE m == Len(f[k])
      <4>1. m = 2 /\ j \in 1 .. m
        BY <2>2, <3>1
      <4> HIDE DEF m
      <4> QED BY ONLY <4>1
    <3> QED BY <2>2, <2>3, <3>1, <3>2
  <2>6. CASE ~Fresh(u, k)
    <3>1. Len(f[k]) = 1 /\ f[k][1] = Entity(u[k])
      BY <1>3, <2>2, <2>6 DEF PlainAre
    <3>2. j = 1
      <4> DEFINE m == Len(f[k])
      <4>1. m = 1 /\ j \in 1 .. m
        BY <2>2, <3>1
      <4> HIDE DEF m
      <4> QED BY ONLY <4>1
    <3> QED BY <2>2, <2>4, <3>1, <3>2
  <2> QED BY <2>5, <2>6
<1> QED BY <1>8, <1>9, <1>10 DEF f, c, t, z

(* The dots that were doubled are undone.                                  *)
Undoubled(t) ==
  Expand(t, LAMBDA i : IF t[i] = Dot /\ i > 1 /\ t[i - 1] = NL THEN <<>> ELSE <<t[i]>>)

LEMMA UndoubledIs ==
  ASSUME NEW S, NEW u \in Seq(S), {Dot, LessEntity} \subseteq S, NEW f, f = PlainBlocks(u)
  PROVE  Undoubled(FlattenSeq(f)) = Entities(u)
<1> DEFINE e == FlattenSeq(f)
           g == [i \in DOMAIN e |-> IF e[i] = Dot /\ i > 1 /\ e[i - 1] = NL THEN <<>> ELSE <<e[i]>>]
           h == [k \in DOMAIN u |-> <<Entity(u[k])>>]
<1>0. {Dot, LessEntity} \subseteq S
  OBVIOUS
<1>1. /\ f \in Seq(Seq(S)) /\ Len(f) = Len(u)
      /\ \A k \in 1 .. Len(u) :
           /\ Len(f[k]) >= 1
           /\ Fresh(u, k) => Len(f[k]) = 2 /\ f[k][1] = Dot /\ f[k][2] = Dot
           /\ ~Fresh(u, k) => Len(f[k]) = 1 /\ f[k][1] = Entity(u[k])
  <2>1. f \in Seq(Seq(S)) /\ Len(f) = Len(u) /\ PlainAre(u, f)
    BY ONLY <1>0, u \in Seq(S), f = PlainBlocks(u), PlainBlocksAre
  <2> QED BY <2>1, Zenon DEF PlainAre
<1>2. h \in Seq(Seq(S)) /\ Len(h) = Len(u) /\ \A k \in 1 .. Len(u) : h[k] = <<Entity(u[k])>>
  <2>1. h = [k \in DOMAIN u |-> h[k]] /\ \A k \in 1 .. Len(u) : h[k] = <<Entity(u[k])>>
    OBVIOUS
  <2> HIDE DEF h
  <2>2. \A k \in 1 .. Len(u) : Entity(u[k]) \in S
    BY DEF Entity
  <2>3. \A k \in 1 .. Len(u) : <<Entity(u[k])>> \in Seq(S)
    BY <2>2
  <2>4. \A k \in 1 .. Len(u) : h[k] \in Seq(S)
    BY <2>1, <2>3, Zenon
  <2> QED BY <2>1, <2>4, ExpandType
<1>3. Undoubled(e) = FlattenSeq(g)
  BY Zenon DEF Undoubled, Expand
<1> HIDE DEF h
<1> DEFINE E == e
<1>5. E = FlattenSeq(f) /\ E \in Seq(S) /\ Len(E) \in Nat
  <2>1. e \in Seq(S)
    BY <1>1, FlattenType
  <2> QED BY <2>1
<1> HIDE DEF E
<1>6. g = [i \in DOMAIN E |-> IF E[i] = Dot /\ i > 1 /\ E[i - 1] = NL THEN <<>> ELSE <<E[i]>>]
  BY DEF E
<1> HIDE DEF g
<1>7. \A i \in 1 .. Len(E) : g[i] = IF E[i] = Dot /\ i > 1 /\ E[i - 1] = NL THEN <<>> ELSE <<E[i]>>
  BY <1>5, <1>6
<1>8. g \in Seq(Seq(S)) /\ Len(g) = Len(E)
  <2>1. \A i \in 1 .. Len(E) : <<E[i]>> \in Seq(S) /\ <<>> \in Seq(S)
    BY <1>5
  <2>2. \A i \in 1 .. Len(E) : g[i] \in Seq(S)
    BY <1>7, <2>1, Zenon
  <2>3. g = [k \in DOMAIN E |-> g[k]]
    BY <1>6
  <2> QED BY <1>5, <2>2, <2>3, ExpandType
<1>9. Dot # Less /\ NL # Dot /\ NL # Less /\ NL # LessEntity /\ Dot # LessEntity
  BY DEF Dot, NL, LessEntity, Less
<1>10. ASSUME NEW k \in 1 .. Len(f), NEW p \in Nat, p = BlockEnd(f, k - 1)
       PROVE  \/ Len(f[k]) = 1 /\ g[p + 1] = h[k]
              \/ Len(f[k]) = 2 /\ g[p + 1] \o g[p + 2] = h[k]
  <2>1. /\ p + Len(f[k]) <= Len(E)
        /\ \A j \in 1 .. Len(f[k]) : E[p + j] = f[k][j]
        /\ k = 1 => p = 0
        /\ k > 1 => p >= 1 /\ E[p] = f[k - 1][Len(f[k - 1])]
    <3>1. \A i \in 1 .. Len(f) : Len(f[i]) >= 1
      BY <1>1
    <3>2. f \in Seq(Seq(S)) /\ E = FlattenSeq(f)
      BY <1>1, <1>5
    <3>3. Near(f, k, E, p)
      BY ONLY <3>1, <3>2, k \in 1 .. Len(f), p = BlockEnd(f, k - 1), Neighbours
    <3> QED BY ONLY <3>3, p \in Nat DEF Near
  <2>2. k \in 1 .. Len(u) /\ k \in Nat /\ (k > 1 => k - 1 \in 1 .. Len(u)) /\ (k = 1 \/ k > 1)
    BY <1>1
  <2>3. (p + 1 > 1 /\ E[(p + 1) - 1] = NL) <=> (k > 1 /\ u[k - 1] = NL)
    <3>1. CASE k = 1
      BY <2>1, <3>1
    <3>2. CASE k > 1
      <4>1. E[(p + 1) - 1] = E[p] /\ p + 1 > 1
        BY <2>1, <3>2
      <4>2. E[p] = NL <=> u[k - 1] = NL
        <5>1. CASE Fresh(u, k - 1)
          <6>1. E[p] = Dot /\ u[k - 1] = Dot
            BY <1>1, <2>1, <2>2, <3>2, <5>1 DEF Fresh
          <6> QED BY <1>9, <6>1
        <5>2. CASE ~Fresh(u, k - 1)
          <6>1. E[p] = Entity(u[k - 1])
            BY <1>1, <2>1, <2>2, <3>2, <5>2
          <6> QED BY <1>9, <6>1 DEF Entity
        <5> QED BY <5>1, <5>2
      <4> QED BY <3>2, <4>1, <4>2
    <3> QED BY <2>2, <3>1, <3>2
  <2>4. CASE Fresh(u, k)
    <3>1. Len(f[k]) = 2 /\ f[k][1] = Dot /\ f[k][2] = Dot
      BY <1>1, <2>2, <2>4
    <3>2. /\ p + 1 \in 1 .. Len(E) /\ p + 2 \in 1 .. Len(E) /\ (p + 2) - 1 = p + 1
          /\ E[p + 1] = Dot /\ E[p + 2] = Dot
      BY <1>5, <2>1, <3>1
    <3>3. g[p + 1] = <<>>
      BY <1>7, <2>3, <2>4, <3>2 DEF Fresh
    <3>4. g[p + 2] = <<Dot>>
      BY <1>7, <1>9, <3>2
    <3>5. h[k] = <<Dot>>
      BY <1>2, <1>9, <2>2, <2>4 DEF Fresh, Entity
    <3>6. <<>> \o <<Dot>> = <<Dot>>
      <4>1. <<Dot>> \in Seq(S)
        BY <1>0
      <4> QED BY <4>1, ConcatEmptySeq
    <3> QED BY <3>1, <3>3, <3>4, <3>5, <3>6
  <2>5. CASE ~Fresh(u, k)
    <3>1. Len(f[k]) = 1 /\ f[k][1] = Entity(u[k])
      BY <1>1, <2>2, <2>5
    <3>2. p + 1 \in 1 .. Len(E) /\ E[p + 1] = Entity(u[k])
      BY <1>5, <2>1, <3>1
    <3>3. Entity(u[k]) = Dot <=> u[k] = Dot
      BY <1>9 DEF Entity
    <3>4. g[p + 1] = <<Entity(u[k])>>
      BY <1>7, <2>3, <2>5, <3>2, <3>3 DEF Fresh
    <3>5. h[k] = <<Entity(u[k])>>
      BY <1>2, <2>2
    <3> QED BY <3>1, <3>4, <3>5
  <2> QED BY <2>4, <2>5
<1>11. FlattenSeq(g) = FlattenSeq(h)
  <2>1. Len(h) = Len(f) /\ Len(g) = Len(FlattenSeq(f))
    BY <1>1, <1>2, <1>5, <1>8
  <2>2. f \in Seq(Seq(S)) /\ g \in Seq(Seq(S)) /\ h \in Seq(Seq(S))
    BY <1>1, <1>2, <1>8
  <2>3. Contracts(f, g, h)
    BY ONLY <1>10 DEF Contracts
  <2> QED BY ONLY <2>1, <2>2, <2>3, Blockwise
<1>12. FlattenSeq(h) = Entities(u)
  <2>1. /\ Entities(u) \in Seq(S) /\ Len(Entities(u)) = Len(u)
        /\ \A k \in 1 .. Len(u) : Entities(u)[k] = Entity(u[k])
    BY ONLY <1>0, u \in Seq(S), EntitiesAre
  <2>2. Len(h) = Len(Entities(u)) /\ \A k \in 1 .. Len(Entities(u)) : h[k] = <<Entities(u)[k]>>
    BY <1>2, <2>1
  <2> QED BY <1>2, <2>1, <2>2, Singles
<1> QED BY <1>3, <1>11, <1>12

(* And the entities.                                                       *)
LEMMA EntitiesUndone ==
  ASSUME NEW S, NEW u \in Seq(S), {Less, LessEntity} \subseteq S,
         \A k \in 1 .. Len(u) : u[k] \notin Tags \cup {LessEntity}
  PROVE  WithoutSsml(Entities(u)) = u
<1> DEFINE e == Entities(u)
           g == Bared(e)
<1>1. e \in Seq(S) /\ Len(e) = Len(u) /\ \A k \in 1 .. Len(u) : e[k] = Entity(u[k])
  BY EntitiesAre
<1>2. WithoutSsml(e) = FlattenSeq(g)
  BY Zenon DEF WithoutSsml, Expand, Bared
<1> HIDE DEF e
<1>3. /\ g \in Seq(Seq(S)) /\ Len(g) = Len(e)
      /\ \A i \in 1 .. Len(e) : /\ e[i] \in Tags => g[i] = <<>>
                                /\ e[i] = LessEntity => g[i] = <<Less>>
                                /\ e[i] \notin Tags \cup {LessEntity} => g[i] = <<e[i]>>
  <2>1. Less \in S
    OBVIOUS
  <2> QED BY ONLY <1>1, <2>1, BaredType
<1> HIDE DEF g
<1>4. \A k \in 1 .. Len(u) : g[k] = <<u[k]>>
  <2> SUFFICES ASSUME NEW k \in 1 .. Len(u) PROVE g[k] = <<u[k]>>
    OBVIOUS
  <2>1. CASE u[k] = Less
    BY <1>1, <1>3, <2>1 DEF Entity
  <2>2. CASE u[k] # Less
    BY <1>1, <1>3, <2>2 DEF Entity
  <2> QED BY <2>1, <2>2
<1> QED BY <1>1, <1>2, <1>3, <1>4, Singles DEF e

(* A text with one more element.                                           *)
LEMMA Ended ==
  ASSUME NEW S, NEW u, u \in Seq(S), NEW x, x \in S, NEW t, t = u \o <<x>>
  PROVE  /\ t \in Seq(S) /\ Len(u) \in Nat /\ Len(t) = Len(u) + 1 /\ t[Len(u) + 1] = x
         /\ \A k \in 1 .. Len(u) : t[k] = u[k]
         /\ SubSeq(t, 1, Len(u)) = u
<1> DEFINE n == Len(u)
           z == <<x>>
<1>1. z \in Seq(S) /\ Len(z) = 1 /\ z[1] = x /\ n \in Nat
  OBVIOUS
<1>2. t = u \o z
  OBVIOUS
<1> HIDE DEF z
<1>3. t \in Seq(S) /\ Len(t) = n + 1 /\ \A i \in 1 .. n + 1 : t[i] = IF i <= n THEN u[i] ELSE z[i - n]
  <2>1. /\ u \o z \in Seq(S) /\ Len(u \o z) = Len(u) + Len(z)
        /\ \A i \in 1 .. Len(u) + Len(z) : (u \o z)[i] = IF i <= Len(u) THEN u[i] ELSE z[i - Len(u)]
    BY ONLY <1>1, u \in Seq(S), ConcatProperties
  <2> QED BY ONLY <1>1, <1>2, <2>1 DEF n
<1>5. t[n + 1] = x
  <2> HIDE DEF n
  <2>1. n + 1 \in 1 .. n + 1 /\ ~(n + 1 <= n) /\ (n + 1) - n = 1
    BY ONLY <1>1
  <2> QED BY ONLY <1>1, <1>3, <2>1
<1>6. \A k \in 1 .. n : t[k] = u[k]
  <2> HIDE DEF n
  <2> SUFFICES ASSUME NEW k \in 1 .. n PROVE t[k] = u[k]
    OBVIOUS
  <2>1. k \in 1 .. n + 1 /\ k <= n
    BY ONLY <1>1, k \in 1 .. n
  <2> QED BY ONLY <1>3, <2>1
<1>7. SubSeq(t, 1, n) = u
  <2> DEFINE v == SubSeq(t, 1, n)
  <2>1. v \in Seq(S) /\ Len(v) = n /\ \A k \in 1 .. n : v[k] = t[k]
    <3> HIDE DEF n
    <3> QED BY ONLY <1>1, <1>3
  <2> HIDE DEF v
  <2>2. v = u
    BY <1>6, <2>1, SeqEqual
  <2> QED BY <2>2 DEF v
<1> QED BY <1>1, <1>3, <1>5, <1>6, <1>7

(* A text that was marked, escaped and cut behind a mark is understood.    *)
LEMMA PlainAgain ==
  ASSUME NEW S, NEW u \in Seq(S), {Dot, MarkTag, Less, LessEntity, EndTag} \subseteq S,
         \A k \in 1 .. Len(u) : u[k] \notin Tags \cup {LessEntity},
         NEW t, t = u \o <<EndTag>>
  PROVE  Plain(Stripped(FlattenSeq(SentBlocks(t)))) = u
<1> DEFINE e == FlattenSeq(SentBlocks(t))
           a == FlattenSeq(PlainBlocks(u))
           p == FlattenSeq(PlainBlocks(t))
<1>0. /\ {Dot, MarkTag, LessEntity} \subseteq S /\ {Dot, LessEntity, EndTag} \subseteq S
      /\ {Dot, LessEntity} \subseteq S /\ {Less, LessEntity} \subseteq S /\ EndTag \in S
  OBVIOUS
<1>1. /\ t \in Seq(S) /\ Len(u) \in Nat /\ Len(t) = Len(u) + 1 /\ t[Len(u) + 1] = EndTag
      /\ \A k \in 1 .. Len(u) : t[k] = u[k]
  BY ONLY <1>0, u \in Seq(S), t = u \o <<EndTag>>, Ended
<1>2. \A k \in 1 .. Len(t) : t[k] # MarkTag
  <2>1. EndTag # MarkTag
    BY DEF EndTag, MarkTag
  <2> QED BY <1>1, <2>1 DEF Tags
<1>3. Unmarked(e) = p
  <2> DEFINE f == SentBlocks(t)
             h == PlainBlocks(t)
  <2>1. f = SentBlocks(t) /\ h = PlainBlocks(t)
    OBVIOUS
  <2> HIDE DEF f, h
  <2>2. Unmarked(FlattenSeq(f)) = FlattenSeq(h)
    BY ONLY <1>0, <1>1, <1>2, <2>1, UnmarkedIs
  <2> QED BY <2>1, <2>2
<1>4. p = a \o <<EndTag>> /\ a \in Seq(S) /\ \A i \in 1 .. Len(a) : a[i] # EndTag
  <2>1. \A k \in 1 .. Len(u) : u[k] # EndTag
    BY DEF Tags
  <2> QED BY ONLY <1>0, <2>1, u \in Seq(S), t = u \o <<EndTag>>, PlainEnds
<1>5. Undoubled(a) = Entities(u)
  <2> DEFINE f == PlainBlocks(u)
  <2>1. f = PlainBlocks(u)
    OBVIOUS
  <2> HIDE DEF f
  <2>2. Undoubled(FlattenSeq(f)) = Entities(u)
    BY ONLY <1>0, u \in Seq(S), <2>1, UndoubledIs
  <2> QED BY <2>1, <2>2
<1>6. WithoutSsml(Entities(u)) = u
  BY <1>0, EntitiesUndone
<1> HIDE DEF a, p, e
<1>7. Plain(a) = u
  <2>1. Plain(a) = WithoutSsml(Undoubled(a))
    BY Zenon DEF Plain, Undoubled
  <2> QED BY <1>5, <1>6, <2>1
<1>8. /\ p \in Seq(S) /\ Len(a) \in Nat /\ Len(p) = Len(a) + 1 /\ p[Len(a) + 1] = EndTag
      /\ \A k \in 1 .. Len(a) : p[k] = a[k]
      /\ SubSeq(p, 1, Len(a)) = a
  BY ONLY <1>0, <1>4, Ended
<1>9. Stripped(e) = a
  <2> DEFINE ends == {i \in DOMAIN p : p[i] = EndTag}
             end == CHOOSE i \in ends : \A j \in ends : i <= j
  <2>1. ends = {Len(a) + 1}
    <3>1. DOMAIN p = 1 .. Len(a) + 1
      BY <1>8
    <3>2. \A i \in 1 .. Len(a) : p[i] # EndTag
      BY <1>4, <1>8
    <3>3. \A i \in 1 .. Len(a) + 1 : i \in 1 .. Len(a) \/ i = Len(a) + 1
      BY <1>8
    <3>4. Len(a) + 1 \in 1 .. Len(a) + 1
      BY <1>8
    <3> QED BY <1>8, <3>1, <3>2, <3>3, <3>4
  <2>2. Stripped(e) = IF ends = {} THEN p ELSE SubSeq(p, 1, end - 1)
    <3> HIDE DEF ends
    <3>1. Unmarked(e) = Expand(e, LAMBDA i : IF e[i] = MarkTag THEN <<>> ELSE <<e[i]>>)
      BY Zenon DEF Unmarked
    <3> DEFINE P == Expand(e, LAMBDA i : IF e[i] = MarkTag THEN <<>> ELSE <<e[i]>>)
    <3>2. P = p
      BY <1>3, <3>1, Zenon
    <3>3. Stripped(e) = LET es == {i \in DOMAIN P : P[i] = EndTag}
                            x == CHOOSE i \in es : \A j \in es : i <= j
                        IN  IF es = {} THEN P ELSE SubSeq(P, 1, x - 1)
      BY Zenon DEF Stripped
    <3> HIDE DEF P
    <3> QED BY <3>2, <3>3, Zenon DEF ends
  <2> HIDE DEF ends
  <2>3. end = Len(a) + 1
    BY <1>8, <2>1
  <2> HIDE DEF end
  <2>4. end - 1 = Len(a) /\ ends # {}
    BY <1>8, <2>1, <2>3
  <2>5. Stripped(e) = SubSeq(p, 1, end - 1)
    BY <2>2, <2>4, Zenon
  <2> QED BY ONLY <1>8, <2>4, <2>5
<1> QED BY <1>7, <1>9 DEF e

(* What follows a position of a list.                                      *)
LEMMA Rest ==
  ASSUME NEW S, NEW t, t \in Seq(S), NEW q, q \in 0 .. Len(t), NEW s, s = SubSeq(t, q + 1, Len(t))
  PROVE  /\ s \in Seq(S) /\ Len(s) = Len(t) - q /\ Len(t) \in Nat /\ q \in Nat
         /\ \A k \in 1 .. Len(t) - q : s[k] = t[q + k] /\ q + k \in 1 .. Len(t)
<1> DEFINE n == Len(t)
<1>1. n \in Nat /\ \A i \in 1 .. n : t[i] \in S
  OBVIOUS
<1>2. s = SubSeq(t, q + 1, n) /\ q \in 0 .. n
  OBVIOUS
<1> HIDE DEF n
<1>3. q + 1 \in Int /\ n \in Int /\ \A i \in q + 1 .. n : t[i] \in S
  BY ONLY <1>1, <1>2
<1>4. /\ SubSeq(t, q + 1, n) \in Seq(S)
      /\ Len(SubSeq(t, q + 1, n)) = IF q + 1 <= n THEN n - (q + 1) + 1 ELSE 0
      /\ \A i \in 1 .. n - (q + 1) + 1 : SubSeq(t, q + 1, n)[i] = t[(q + 1) + i - 1]
  BY ONLY <1>3, SubSeqProperties
<1>5. Len(s) = n - q
  BY ONLY <1>1, <1>2, <1>4
<1>6. ASSUME NEW k \in 1 .. n - q PROVE s[k] = t[q + k] /\ q + k \in 1 .. n
  <2>1. k \in 1 .. n - (q + 1) + 1 /\ (q + 1) + k - 1 = q + k /\ q + k \in 1 .. n
    BY ONLY <1>1, <1>2, k \in 1 .. n - q
  <2> QED BY ONLY <1>2, <1>4, <2>1
<1> QED BY <1>1, <1>2, <1>4, <1>5, <1>6 DEF n

(* The blocks behind a mark are those of the text behind the sentence.     *)
Cut(t, q, s) == q \in 1 .. Len(t) /\ EndsSentence(t, q) /\ s = SubSeq(t, q + 1, Len(t))

LEMMA RestBlocks ==
  ASSUME NEW S, NEW t \in Seq(S), {Dot, MarkTag, LessEntity} \subseteq S,
         NEW q, NEW s, Cut(t, q, s), NEW f, f = SentBlocks(t)
  PROVE  SubSeq(f, q + 1, Len(f)) = SentBlocks(s)
<1> DEFINE c == SentBlocks(s)
           d == SubSeq(f, q + 1, Len(f))
           n == Len(t)
           R == Seq(S)
<1>0. /\ {Dot, MarkTag, LessEntity} \subseteq S /\ n \in Nat /\ q \in 0 .. Len(t) /\ q \in 1 .. Len(t)
      /\ EndsSentence(t, q) /\ s = SubSeq(t, q + 1, Len(t))
  BY DEF Cut
<1>1. f \in Seq(Seq(S)) /\ Len(f) = Len(t)
  BY ONLY <1>0, t \in Seq(S), f = SentBlocks(t), SentBlocksAre
<1>2. /\ s \in Seq(S) /\ Len(s) = n - q
      /\ \A k \in 1 .. n - q : s[k] = t[q + k] /\ q + k \in 1 .. n
  BY ONLY <1>0, t \in Seq(S), Rest
<1>3. c \in Seq(Seq(S)) /\ Len(c) = Len(s)
  <2>1. c = SentBlocks(s) /\ s \in Seq(S) /\ {Dot, MarkTag, LessEntity} \subseteq S
    BY <1>2
  <2> HIDE DEF c
  <2> QED BY ONLY <2>1, SentBlocksAre
<1>4. /\ d \in Seq(R) /\ Len(d) = n - q
      /\ \A k \in 1 .. n - q : d[k] = f[q + k]
  <2>1. f \in Seq(R) /\ q \in 0 .. Len(f) /\ d = SubSeq(f, q + 1, Len(f))
    BY <1>0, <1>1
  <2> HIDE DEF R, d
  <2>2. /\ d \in Seq(R) /\ Len(d) = Len(f) - q
        /\ \A k \in 1 .. Len(f) - q : d[k] = f[q + k]
    BY ONLY <2>1, Rest
  <2> QED BY <1>1, <2>2
<1>5. ASSUME NEW k \in 1 .. n - q PROVE d[k] = c[k]
  <2>1. k \in DOMAIN s /\ q + k \in DOMAIN t /\ k \in Nat /\ q \in Nat
    BY <1>0, <1>2
  <2>2. s[k] = t[q + k]
    BY <1>2
  <2>3. EndsSentence(s, k) <=> EndsSentence(t, q + k)
    <3>1. k < Len(s) <=> q + k < n
      BY <1>0, <1>2
    <3>2. k < Len(s) => s[k + 1] = t[(q + k) + 1]
      <4> SUFFICES ASSUME k < Len(s) PROVE s[k + 1] = t[(q + k) + 1]
        OBVIOUS
      <4>1. k + 1 \in 1 .. n - q /\ q + (k + 1) = (q + k) + 1
        BY <1>0, <1>2
      <4> QED BY <1>2, <4>1
    <3> HIDE DEF n
    <3> QED BY <2>2, <3>1, <3>2 DEF EndsSentence, n
  <2>4. Fresh(s, k) <=> Fresh(t, q + k)
    <3>1. CASE k = 1
      <4>1. t[q + 1] # Dot
        BY <1>0 DEF EndsSentence, Space, Dot, NL, CR, Less
      <4> QED BY <2>2, <3>1, <4>1 DEF Fresh
    <3>2. CASE k # 1
      <4>1. k > 1 /\ q + k > 1 /\ k - 1 \in 1 .. n - q /\ q + (k - 1) = (q + k) - 1
        BY <1>0, <3>2
      <4>2. s[k - 1] = t[(q + k) - 1]
        BY <1>2, <4>1
      <4> QED BY <2>2, <4>1, <4>2 DEF Fresh
    <3> QED BY <3>1, <3>2
  <2>5. f[q + k] = IF EndsSentence(t, q + k)
                   THEN IF Fresh(t, q + k) THEN <<Dot, Dot, MarkTag>> ELSE <<Dot, MarkTag>>
                   ELSE IF Fresh(t, q + k) THEN <<Dot, Dot>> ELSE <<Entity(t[q + k])>>
    BY <2>1 DEF SentBlocks
  <2>6. c[k] = IF EndsSentence(s, k)
               THEN IF Fresh(s, k) THEN <<Dot, Dot, MarkTag>> ELSE <<Dot, MarkTag>>
               ELSE IF Fresh(s, k) THEN <<Dot, Dot>> ELSE <<Entity(s[k])>>
    BY <2>1 DEF SentBlocks
  <2> HIDE DEF c, d
  <2>7. f[q + k] = c[k]
    BY ONLY <2>2, <2>3, <2>4, <2>5, <2>6
  <2> QED BY <1>4, <2>7
<1>6. d = c
  <2>1. c \in Seq(R) /\ Len(c) = n - q
    BY <1>2, <1>3
  <2> HIDE DEF c, d, R, n
  <2> QED BY ONLY <1>4, <1>5, <2>1, SeqEqual
<1> QED BY <1>6

(* The marks are at the ends of the blocks of the sentences' ends.         *)
LEMMA MarkPlaces ==
  ASSUME NEW S, NEW t \in Seq(S), {Dot, MarkTag, LessEntity} \subseteq S,
         \A k \in 1 .. Len(t) : t[k] # MarkTag,
         NEW f, f = SentBlocks(t), NEW e, e = FlattenSeq(f)
  PROVE  /\ e \in Seq(S)
         /\ \A q \in 1 .. Len(t) : EndsSentence(t, q) => BlockEnd(f, q) \in Marks(e)
         /\ \A i \in Marks(e) : \E q \in 1 .. Len(t) : EndsSentence(t, q) /\ i = BlockEnd(f, q)
<1>0. {Dot, MarkTag, LessEntity} \subseteq S
  OBVIOUS
<1>1. f \in Seq(Seq(S)) /\ Len(f) = Len(t) /\ SentAre(t, f)
  BY ONLY <1>0, t \in Seq(S), f = SentBlocks(t), SentBlocksAre
<1>2. e \in Seq(S) /\ DOMAIN e = 1 .. Len(e) /\ Len(e) \in Nat
  <2>1. e \in Seq(S)
    BY <1>1, FlattenType
  <2> QED BY <2>1
<1>3. ASSUME NEW q \in 1 .. Len(t), EndsSentence(t, q) PROVE BlockEnd(f, q) \in Marks(e)
  <2> DEFINE p == BlockEnd(f, q - 1)
             m == Len(f[q])
  <2>1. q \in 1 .. Len(f) /\ f \in Seq(Seq(S))
    BY <1>1
  <2>2. /\ p \in Nat /\ BlockEnd(f, q) = p + m /\ BlockEnd(f, q) <= Len(e)
        /\ m \in Nat /\ \A j \in 1 .. m : e[p + j] = f[q][j]
    <3>1. p \in Nat /\ BlockEnd(f, q) = p + m /\ f[q] \in Seq(S)
      BY <2>1, UptoStep
    <3>2. m \in Nat
      BY <3>1
    <3>3. BlockEnd(f, q) <= Len(e) /\ \A j \in 1 .. m : e[p + j] = f[q][j]
      BY <2>1, Block
    <3> QED BY <3>1, <3>2, <3>3
  <2>3. m >= 1 /\ f[q][m] = MarkTag
    BY <1>1, <1>3 DEF SentAre
  <2> HIDE DEF p, m
  <2>4. e[p + m] = MarkTag /\ p + m \in 1 .. Len(e)
    BY <1>2, <2>2, <2>3
  <2> QED BY <1>2, <2>2, <2>4 DEF Marks
<1>4. ASSUME NEW i \in Marks(e)
      PROVE  \E q \in 1 .. Len(t) : EndsSentence(t, q) /\ i = BlockEnd(f, q)
  <2>1. i \in 1 .. Len(e) /\ e[i] = MarkTag
    BY <1>2 DEF Marks
  <2>2. PICK k, j : Stands(f, i, k, j)
    BY <1>1, <2>1, FlattenWhere
  <2> DEFINE p == BlockEnd(f, k - 1)
             m == Len(f[k])
  <2>3. k \in 1 .. Len(t) /\ j \in 1 .. m /\ i = p + j /\ f[k][j] = MarkTag /\ p \in Nat
    BY <1>1, <2>1, <2>2 DEF Stands
  <2>4. BlockEnd(f, k) = p + m
    BY <1>1, <2>3, UptoStep
  <2>5. Dot # MarkTag /\ Entity(t[k]) # MarkTag
    BY <2>3 DEF Dot, MarkTag, Entity, LessEntity
  <2>6. EndsSentence(t, k) /\ j = m
    <3>1. CASE EndsSentence(t, k) /\ Fresh(t, k)
      <4>1. m = 3 /\ f[k][1] = Dot /\ f[k][2] = Dot
        BY <1>1, <2>3, <3>1 DEF SentAre
      <4> HIDE DEF m
      <4>2. j = 1 \/ j = 2 \/ j = 3
        BY ONLY <2>3, <4>1
      <4> QED BY <2>3, <2>5, <3>1, <4>1, <4>2
    <3>2. CASE EndsSentence(t, k) /\ ~Fresh(t, k)
      <4>1. m = 2 /\ f[k][1] = Dot
        BY <1>1, <2>3, <3>2 DEF SentAre
      <4> HIDE DEF m
      <4>2. j = 1 \/ j = 2
        BY ONLY <2>3, <4>1
      <4> QED BY <2>3, <2>5, <3>2, <4>1, <4>2
    <3>3. CASE ~EndsSentence(t, k) /\ Fresh(t, k)
      <4>1. m = 2 /\ f[k][1] = Dot /\ f[k][2] = Dot
        BY <1>1, <2>3, <3>3 DEF SentAre
      <4> HIDE DEF m
      <4>2. j = 1 \/ j = 2
        BY ONLY <2>3, <4>1
      <4> QED BY <2>3, <2>5, <4>1, <4>2
    <3>4. CASE ~EndsSentence(t, k) /\ ~Fresh(t, k)
      <4>1. m = 1 /\ f[k][1] = Entity(t[k])
        BY <1>1, <2>3, <3>4 DEF SentAre
      <4> HIDE DEF m
      <4>2. j = 1
        BY ONLY <2>3, <4>1
      <4> QED BY <2>3, <2>5, <4>1, <4>2
    <3> QED BY <3>1, <3>2, <3>3, <3>4
  <2> QED BY <2>3, <2>4, <2>6
<1> QED BY <1>2, <1>3, <1>4

-----------------------------------------------------------------------------
(* Where the sentences of a text end, in characters and in bytes.          *)

LongBlocks(c) == [i \in DOMAIN c |-> IF c[i] = "long" THEN <<Lead, Tail2>> ELSE <<c[i]>>]

LongAre(c, f) ==
  \A k \in 1 .. Len(c) :
    /\ Len(f[k]) >= 1
    /\ c[k] = "long" => Len(f[k]) = 2 /\ f[k][1] = Lead /\ f[k][2] = Tail2
    /\ c[k] # "long" => Len(f[k]) = 1 /\ f[k][1] = c[k]

LEMMA LongBlocksAre ==
  ASSUME NEW S, NEW c, c \in Seq(S), {Lead, Tail2} \subseteq S, NEW f, f = LongBlocks(c)
  PROVE  f \in Seq(Seq(S)) /\ Len(f) = Len(c) /\ LongAre(c, f)
<1>1. f = [k \in DOMAIN c |-> f[k]] /\ DOMAIN c = 1 .. Len(c)
  BY DEF LongBlocks
<1>2. \A k \in 1 .. Len(c) : f[k] = IF c[k] = "long" THEN <<Lead, Tail2>> ELSE <<c[k]>>
  BY <1>1 DEF LongBlocks
<1>3. \A k \in 1 .. Len(c) : f[k] \in Seq(S)
  <2>1. \A k \in 1 .. Len(c) : <<c[k]>> \in Seq(S) /\ <<Lead, Tail2>> \in Seq(S)
    OBVIOUS
  <2> QED BY <1>2, <2>1, Zenon
<1>4. f \in Seq(Seq(S)) /\ Len(f) = Len(c)
  BY <1>1, <1>3, ExpandType
<1>5. ASSUME NEW k \in 1 .. Len(c)
      PROVE  /\ Len(f[k]) >= 1
             /\ c[k] = "long" => Len(f[k]) = 2 /\ f[k][1] = Lead /\ f[k][2] = Tail2
             /\ c[k] # "long" => Len(f[k]) = 1 /\ f[k][1] = c[k]
  <2>1. CASE c[k] = "long"
    <3>1. f[k] = <<Lead, Tail2>>
      BY <1>2, <2>1
    <3> QED BY ONLY <2>1, <3>1
  <2>2. CASE c[k] # "long"
    <3>1. f[k] = <<c[k]>>
      BY <1>2, <2>2
    <3> QED BY ONLY <2>2, <3>1
  <2> QED BY <2>1, <2>2
<1>6. LongAre(c, f)
  BY ONLY <1>5, Zenon DEF LongAre
<1> QED BY <1>4, <1>6

LEMMA BytesAre ==
  ASSUME NEW c PROVE Bytes(c) = FlattenSeq(LongBlocks(c))
BY Zenon DEF Bytes, Expand, LongBlocks

LEMMA SentencePlaces ==
  ASSUME NEW S, NEW c, c \in Seq(S), {Lead, Tail2} \subseteq S,
         NEW f, f = LongBlocks(c), NEW b, b = FlattenSeq(f)
  PROVE  /\ b \in Seq(S)
         /\ \A i \in 1 .. Len(c) :
              EndsSentence(c, i) => BlockEnd(f, i) \in 1 .. Len(b) /\ EndsSentence(b, BlockEnd(f, i))
         /\ \A q \in 1 .. Len(b) :
              EndsSentence(b, q) => \E i \in 1 .. Len(c) : EndsSentence(c, i) /\ q = BlockEnd(f, i)
<1>1. f \in Seq(Seq(S)) /\ Len(f) = Len(c) /\ LongAre(c, f)
  BY LongBlocksAre
<1>2. b \in Seq(S) /\ Len(b) \in Nat /\ Len(c) \in Nat
  <2>1. b \in Seq(S)
    BY <1>1, FlattenType
  <2> QED BY <2>1
<1>3. ASSUME NEW k \in 1 .. Len(c), NEW p, p = BlockEnd(f, k - 1)
      PROVE  /\ p \in Nat /\ BlockEnd(f, k) = p + Len(f[k]) /\ Len(f[k]) \in Nat
             /\ Near(f, k, b, p)
  <2>1. \A i \in 1 .. Len(f) : Len(f[i]) >= 1
    BY <1>1 DEF LongAre
  <2>2. k \in 1 .. Len(f) /\ f \in Seq(Seq(S))
    BY <1>1
  <2> QED BY ONLY <1>3, <2>1, <2>2, b = FlattenSeq(f), Neighbours
<1>4. \A x : x = Lead \/ x = Tail2 \/ x = "long" => x # Dot /\ ~Space(x) /\ x # Less
  BY DEF Lead, Tail2, Dot, Space, NL, CR, Less
<1>5. ASSUME NEW k \in 1 .. Len(c), k < Len(c)
      PROVE  Space(f[k + 1][1]) \/ f[k + 1][1] = Less <=> Space(c[k + 1]) \/ c[k + 1] = Less
  <2>1. k + 1 \in 1 .. Len(c)
    BY <1>2, <1>5
  <2>2. CASE c[k + 1] = "long"
    <3>1. f[k + 1][1] = Lead
      BY <1>1, <2>1, <2>2 DEF LongAre
    <3> QED BY <1>4, <2>2, <3>1
  <2>3. CASE c[k + 1] # "long"
    <3>1. f[k + 1][1] = c[k + 1]
      BY <1>1, <2>1, <2>3 DEF LongAre
    <3> QED BY <3>1
  <2> QED BY <2>2, <2>3
<1>6. ASSUME NEW i \in 1 .. Len(c), EndsSentence(c, i)
      PROVE  BlockEnd(f, i) \in 1 .. Len(b) /\ EndsSentence(b, BlockEnd(f, i))
  <2> DEFINE p == BlockEnd(f, i - 1)
             m == Len(f[i])
  <2>1. p \in Nat /\ BlockEnd(f, i) = p + m /\ Near(f, i, b, p)
    <3>1. p = BlockEnd(f, i - 1)
      OBVIOUS
    <3> HIDE DEF p
    <3> QED BY <1>3, <3>1
  <2>2. m = 1 /\ f[i][1] = Dot /\ c[i] = Dot /\ i < Len(c) /\ i < Len(f)
    <3>1. c[i] = Dot /\ i < Len(c) /\ c[i] # "long"
      BY <1>4, <1>6 DEF EndsSentence
    <3> QED BY <1>1, <3>1 DEF LongAre
  <2>3. p + m < Len(b) /\ b[p + m + 1] = f[i + 1][1] /\ b[p + 1] = f[i][1]
    BY <2>1, <2>2 DEF Near
  <2> HIDE DEF p, m
  <2>4. p + 1 \in 1 .. Len(b) /\ BlockEnd(f, i) = p + 1 /\ p + 1 < Len(b)
        /\ b[(p + 1) + 1] = f[i + 1][1] /\ b[p + 1] = Dot
    BY <1>2, <2>1, <2>2, <2>3
  <2>5. Space(f[i + 1][1]) \/ f[i + 1][1] = Less
    BY <1>5, <1>6, <2>2 DEF EndsSentence
  <2> QED BY <2>4, <2>5 DEF EndsSentence
<1>7. ASSUME NEW q \in 1 .. Len(b), EndsSentence(b, q)
      PROVE  \E i \in 1 .. Len(c) : EndsSentence(c, i) /\ q = BlockEnd(f, i)
  <2>1. PICK k, j : Stands(f, q, k, j)
    BY <1>1, FlattenWhere
  <2> DEFINE p == BlockEnd(f, k - 1)
             m == Len(f[k])
  <2>2. k \in 1 .. Len(c) /\ j \in 1 .. m /\ q = p + j /\ b[q] = f[k][j]
    BY <1>1, <2>1 DEF Stands
  <2>3. p \in Nat /\ BlockEnd(f, k) = p + m /\ Near(f, k, b, p)
    <3>1. p = BlockEnd(f, k - 1)
      OBVIOUS
    <3> HIDE DEF p, m
    <3> QED BY <1>3, <2>2, <3>1 DEF m
  <2>4. b[q] = Dot /\ q < Len(b) /\ (Space(b[q + 1]) \/ b[q + 1] = Less)
    BY <1>7 DEF EndsSentence
  <2>5. c[k] # "long"
    <3> SUFFICES ASSUME c[k] = "long" PROVE FALSE
      OBVIOUS
    <3>1. m = 2 /\ f[k][1] = Lead /\ f[k][2] = Tail2
      BY <1>1, <2>2 DEF LongAre
    <3> HIDE DEF m
    <3>2. j = 1 \/ j = 2
      BY ONLY <2>2, <3>1
    <3> QED BY <1>4, <2>2, <2>4, <3>1, <3>2
  <2>6. m = 1 /\ f[k][1] = c[k]
    BY <1>1, <2>2, <2>5 DEF LongAre
  <2>7. j = 1
    <3> HIDE DEF m
    <3> QED BY ONLY <2>2, <2>6
  <2>8. k < Len(c)
    <3> SUFFICES ASSUME k = Len(f) PROVE FALSE
      BY <1>1, <1>2, <2>2
    <3>1. p + m = Len(b)
      BY <2>3 DEF Near
    <3> HIDE DEF p, m
    <3> QED BY <2>2, <2>4, <2>6, <2>7, <3>1
  <2>9. b[q + 1] = f[k + 1][1]
    <3>1. k < Len(f)
      BY <1>1, <2>8
    <3>2. b[p + m + 1] = f[k + 1][1]
      BY <2>3, <3>1 DEF Near
    <3>3. p + m + 1 = q + 1
      BY <2>2, <2>6, <2>7
    <3> QED BY <3>2, <3>3
  <2>10. EndsSentence(c, k)
    BY <1>5, <2>2, <2>4, <2>6, <2>7, <2>8, <2>9 DEF EndsSentence
  <2>11. q = BlockEnd(f, k)
    BY <2>2, <2>3, <2>6, <2>7
  <2> QED BY <2>2, <2>10, <2>11
<1> QED BY <1>2, <1>6, <1>7

LEMMA BytesRest ==
  ASSUME NEW S, NEW c, c \in Seq(S), {Lead, Tail2} \subseteq S, NEW i, i \in 1 .. Len(c),
         NEW f, f = LongBlocks(c), NEW b, b = FlattenSeq(f)
  PROVE  SubSeq(b, BlockEnd(f, i) + 1, Len(b)) = Bytes(SubSeq(c, i + 1, Len(c)))
<1> DEFINE s == SubSeq(c, i + 1, Len(c))
           g == LongBlocks(s)
           d == SubSeq(f, i + 1, Len(f))
           n == Len(c)
           R == Seq(S)
<1>0. {Lead, Tail2} \subseteq S /\ n \in Nat /\ i \in 0 .. Len(c)
  OBVIOUS
<1>1. f \in Seq(Seq(S)) /\ Len(f) = Len(c)
  BY ONLY <1>0, c \in Seq(S), f = LongBlocks(c), LongBlocksAre
<1>2. /\ s \in Seq(S) /\ Len(s) = n - i
      /\ \A k \in 1 .. n - i : s[k] = c[i + k] /\ i + k \in 1 .. n
  <2>1. s = SubSeq(c, i + 1, Len(c))
    OBVIOUS
  <2> HIDE DEF s
  <2> QED BY ONLY <1>0, <2>1, c \in Seq(S), Rest
<1> HIDE DEF s
<1>3. g \in Seq(Seq(S)) /\ Len(g) = Len(s)
  <2>1. g = LongBlocks(s)
    OBVIOUS
  <2> HIDE DEF g
  <2> QED BY ONLY <1>0, <1>2, <2>1, LongBlocksAre
<1>4. /\ d \in Seq(R) /\ Len(d) = n - i
      /\ \A k \in 1 .. n - i : d[k] = f[i + k]
  <2>1. f \in Seq(R) /\ i \in 0 .. Len(f) /\ d = SubSeq(f, i + 1, Len(f))
    BY <1>0, <1>1
  <2> HIDE DEF R, d
  <2>2. /\ d \in Seq(R) /\ Len(d) = Len(f) - i
        /\ \A k \in 1 .. Len(f) - i : d[k] = f[i + k]
    BY ONLY <2>1, Rest
  <2> QED BY <1>1, <2>2
<1>5. ASSUME NEW k \in 1 .. n - i PROVE d[k] = g[k]
  <2>1. k \in DOMAIN s /\ i + k \in DOMAIN c
    BY <1>0, <1>2
  <2>2. s[k] = c[i + k]
    BY <1>2
  <2>3. f[i + k] = IF c[i + k] = "long" THEN <<Lead, Tail2>> ELSE <<c[i + k]>>
    BY <2>1 DEF LongBlocks
  <2>4. g[k] = IF s[k] = "long" THEN <<Lead, Tail2>> ELSE <<s[k]>>
    BY <2>1 DEF LongBlocks
  <2> HIDE DEF g, d
  <2>5. f[i + k] = g[k]
    BY ONLY <2>2, <2>3, <2>4
  <2> QED BY <1>4, <2>5
<1>6. d = g
  <2>1. g \in Seq(R) /\ Len(g) = n - i
    BY <1>2, <1>3
  <2> HIDE DEF g, d, R, n
  <2> QED BY ONLY <1>4, <1>5, <2>1, SeqEqual
<1>7. SubSeq(b, BlockEnd(f, i) + 1, Len(b)) = FlattenSeq(d)
  <2>1. f \in Seq(Seq(S)) /\ i \in 0 .. Len(f) /\ d = SubSeq(f, i + 1, Len(f))
    BY <1>0, <1>1
  <2> HIDE DEF d
  <2>2. SubSeq(b, BlockEnd(f, i) + 1, Len(b)) = FlattenSeq(SubSeq(f, i + 1, Len(f)))
    BY ONLY <2>1, b = FlattenSeq(f), BlocksBehind
  <2> QED BY <2>1, <2>2
<1>8. FlattenSeq(g) = Bytes(s)
  BY BytesAre
<1> QED BY <1>6, <1>7, <1>8 DEF s

(* A text between its tags has the same sentences.                         *)
LEMMA TaggedEnds ==
  ASSUME NEW S, NEW b, b \in Seq(S), {SpeakTag, EndTag} \subseteq S,
         NEW t, t = <<SpeakTag>> \o b \o <<EndTag>>
  PROVE  /\ \A q \in 1 .. Len(b) : EndsSentence(b, q) => q + 1 \in 1 .. Len(t) /\ EndsSentence(t, q + 1)
         /\ \A k \in 1 .. Len(t) :
              EndsSentence(t, k) => k - 1 \in 1 .. Len(b) /\ (k - 1) + 1 = k /\ EndsSentence(b, k - 1)
         /\ \A q \in 1 .. Len(b) :
              q < Len(b) => SubSeq(t, (q + 1) + 1, Len(t)) = SubSeq(b, q + 1, Len(b)) \o <<EndTag>>
<1> DEFINE n == Len(b)
<1>1. /\ t \in Seq(S) /\ n \in Nat /\ Len(t) = n + 2
      /\ t[1] = SpeakTag /\ t[n + 2] = EndTag
      /\ \A k \in 1 .. n : t[k + 1] = b[k]
  BY ONLY b \in Seq(S), {SpeakTag, EndTag} \subseteq S, t = <<SpeakTag>> \o b \o <<EndTag>>, Tagged
<1>2. SpeakTag # Dot /\ EndTag # Dot /\ ~Space(EndTag) /\ EndTag # Less
  BY DEF SpeakTag, EndTag, Dot, Less, Space, NL, CR
<1>3. ASSUME NEW q \in 1 .. n
      PROVE  q + 1 \in 1 .. Len(t) /\ (EndsSentence(t, q + 1) <=> EndsSentence(b, q))
  <2>1. q + 1 \in 1 .. Len(t) /\ q + 1 < Len(t) /\ t[q + 1] = b[q]
    BY <1>1
  <2>2. CASE q < n
    <3>1. q + 1 \in 1 .. n
      BY <1>1, <2>2
    <3>2. t[(q + 1) + 1] = b[q + 1]
      BY <1>1, <3>1
    <3> QED BY <2>1, <2>2, <3>2 DEF EndsSentence
  <2>3. CASE ~(q < n)
    <3>1. (q + 1) + 1 = n + 2
      BY <1>1, <2>3
    <3>2. t[(q + 1) + 1] = EndTag
      BY <1>1, <3>1
    <3> QED BY <1>2, <2>1, <2>3, <3>2 DEF EndsSentence
  <2> QED BY <2>2, <2>3
<1>4. ASSUME NEW k \in 1 .. Len(t), EndsSentence(t, k)
      PROVE  k - 1 \in 1 .. n /\ (k - 1) + 1 = k /\ EndsSentence(b, k - 1)
  <2>1. t[k] = Dot /\ k < Len(t)
    BY <1>4 DEF EndsSentence
  <2>2. k # 1
    BY <1>1, <1>2, <2>1
  <2>3. k - 1 \in 1 .. n /\ (k - 1) + 1 = k
    <3> HIDE DEF n
    <3> QED BY ONLY <1>1, <2>1, <2>2, k \in 1 .. Len(t)
  <2>4. EndsSentence(t, (k - 1) + 1) <=> EndsSentence(b, k - 1)
    <3> DEFINE m == k - 1
    <3>1. m \in 1 .. n
      BY <2>3
    <3> HIDE DEF m
    <3>2. EndsSentence(t, m + 1) <=> EndsSentence(b, m)
      BY <1>3, <3>1
    <3> QED BY <3>2 DEF m
  <2> QED BY <1>4, <2>3, <2>4
<1>5. ASSUME NEW q \in 1 .. n, q < n
      PROVE  SubSeq(t, (q + 1) + 1, Len(t)) = SubSeq(b, q + 1, Len(b)) \o <<EndTag>>
  <2> DEFINE u == SubSeq(b, q + 1, Len(b))
             v == u \o <<EndTag>>
             s == SubSeq(t, (q + 1) + 1, Len(t))
             r == q + 1
  <2>1. /\ u \in Seq(S) /\ Len(u) = n - q
        /\ \A k \in 1 .. n - q : u[k] = b[q + k] /\ q + k \in 1 .. n
    <3>1. q \in 0 .. Len(b) /\ u = SubSeq(b, q + 1, Len(b))
      OBVIOUS
    <3> HIDE DEF u
    <3> QED BY ONLY <3>1, b \in Seq(S), Rest
  <2>2. /\ s \in Seq(S) /\ Len(s) = Len(t) - r
        /\ \A k \in 1 .. Len(t) - r : s[k] = t[r + k] /\ r + k \in 1 .. Len(t)
    <3>1. r \in 0 .. Len(t) /\ s = SubSeq(t, r + 1, Len(t)) /\ t \in Seq(S)
      BY <1>1
    <3> HIDE DEF s, r
    <3>2. /\ s \in Seq(S) /\ Len(s) = Len(t) - r /\ Len(t) \in Nat /\ r \in Nat
          /\ \A k \in 1 .. Len(t) - r : s[k] = t[r + k] /\ r + k \in 1 .. Len(t)
      BY ONLY <3>1, Rest
    <3> QED BY <3>2
  <2> HIDE DEF u
  <2>3. /\ v \in Seq(S) /\ Len(v) = Len(u) + 1 /\ v[Len(u) + 1] = EndTag
        /\ \A k \in 1 .. Len(u) : v[k] = u[k]
    <3>1. EndTag \in S /\ v = u \o <<EndTag>> /\ u \in Seq(S)
      BY <2>1
    <3> HIDE DEF v
    <3>2. /\ v \in Seq(S) /\ Len(u) \in Nat /\ Len(v) = Len(u) + 1 /\ v[Len(u) + 1] = EndTag
          /\ \A k \in 1 .. Len(u) : v[k] = u[k]
          /\ SubSeq(v, 1, Len(u)) = u
      BY ONLY <3>1, Ended
    <3> QED BY <3>2
  <2> HIDE DEF v, s
  <2>4. q \in Nat /\ Len(s) = (n - q) + 1 /\ Len(v) = (n - q) + 1
    BY ONLY <1>1, <2>1, <2>2, <2>3, q \in 1 .. n DEF r
  <2>5. ASSUME NEW k \in 1 .. (n - q) + 1 PROVE s[k] = v[k]
    <3>1. s[k] = t[r + k]
      <4>1. k \in 1 .. Len(t) - r
        BY <1>1
      <4> QED BY <2>2, <4>1
    <3>2. CASE k \in 1 .. n - q
      <4>1. v[k] = b[q + k] /\ q + k \in 1 .. n
        BY <2>1, <2>3, <3>2
      <4>2. t[(q + k) + 1] = b[q + k]
        BY <1>1, <4>1
      <4>3. r + k = (q + k) + 1
        BY <2>4
      <4> HIDE DEF r
      <4> QED BY ONLY <3>1, <4>1, <4>2, <4>3
    <3>3. CASE k \notin 1 .. n - q
      <4>1. k = Len(u) + 1 /\ r + k = n + 2
        <5>1. q \in Nat /\ n \in Nat /\ Len(u) = n - q /\ r = q + 1 /\ q < n
          BY <1>1, <1>5, <2>1, <2>4
        <5> HIDE DEF n, r
        <5> QED BY ONLY <3>3, <5>1, k \in 1 .. (n - q) + 1
      <4> HIDE DEF r
      <4> QED BY ONLY <1>1, <2>3, <3>1, <4>1
    <3> QED BY <3>2, <3>3
  <2>6. s = v
    <3>1. Len(s) = Len(v) /\ \A k \in 1 .. Len(s) : s[k] = v[k]
      BY <2>4, <2>5
    <3> QED BY ONLY <2>2, <2>3, <3>1, SeqEqual
  <2> QED BY <2>6 DEF s, v, u
<1> QED BY <1>3, <1>4, <1>5

(* The text of a message has no tags.                                      *)
LEMMA TextUntagged ==
  ASSUME NEW c, c \in Seq(Alphabet)
  PROVE  /\ c \in Seq(Elements) /\ Bytes(c) \in Seq(Elements)
         /\ \A i \in 1 .. Len(Bytes(c)) : Bytes(c)[i] \notin Tags \cup {LessEntity}
         /\ c # <<>> => Bytes(c) # <<>>
<1> DEFINE f == LongBlocks(c)
           b == FlattenSeq(f)
<1>1. c \in Seq(Elements) /\ {Lead, Tail2} \subseteq Elements
  <2>1. \A i \in 1 .. Len(c) : c[i] \in Elements
    BY DEF Elements
  <2> QED BY <2>1 DEF Elements
<1>2. f \in Seq(Seq(Elements)) /\ Len(f) = Len(c) /\ LongAre(c, f)
  <2>1. f = LongBlocks(c)
    OBVIOUS
  <2> HIDE DEF f
  <2> QED BY ONLY <1>1, <2>1, LongBlocksAre
<1>3. b = Bytes(c)
  BY BytesAre
<1> HIDE DEF f
<1>4. b \in Seq(Elements)
  BY <1>2, FlattenType
<1>5. ASSUME NEW i \in 1 .. Len(b) PROVE b[i] \notin Tags \cup {LessEntity}
  <2>1. PICK k, j : Stands(f, i, k, j)
    BY <1>2, FlattenWhere
  <2> DEFINE m == Len(f[k])
  <2>2. k \in 1 .. Len(c) /\ j \in 1 .. m /\ b[i] = f[k][j]
    BY <1>2, <2>1 DEF Stands
  <2>3. Lead \notin Tags \cup {LessEntity} /\ Tail2 \notin Tags \cup {LessEntity}
    BY DEF Lead, Tail2, Tags, SpeakTag, EndTag, MarkTag, LessEntity
  <2>4. c[k] \notin Tags \cup {LessEntity}
    <3>1. c[k] \in Alphabet
      BY <2>2
    <3> QED BY <3>1, InputAssumption DEF Tags
  <2>5. CASE c[k] = "long"
    <3>1. m = 2 /\ f[k][1] = Lead /\ f[k][2] = Tail2
      BY <1>2, <2>2, <2>5 DEF LongAre
    <3> HIDE DEF m
    <3>2. j = 1 \/ j = 2
      BY ONLY <2>2, <3>1
    <3> QED BY <2>2, <2>3, <3>1, <3>2
  <2>6. CASE c[k] # "long"
    <3>1. m = 1 /\ f[k][1] = c[k]
      BY <1>2, <2>2, <2>6 DEF LongAre
    <3> HIDE DEF m
    <3>2. j = 1
      BY ONLY <2>2, <3>1
    <3> QED BY <2>2, <2>4, <3>1, <3>2
  <2> QED BY <2>5, <2>6
<1>6. c # <<>> => b # <<>>
  <2> SUFFICES ASSUME c # <<>> PROVE b # <<>>
    OBVIOUS
  <2>1. Len(f) >= 1 /\ Len(f[1]) >= 1
    <3>1. 1 \in 1 .. Len(c) /\ Len(c) >= 1
      OBVIOUS
    <3> QED BY <1>2, <3>1 DEF LongAre
  <2> QED BY <1>2, <2>1, FlattenNonempty
<1> QED BY <1>1, <1>3, <1>4, <1>5, <1>6

(* Every sentence's end has its mark, in their order.                      *)
LEMMA MarksResume ==
  ASSUME said \in Seq(Alphabet), buf = ModuleEscaped(Marked(Bytes(said)))
  PROVE  /\ Cardinality(Marks(buf)) = Cardinality(SentenceEnds)
         /\ \A i \in SentenceEnds :
              LET n == Cardinality({j \in SentenceEnds : j < i})
              IN  Plain(Stripped(AfterMark(buf, n))) = Bytes(SubSeq(said, i + 1, Len(said)))
<1> DEFINE S == Elements
           g == LongBlocks(said)
           b == FlattenSeq(g)
           t == <<SpeakTag>> \o b \o <<EndTag>>
           f == SentBlocks(t)
           e == FlattenSeq(f)
           Place(i) == BlockEnd(f, BlockEnd(g, i) + 1)
<1>1. /\ {Dot, MarkTag, LessEntity} \subseteq S /\ {Dot, MarkTag, Less, LessEntity, EndTag} \subseteq S
      /\ {Dot, MarkTag, LessEntity, SpeakTag, EndTag} \subseteq S
      /\ {SpeakTag, EndTag} \subseteq S /\ {Lead, Tail2} \subseteq S
  BY DEF Elements
<1>2. /\ said \in Seq(S) /\ b \in Seq(S) /\ b = Bytes(said)
      /\ \A i \in 1 .. Len(b) : b[i] \notin Tags \cup {LessEntity}
  <2>1. Bytes(said) = b
    BY BytesAre
  <2> QED BY <2>1, TextUntagged
<1>3. g \in Seq(Seq(S)) /\ Len(g) = Len(said) /\ LongAre(said, g) /\ g = LongBlocks(said)
  <2>1. g = LongBlocks(said)
    OBVIOUS
  <2> HIDE DEF g, S
  <2> QED BY ONLY <1>1, <1>2, <2>1, LongBlocksAre
<1>4. b = FlattenSeq(g)
  OBVIOUS
<1> HIDE DEF S, g, b
<1>5. /\ t \in Seq(S) /\ Len(b) \in Nat /\ Len(t) = Len(b) + 2
      /\ t[1] = SpeakTag /\ t[Len(b) + 2] = EndTag
      /\ \A k \in 1 .. Len(b) : t[k + 1] = b[k]
  BY ONLY <1>1, <1>2, Tagged
<1>6. t = <<SpeakTag>> \o b \o <<EndTag>>
  OBVIOUS
<1> HIDE DEF t
<1>7. \A k \in 1 .. Len(t) : t[k] # MarkTag
  <2> SUFFICES ASSUME NEW k \in 1 .. Len(t) PROVE t[k] # MarkTag
    OBVIOUS
  <2>1. SpeakTag # MarkTag /\ EndTag # MarkTag
    BY DEF SpeakTag, MarkTag, EndTag
  <2>2. CASE k = 1 \/ k = Len(b) + 2
    BY <1>5, <2>1, <2>2
  <2>3. CASE k # 1 /\ k # Len(b) + 2
    <3>1. k - 1 \in 1 .. Len(b) /\ (k - 1) + 1 = k
      BY <1>5, <2>3
    <3>2. t[k] = b[k - 1]
      BY <1>5, <3>1
    <3> QED BY <1>2, <3>1, <3>2 DEF Tags
  <2> QED BY <2>2, <2>3
<1>8. f \in Seq(Seq(S)) /\ Len(f) = Len(t) /\ SentAre(t, f) /\ f = SentBlocks(t)
  <2>1. f = SentBlocks(t)
    OBVIOUS
  <2> HIDE DEF f
  <2> QED BY ONLY <1>1, <1>5, <2>1, SentBlocksAre
<1> HIDE DEF f
<1>9. e = FlattenSeq(f)
  OBVIOUS
<1> HIDE DEF e
<1>10. buf = e
  <2>1. Marked(b) = FlattenSeq(MarkedBlocks(t))
    BY ONLY <1>1, <1>2, <1>6, MarkedIs
  <2>2. Len(t) >= 1 => t[1] # Dot
    BY <1>5 DEF SpeakTag, Dot
  <2> DEFINE c == MarkedBlocks(t)
  <2>3. c = MarkedBlocks(t)
    OBVIOUS
  <2> HIDE DEF c
  <2>4. ModuleEscaped(FlattenSeq(c)) = FlattenSeq(f)
    BY ONLY <1>1, <1>5, <1>8, <2>2, <2>3, EscapedIs
  <2> QED BY <1>2, <1>9, <2>1, <2>3, <2>4
<1>11. /\ \A q \in 1 .. Len(t) : EndsSentence(t, q) => BlockEnd(f, q) \in Marks(e)
       /\ \A i \in Marks(e) : \E q \in 1 .. Len(t) : EndsSentence(t, q) /\ i = BlockEnd(f, q)
       /\ e \in Seq(S)
  BY ONLY <1>1, <1>5, <1>7, <1>8, <1>9, MarkPlaces
<1>12. /\ \A i \in 1 .. Len(said) :
            EndsSentence(said, i) => BlockEnd(g, i) \in 1 .. Len(b) /\ EndsSentence(b, BlockEnd(g, i))
       /\ \A q \in 1 .. Len(b) :
            EndsSentence(b, q) => \E i \in 1 .. Len(said) : EndsSentence(said, i) /\ q = BlockEnd(g, i)
  BY ONLY <1>1, <1>2, <1>3, <1>4, SentencePlaces
<1>13. /\ \A q \in 1 .. Len(b) : EndsSentence(b, q) => q + 1 \in 1 .. Len(t) /\ EndsSentence(t, q + 1)
       /\ \A k \in 1 .. Len(t) :
            EndsSentence(t, k) => k - 1 \in 1 .. Len(b) /\ (k - 1) + 1 = k /\ EndsSentence(b, k - 1)
       /\ \A q \in 1 .. Len(b) :
            q < Len(b) => SubSeq(t, (q + 1) + 1, Len(t)) = SubSeq(b, q + 1, Len(b)) \o <<EndTag>>
  <2>1. b \in Seq(S) /\ {SpeakTag, EndTag} \subseteq S
    BY <1>1, <1>2
  <2> QED BY ONLY <1>6, <2>1, TaggedEnds
<1>14. /\ DOMAIN said = 1 .. Len(said) /\ Len(said) \in Nat
       /\ \A i : i \in SentenceEnds <=> i \in 1 .. Len(said) /\ EndsSentence(said, i)
  BY <1>2 DEF SentenceEnds, EndsSentence
<1>15. SentenceEnds \subseteq Nat /\ IsFiniteSet(SentenceEnds) /\ Marks(e) \subseteq Nat
  <2>1. SentenceEnds \in SUBSET (1 .. Len(said))
    BY <1>14
  <2>2. IsFiniteSet(1 .. Len(said))
    BY <1>14, FS_Interval
  <2>3. Marks(e) \subseteq Nat
    BY <1>11 DEF Marks
  <2> QED BY <1>14, <2>1, <2>2, <2>3, FS_Subset
<1>16. ASSUME NEW i \in SentenceEnds
       PROVE  /\ BlockEnd(g, i) \in 1 .. Len(b) /\ EndsSentence(b, BlockEnd(g, i))
              /\ BlockEnd(g, i) + 1 \in 1 .. Len(t) /\ EndsSentence(t, BlockEnd(g, i) + 1)
              /\ Place(i) \in Marks(e)
  BY <1>11, <1>12, <1>13, <1>14
<1> DEFINE h == [i \in SentenceEnds |-> Place(i)]
<1>17. h \in [SentenceEnds -> Marks(e)] /\ \A i \in SentenceEnds : h[i] = Place(i)
  BY <1>16
<1>18. ASSUME NEW i \in SentenceEnds, NEW j \in SentenceEnds, i < j
       PROVE  h[i] < h[j]
  <2>1. \A k \in 1 .. Len(g) : Len(g[k]) >= 1
    BY <1>3 DEF LongAre
  <2>2. \A k \in 1 .. Len(f) : Len(f[k]) >= 1
    BY <1>8 DEF SentAre
  <2>3. i \in 0 .. Len(g) /\ j \in 0 .. Len(g)
    BY <1>3, <1>14
  <2> DEFINE p == BlockEnd(g, i)
             q == BlockEnd(g, j)
  <2>4. p < q /\ p \in Nat /\ q \in Nat
    BY ONLY <1>3, <1>18, <2>1, <2>3, BlocksInOrder
  <2>5. p + 1 \in 0 .. Len(f) /\ q + 1 \in 0 .. Len(f) /\ p + 1 < q + 1
    <3>1. p + 1 \in 1 .. Len(t) /\ q + 1 \in 1 .. Len(t)
      BY <1>16
    <3> HIDE DEF p, q
    <3> QED BY <1>8, <2>4, <3>1
  <2>6. Place(i) = BlockEnd(f, p + 1) /\ Place(j) = BlockEnd(f, q + 1)
    OBVIOUS
  <2> HIDE DEF p, q, Place, h
  <2> DEFINE x == p + 1
             y == q + 1
  <2>7. x \in 0 .. Len(f) /\ y \in 0 .. Len(f) /\ x < y
    BY <2>5
  <2> HIDE DEF x, y
  <2>8. BlockEnd(f, x) < BlockEnd(f, y)
    BY ONLY <1>8, <2>2, <2>7, BlocksInOrder
  <2> QED BY <1>17, <2>6, <2>8 DEF x, y
<1>19. ASSUME NEW m \in Marks(e) PROVE \E i \in SentenceEnds : h[i] = m
  <2>1. PICK k \in 1 .. Len(t) : EndsSentence(t, k) /\ m = BlockEnd(f, k)
    BY <1>11
  <2>2. k - 1 \in 1 .. Len(b) /\ (k - 1) + 1 = k /\ EndsSentence(b, k - 1)
    BY <1>13, <2>1
  <2>3. PICK i \in 1 .. Len(said) : EndsSentence(said, i) /\ k - 1 = BlockEnd(g, i)
    BY <1>12, <2>2
  <2>4. i \in SentenceEnds
    BY <1>14, <2>3
  <2>5. Place(i) = m
    BY <2>1, <2>2, <2>3
  <2> HIDE DEF h, Place
  <2> QED BY <1>17, <2>4, <2>5
<1>20. /\ Cardinality(Marks(e)) = Cardinality(SentenceEnds)
       /\ \A k \in SentenceEnds :
            Cardinality({j \in Marks(e) : j < h[k]}) = Cardinality({i \in SentenceEnds : i < k})
       /\ \A m \in Marks(e), k \in SentenceEnds :
            Cardinality({j \in Marks(e) : j < m}) = Cardinality({i \in SentenceEnds : i < k}) => m = h[k]
  <2> HIDE DEF h
  <2>1. /\ \A i, j \in SentenceEnds : i < j => h[i] < h[j]
        /\ \A m \in Marks(e) : \E i \in SentenceEnds : h[i] = m
    BY <1>18, <1>19
  <2> QED BY ONLY <1>15, <1>17, <2>1, SameRank
<1>21. ASSUME NEW i \in SentenceEnds, NEW n, n = Cardinality({j \in SentenceEnds : j < i})
       PROVE  Plain(Stripped(AfterMark(e, n))) = Bytes(SubSeq(said, i + 1, Len(said)))
  <2> DEFINE q == BlockEnd(g, i)
             u == SubSeq(b, q + 1, Len(b))
             s == SubSeq(t, (q + 1) + 1, Len(t))
  <2>1. q \in 1 .. Len(b) /\ EndsSentence(b, q) /\ q + 1 \in 1 .. Len(t) /\ EndsSentence(t, q + 1)
        /\ h[i] = BlockEnd(f, q + 1)
    BY <1>16, <1>17
  <2>2. (CHOOSE m \in Marks(e) : Cardinality({j \in Marks(e) : j < m}) = n) = h[i]
    <3>1. h[i] \in Marks(e) /\ Cardinality({j \in Marks(e) : j < h[i]}) = n
      BY <1>16, <1>17, <1>20, <1>21
    <3>2. \A m \in Marks(e) : Cardinality({j \in Marks(e) : j < m}) = n => m = h[i]
      BY <1>20, <1>21
    <3> HIDE DEF h
    <3> QED BY ONLY <3>1, <3>2
  <2> HIDE DEF h, q
  <2>3. AfterMark(e, n) = SubSeq(e, BlockEnd(f, q + 1) + 1, Len(e))
    <3>1. h[i] \in Nat
      BY <1>15, <1>17
    <3>2. AfterMark(e, n) = SubSeq(e, 1 + h[i], Len(e))
      BY <2>2 DEF AfterMark
    <3>3. 1 + h[i] = h[i] + 1
      BY <3>1
    <3> QED BY <2>1, <3>2, <3>3
  <2>4. AfterMark(e, n) = FlattenSeq(SentBlocks(s))
    <3> DEFINE r == q + 1
    <3>1. r \in 1 .. Len(t) /\ EndsSentence(t, r) /\ r \in 0 .. Len(f) /\ s = SubSeq(t, r + 1, Len(t))
      BY <1>8, <2>1
    <3>2. AfterMark(e, n) = SubSeq(e, BlockEnd(f, r) + 1, Len(e))
      BY <2>3
    <3> HIDE DEF r, s
    <3>3. SubSeq(f, r + 1, Len(f)) = SentBlocks(s)
      <4>1. /\ t \in Seq(S) /\ {Dot, MarkTag, LessEntity} \subseteq S /\ f = SentBlocks(t)
            /\ Cut(t, r, s)
        BY <1>1, <1>5, <1>8, <3>1 DEF Cut
      <4> QED BY ONLY <4>1, RestBlocks
    <3>4. SubSeq(e, BlockEnd(f, r) + 1, Len(e)) = FlattenSeq(SubSeq(f, r + 1, Len(f)))
      BY ONLY <1>8, <1>9, <3>1, BlocksBehind
    <3> QED BY <3>2, <3>3, <3>4
  <2>5. q < Len(b)
    BY <2>1 DEF EndsSentence
  <2>6. s = u \o <<EndTag>>
    BY <1>13, <2>1, <2>5
  <2>7. u \in Seq(S) /\ \A k \in 1 .. Len(u) : u[k] \notin Tags \cup {LessEntity}
    <3>1. q \in 0 .. Len(b) /\ u = SubSeq(b, q + 1, Len(b))
      BY <2>1
    <3> HIDE DEF u
    <3>2. /\ u \in Seq(S) /\ Len(u) = Len(b) - q
          /\ \A k \in 1 .. Len(b) - q : u[k] = b[q + k] /\ q + k \in 1 .. Len(b)
      BY ONLY <1>2, <3>1, Rest
    <3> QED BY <1>2, <3>2
  <2>8. u = Bytes(SubSeq(said, i + 1, Len(said)))
    <3>1. i \in 1 .. Len(said)
      BY <1>14
    <3>2. SubSeq(b, BlockEnd(g, i) + 1, Len(b)) = Bytes(SubSeq(said, i + 1, Len(said)))
      BY ONLY <1>1, <1>2, <1>3, <1>4, <3>1, BytesRest
    <3> QED BY <3>2 DEF q
  <2> HIDE DEF u, s
  <2>9. Plain(Stripped(FlattenSeq(SentBlocks(s)))) = u
    BY ONLY <1>1, <2>6, <2>7, PlainAgain
  <2> QED BY <2>4, <2>8, <2>9
<1> HIDE DEF h
<1>22. Cardinality(Marks(buf)) = Cardinality(SentenceEnds)
  BY <1>10, <1>20
<1>23. ASSUME NEW i \in SentenceEnds
       PROVE  LET n == Cardinality({j \in SentenceEnds : j < i})
              IN  Plain(Stripped(AfterMark(buf, n))) = Bytes(SubSeq(said, i + 1, Len(said)))
  BY <1>10, <1>21
<1> QED BY <1>22, <1>23

(* What the server keeps of a text, however many lines it has.             *)
KeptInv ==
  /\ said \in Seq(Alphabet) /\ said # <<>>
  /\ kind = "text" /\ server = "prepare" => buf = Bytes(said)
  /\ kind = "text" /\ server \in {"text", "end", "done"} => buf = ModuleEscaped(Marked(Bytes(said)))

LEMMA KeptRight ==
  ASSUME KeptInv, [InputNext]_inputVars
  PROVE  KeptInv'
<1> USE DEF KeptInv
<1>1. CASE Receive
  <2>1. said' = said /\ kind' = kind /\ server' = "prepare"
    BY <1>1 DEF Receive
  <2>2. kind = "text" => buf' = Bytes(said)
    <3> SUFFICES ASSUME kind = "text" PROVE buf' = Bytes(said)
      OBVIOUS
    <3> DEFINE b == Bytes(said)
    <3>1. b \in Seq(Elements) /\ b # <<>>
      BY TextUntagged
    <3>2. {NL, CR, Dot} \subseteq Elements
      BY DEF Elements
    <3>3. buf' = Deescaped(Collected(ClientEscaped(b) \o Terminator))
      BY <1>1 DEF Receive
    <3> HIDE DEF b
    <3>4. Collected(ClientEscaped(b) \o Terminator) = ClientEscaped(b)
      BY ONLY <3>1, <3>2, CollectedIsSent
    <3>5. Deescaped(ClientEscaped(b)) = b
      BY ONLY <3>1, ClientDotsUndone
    <3> QED BY <3>3, <3>4, <3>5 DEF b
  <2> QED BY <2>1, <2>2
<1>2. CASE Prepare
  BY <1>2 DEF Prepare
<1>3. CASE WriteText
  BY <1>3 DEF WriteText
<1>4. CASE WriteEnd
  BY <1>4 DEF WriteEnd
<1>5. CASE UNCHANGED serverVars
  BY <1>5 DEF serverVars
<1>6. TakeLine \/ ReadMore \/ Strip \/ SpeakPart \/ Spoken \/ UNCHANGED inputVars => UNCHANGED serverVars
  BY DEF TakeLine, ReadMore, Strip, SpeakPart, Spoken, inputVars
<1> QED BY <1>1, <1>2, <1>3, <1>4, <1>5, <1>6 DEF InputNext

(* A message that was paused can be resumed at each sentence, for every    *)
(* text whatever its lines, and the text that follows is what was said.    *)
THEOREM ResumesCorrect == InputSpec => []ResumesAtMarks
<1>1. InputInit => KeptInv
  <2> SUFFICES ASSUME InputInit PROVE KeptInv
    OBVIOUS
  <2>1. said \in Seq(Alphabet) /\ said # <<>>
    <3>1. CASE said \in Texts
      <4>1. PICK m \in 0 .. MaxLength : said \in [1 .. m -> Alphabet]
        BY <3>1 DEF Texts, BoundedSeq, SeqOf
      <4>2. m \in Nat
        BY <4>1, InputAssumption
      <4> QED BY <3>1, <4>1, <4>2 DEF Texts
    <3>2. CASE said \in Characters
      <4>1. PICK c \in Alphabet : said = <<c>>
        BY <3>2 DEF Characters
      <4> QED BY <4>1
    <3>3. said \in Texts \/ said \in Characters
      BY Zenon DEF InputInit
    <3> QED BY <3>1, <3>2, <3>3
  <2>2. server = "receive"
    BY DEF InputInit
  <2> QED BY <2>1, <2>2 DEF KeptInv
<1>2. KeptInv /\ [InputNext]_inputVars => KeptInv'
  BY KeptRight
<1>3. KeptInv => ResumesAtMarks
  BY MarksResume DEF KeptInv, ResumesAtMarks
<1> QED BY <1>1, <1>2, <1>3, PTL DEF InputSpec
=============================================================================
