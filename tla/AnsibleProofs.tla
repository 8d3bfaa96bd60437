--------------------------- MODULE AnsibleProofs ---------------------------
(***************************************************************************)
(* Theorems about the two components of ansible_mitogen that share their   *)
(* state between threads and processes.                                    *)
(*                                                                         *)
(* Contexts, for any number of workers, configurations and contexts:       *)
(* types; that get() hands out no context it was told is gone; that of the *)
(* requests on a list exactly one is on its way to answer them, and none   *)
(* leaves it unanswered but when a context of its key is forgotten; and    *)
(* that an interpreter whose users were counted is not recycled.           *)
(*                                                                         *)
(* Tasks, for any tree of contexts, tasks, playbooks and files: types;     *)
(* that what a task patches in a process is put back, but for sys.meta_path*)
(* and __main__, unless its setup() or its revert() raised; and that a job *)
(* file says what the controller and the job's own end rely on.            *)
(***************************************************************************)
EXTENDS Contexts, Tasks, FiniteSetTheorems, SequenceTheorems, TLAPS

(***************************************************************************)
(* Types.  A thread that makes a context has it to itself until it is      *)
(* counted, and nothing is known of a context that was not made yet.       *)
(***************************************************************************)
Owning == {"lru", "init", "record", "refer", "produce", "store", "addrefs"}

InterpreterHasVia == \A w \in Workers : pc[w] = "lru" => via[w] \in Contexts
HolderHasContext == \A w \in Workers : pc[w] = "hold" => ctx[w] \in Contexts

NothingUnmade ==
    /\ \A w \in Workers : via[w] <= made /\ ctx[w] <= made /\ got[w] <= made
    /\ \A k \in Keys : response[k] <= made
    /\ \A c \in Contexts : c > made => keyOf[c] = <<>> /\ refs[c] = Absent /\ viaOf[c] = Absent
    /\ \A v \in Contexts : \A i \in DOMAIN lru[v] : lru[v][i] <= made

OwnerHasContext == \A w \in Workers : pc[w] \in Owning => ctx[w] \in Contexts
OneOwner ==
    \A u, w \in Workers : {pc[u], pc[w]} \subseteq Owning /\ ctx[u] = ctx[w] => u = w

\* An interpreter is in the list of the context it was made through, once it was put there.
NotYetListed ==
    \A w \in Workers : pc[w] = "lru" =>
        \A v \in Contexts : \A i \in DOMAIN lru[v] : lru[v][i] # ctx[w]
ListedByVia == \A v \in Contexts : \A i \in DOMAIN lru[v] : viaOf[lru[v][i]] \in {v, Absent}

TypeInv ==
    /\ TypeOK /\ InterpreterHasVia /\ HolderHasContext
    /\ NothingUnmade /\ OwnerHasContext /\ OneOwner /\ NotYetListed /\ ListedByVia

(***************************************************************************)
(* A context that is recorded: until its response is stored the thread     *)
(* that made it knows of its loss, and then the event finds the record.    *)
(***************************************************************************)
RecordedUntilCounted ==
    \A w \in Workers : pc[w] \in {"produce", "store", "addrefs"} =>
        ctx[w] \in early \/ (keyOf[ctx[w]] = KeyOf(w) /\ refs[ctx[w]] # Absent)
KeyRecorded ==
    \A w \in Workers : pc[w] = "refer" => ctx[w] \in early \/ keyOf[ctx[w]] = KeyOf(w)

LossNoticed ==
    \A w \in Workers : pc[w] \in {"record", "refer", "produce", "store"} /\ ctx[w] \in fired => ctx[w] \in early

ResponseIsRecorded ==
    \A k \in Keys : response[k] # None =>
        response[k] \in early \/ (keyOf[response[k]] = k /\ response[k] \notin fired)

NotYetRecorded ==
    \A w \in Workers : pc[w] \in {"lru", "init", "record", "refer", "produce", "store"} =>
        \A k \in Keys : response[k] # ctx[w]

RecordInv == RecordedUntilCounted /\ KeyRecorded /\ LossNoticed /\ ResponseIsRecorded /\ NotYetRecorded

(***************************************************************************)
(* Who waits: nobody that was answered, or did not ask.                   *)
(***************************************************************************)
WaiterHasNothing ==
    /\ \A k \in Keys : \A w \in latches[k] : got[w] = None
    /\ \A w \in Workers : pc[w] \in {"idle", "find", "hold"} => got[w] = None

\* One of those listed answers the list.
AnsweredBy(k, w) == w \in latches[k] /\ \A u \in latches[k] : pc[u] \in Answering <=> u = w
ListsHold == \A k \in Keys : latches[k] # {} => \E w \in latches[k] : AnsweredBy(k, w)

(***************************************************************************)
(* References: a context that is recorded is referred to as often as it is *)
(* used, unless its users are about to be counted.                         *)
(***************************************************************************)
Users(c) == {u \in Workers : Uses(u, c)}
Counts(w, c) == pc[w] \in {"store", "addrefs"} /\ ctx[w] = c
Unproduced == {"lru", "init", "record", "refer", "produce"}

IdleUsesNothing == \A w \in Workers : pc[w] = "idle" => via[w] = None
UnusedUntilProduced == \A w \in Workers : pc[w] \in Unproduced => Users(ctx[w]) = {}

Accounted(c) ==
    refs[c] # Absent =>
        /\ \A w \in Workers : Counts(w, c) => Cardinality(Users(c)) <= refs[c] + count[w]
        /\ (\A w \in Workers : ~Counts(w, c)) => Cardinality(Users(c)) <= refs[c]
UsersAreCounted == \A c \in Contexts : Accounted(c)

CountInv == IdleUsesNothing /\ UnusedUntilProduced /\ UsersAreCounted
----------------------------------------------------------------------------
(* The operators on lists.                                                 *)

\* A set of naturals has a least.
LEMMA LeastNatural ==
    ASSUME NEW T \in SUBSET Nat, T # {}
    PROVE  \E x \in T : \A y \in T : x <= y
<1> DEFINE R == OpToRel(<, Nat)
<1>1. IsWellFoundedOn(R, Nat)
  BY NatLessThanWellFounded, Zenon
<1>2. \A x, y \in Nat : x < y => <<x, y>> \in R
  BY DEF OpToRel
<1> HIDE DEF R
<1>3. PICK x \in T : \A y \in T : ~(<<y, x>> \in R)
  BY <1>1, WFMin
<1>4. ASSUME NEW y \in T PROVE x <= y
  <2>1. x \in Nat /\ y \in Nat
    OBVIOUS
  <2>2. ~(y < x)
    BY <1>2, <1>3, <2>1
  <2> QED
    BY <2>1, <2>2
<1> QED
  BY <1>4

\* A set of positions of a list has a last.
LEMMA LastPosition ==
    ASSUME NEW n \in Nat, NEW T \in SUBSET (1..n), T # {}
    PROVE  \E x \in T : \A y \in T : y <= x
<1> DEFINE D == {n - i : i \in T}
<1>1. D \in SUBSET Nat 
  <2>1. \A i \in T : i \in 1..n /\ n - i \in Nat
    OBVIOUS
  <2> QED
    BY <2>1
<1>0. D # {}
  OBVIOUS
<1>2. PICK d \in D : \A e \in D : d <= e
  BY <1>1, <1>0, LeastNatural
<1>3. PICK x \in T : d = n - x
  BY <1>2
<1>4. ASSUME NEW y \in T PROVE y <= x
  <2>1. n - y \in D
    OBVIOUS
  <2>2. n - x <= n - y
    BY <1>2, <1>3, <2>1
  <2>3. x \in 1..n /\ y \in 1..n
    OBVIOUS
  <2> QED
    BY <2>2, <2>3
<1> QED
  BY <1>4

\* One list after the other.
IsConcat(r, p, q) ==
    /\ Len(r) = Len(p) + Len(q)
    /\ \A j \in 1..Len(p) + Len(q) : r[j] = IF j <= Len(p) THEN p[j] ELSE q[j - Len(p)]

\* What \o makes of two lists.
LEMMA ConcatFacts ==
    ASSUME NEW S, NEW p \in Seq(S), NEW q \in Seq(S)
    PROVE  p \o q \in Seq(S) /\ IsConcat(p \o q, p, q)
<1>1. PICK r : r = p \o q
  OBVIOUS
<1>2. r \in Seq(S) /\ IsConcat(r, p, q)
  BY <1>1, ConcatProperties DEF IsConcat
<1> QED
  BY <1>1, <1>2

\* list.remove(): one element less, if it was there, and no other element.
LEMMA RemoveFirstFacts ==
    ASSUME NEW S, NEW s \in Seq(S), NEW e, NEW r, r = RemoveFirst(s, e)
    PROVE  /\ r \in Seq(S) /\ Len(r) <= Len(s)
           /\ (\E i \in 1..Len(s) : s[i] = e) => Len(r) = Len(s) - 1
           /\ \A j \in 1..Len(r) : \E i \in 1..Len(s) : r[j] = s[i]
<1> DEFINE I == {i \in 1..Len(s) : s[i] = e}
<1>1. CASE I = {}
  <2>1. r = s
    BY <1>1 DEF RemoveFirst
  <2> QED
    BY <1>1, <2>1
<1>2. CASE I # {}
  <2>0. I \in SUBSET Nat
    OBVIOUS
  <2>1. \E x \in I : \A y \in I : x <= y
    BY <1>2, <2>0, LeastNatural
  <2>2. PICK k \in I : k = Min(I)
    BY <2>1 DEF Min
  <2>3. r = RemoveAt(s, k)
    <3>1. \E i \in 1..Len(s) : s[i] = e
      BY <1>2
    <3>2. SelectInSeq(s, LAMBDA v : v = e) = IF I # {} THEN Min(I) ELSE 0
      BY DEF SelectInSeq
    <3>3. r = RemoveAt(s, SelectInSeq(s, LAMBDA v : v = e))
      BY <3>1 DEF RemoveFirst
    <3> QED
      BY <1>2, <2>2, <3>2, <3>3
  <2> DEFINE p == SubSeq(s, 1, k - 1)
             q == SubSeq(s, k + 1, Len(s))
  <2>9. k \in 1..Len(s) /\ Len(s) \in Nat
    OBVIOUS
  <2>4. p \in Seq(S) /\ Len(p) = k - 1 /\ \A j \in 1..k - 1 : p[j] = s[j]
    BY <2>9
  <2>5. q \in Seq(S) /\ Len(q) = Len(s) - k /\ \A j \in 1..Len(s) - k : q[j] = s[k + j]
    BY <2>9
  <2>6. r = p \o q
    BY <2>3 DEF RemoveAt
  <2> HIDE DEF p, q
  <2>7. /\ r \in Seq(S)
        /\ Len(r) = Len(p) + Len(q)
        /\ \A j \in 1..Len(p) + Len(q) : r[j] = IF j <= Len(p) THEN p[j] ELSE q[j - Len(p)]
    <3>1. p \in Seq(S) /\ q \in Seq(S)
      BY <2>4, <2>5
    <3>2. r \in Seq(S) /\ IsConcat(r, p, q)
      BY <3>1, <2>6, ConcatFacts, Zenon
    <3> QED
      BY <3>2 DEF IsConcat
  <2>8. ASSUME NEW j \in 1..Len(s) - 1 PROVE \E i \in 1..Len(s) : r[j] = s[i]
    <3>1. CASE j < k
      <4>1. j \in 1..k-1 /\ j \in 1..Len(s) /\ j \in 1..Len(p) + Len(q) /\ j <= Len(p)
        BY <2>9, <3>1, <2>4, <2>5
      <4>2. r[j] = s[j]
        BY <2>4, <2>7, <4>1
      <4> QED
        BY <4>1, <4>2
    <3>2. CASE ~(j < k)
      <4>1. j - (k - 1) \in 1..Len(s) - k
        BY <3>2, <2>9
      <4>2. r[j] = q[j - (k - 1)]
        BY <2>4, <2>5, <2>7, <3>2, <2>9, SMTT(30)
      <4>3. k + (j - (k-1)) \in 1..Len(s)
        BY <3>2, <2>9
      <4> QED
        BY <2>5, <4>1, <4>2, <4>3
    <3> QED
      BY <3>1, <3>2
  <2>10. Len(r) = Len(s) - 1
    BY <2>4, <2>5, <2>7, <2>9
  <2>11. Len(r) <= Len(s)
    BY <2>9, <2>10
  <2>12. \A j \in 1..Len(r) : \E i \in 1..Len(s) : r[j] = s[i]
    <3>1. \A j \in 1..Len(s) - 1 : \E i \in 1..Len(s) : r[j] = s[i]
      BY <2>8
    <3> QED
      BY <2>10, <3>1, Zenon
  <2>13. r \in Seq(S)
    BY <2>7
  <2> QED
    BY <2>10, <2>11, <2>12, <2>13, Zenon
<1> QED
  BY <1>1, <1>2

\* A list that is no longer than another and has no other elements.
Sublist(r, s) == Len(r) <= Len(s) /\ \A j \in DOMAIN r : \E i \in DOMAIN s : r[j] = s[i]

\* list.remove() leaves such a list.
LEMMA RemoveFirstIsSublist ==
    ASSUME NEW S, NEW s \in Seq(S), NEW e
    PROVE  RemoveFirst(s, e) \in Seq(S) /\ Sublist(RemoveFirst(s, e), s)
<1>1. PICK r : r = RemoveFirst(s, e)
  OBVIOUS
<1>2. r \in Seq(S) /\ Len(r) <= Len(s) /\ \A j \in 1..Len(r) : \E i \in 1..Len(s) : r[j] = s[i]
  BY <1>1, RemoveFirstFacts
<1>3. DOMAIN r = 1..Len(r) /\ DOMAIN s = 1..Len(s)
  BY <1>2
<1>4. Sublist(r, s)
  BY <1>2, <1>3 DEF Sublist
<1> QED
  BY <1>1, <1>2, <1>4

----------------------------------------------------------------------------
(* Types.                                                                  *)

LatchTypes ==
    \A k \in Keys : \A w \in latches[k] :
        k = KeyOf(w) /\ pc[w] \in {"wait", "fail", "connect", "lru", "init", "record", "refer", "produce"}

\* The workers; the cache; its lists; the contexts there are.
WorkerTypes ==
    /\ pc \in [Workers -> Places]
    /\ hop \in [Workers -> Nat] /\ \A w \in Workers : hop[w] \in 1..Len(Stack[w])
    /\ via \in [Workers -> {None} \cup Contexts] /\ ctx \in [Workers -> {None} \cup Contexts]
    /\ got \in [Workers -> {None, Absent} \cup Contexts]
    /\ count \in [Workers -> Nat]
    /\ gets \in [Workers -> 0..MaxGets]
PlaceTypes == InterpreterHasVia /\ HolderHasContext /\ OwnerHasContext
CacheTypes ==
    /\ response \in [Keys -> {None} \cup Contexts]
    /\ latches \in [Keys -> SUBSET Workers]
    /\ refs \in [Contexts -> Nat \cup {Absent}]
    /\ keyOf \in [Contexts -> Keys \cup {<<>>}]
    /\ viaOf \in [Contexts -> {Absent} \cup Contexts]
ListTypes == lru \in [Contexts -> Seq(Contexts)] /\ \A v \in Contexts : Len(lru[v]) <= MaxInterpreters
NetworkTypes ==
    /\ made \in 0..Cardinality(Contexts) /\ alive \subseteq 1..made
    /\ madeVia \in [Contexts -> {None} \cup Contexts]
    /\ told \subseteq alive /\ fired \subseteq (1..made) \ alive
    /\ losses \in 0..MaxLosses
    /\ early \subseteq 1..made

\* The groups are all there is to TypeInv.
LEMMA TypeParts ==
    TypeInv <=> /\ WorkerTypes /\ PlaceTypes /\ CacheTypes /\ LatchTypes /\ ListTypes /\ NetworkTypes
                /\ NothingUnmade /\ OneOwner /\ NotYetListed /\ ListedByVia
  BY DEF TypeInv, TypeOK, WorkerTypes, PlaceTypes, CacheTypes, LatchTypes, ListTypes, NetworkTypes, Answering

\* The same of the next state.
LEMMA TypePartsNext ==
    ASSUME WorkerTypes', PlaceTypes', CacheTypes', LatchTypes', ListTypes', NetworkTypes',
           NothingUnmade', OneOwner', NotYetListed', ListedByVia'
    PROVE  TypeInv'
  BY DEF TypeInv, TypeOK, WorkerTypes, PlaceTypes, CacheTypes, LatchTypes, ListTypes, NetworkTypes, Answering

\* What the numbers of contexts are.
LEMMA ContextFacts ==
    /\ Contexts \subseteq Nat /\ None \notin Contexts /\ Absent \notin Contexts
    /\ \A c \in Contexts : c > None /\ c > Absent
    /\ Cardinality(Contexts) \in Nat /\ Contexts = 1..Cardinality(Contexts)
<1> DEFINE n == Cardinality(Contexts)
<1>1. Contexts = 1..n /\ n \in Nat
  BY ContextsAssumption
<1> HIDE DEF n
<1> QED
  BY <1>1 DEF None, Absent, n

\* A worker is always about a configuration of its stack.
LEMMA KeyType == ASSUME WorkerTypes, NEW w \in Workers PROVE KeyOf(w) \in Keys
<1>1. hop[w] \in 1..Len(Stack[w]) /\ Stack[w] \in Seq(Specs)
  BY ContextsAssumption DEF WorkerTypes
<1>2. Stack[w][hop[w]] \in Specs /\ via[w] \in {None} \cup Contexts
  BY <1>1 DEF WorkerTypes
<1> QED
  BY <1>2 DEF KeyOf, Keys

\* What is recorded as the key of a context that has none is not a key.
LEMMA NoKey == <<>> \notin Keys
  BY DEF Keys

\* The interpreter to shut down is one of the list that nobody refers to.
LEMMA VictimFacts ==
    ASSUME ListTypes, CacheTypes, NEW v \in Contexts, Victim(v) \notin {<<>>, <<Absent>>}
    PROVE  \E i \in DOMAIN lru[v] : Victim(v) = <<lru[v][i]>> /\ refs[lru[v][i]] = 0
<1> DEFINE stops == {i \in DOMAIN lru[v] : Unused(lru[v][i]) \/ refs[lru[v][i]] = Absent}
           i == CHOOSE j \in stops : \A l \in stops : l <= j
<1>1. Len(lru[v]) \in Nat /\ stops \in SUBSET (1..Len(lru[v]))
  BY DEF ListTypes
<1>2. stops # {}
  BY DEF Victim
<1>3. \E x \in stops : \A y \in stops : y <= x
  BY <1>1, <1>2, LastPosition
<1>4. i \in stops
  BY <1>3
<1>5. Victim(v) = IF refs[lru[v][i]] = Absent THEN <<Absent>> ELSE <<lru[v][i]>>
  BY <1>2 DEF Victim
<1> HIDE DEF i
<1>6. refs[lru[v][i]] # Absent
  BY <1>5
<1>7. Unused(lru[v][i]) /\ i \in DOMAIN lru[v]
  BY <1>4, <1>6
<1> QED
  BY <1>5, <1>6, <1>7 DEF Unused

\* What _forget_context_unlocked() takes away: the records of c and of its key, if it has
\* one, and no others.
Unlisted(c, vo, lr) ==
    /\ CacheTypes' /\ lru' \in [Contexts -> Seq(Contexts)]
    /\ \A k \in Keys : response'[k] = response[k] \/ (response'[k] = None /\ k = keyOf[c])
    /\ \A k \in Keys : latches'[k] = latches[k] \/ (latches'[k] = {} /\ k = keyOf[c])
    /\ \A d \in Contexts :
         /\ keyOf'[d] = keyOf[d] \/ (keyOf'[d] = <<>> /\ d = c)
         /\ refs'[d] = refs[d] \/ (refs'[d] = Absent /\ d = c)
         /\ viaOf'[d] = vo[d] \/ viaOf'[d] = Absent
         /\ lru'[d] = lr[d] \/ lru'[d] = <<>>
    /\ keyOf[c] # <<>> =>
         response'[keyOf[c]] = None /\ latches'[keyOf[c]] = {} /\ keyOf'[c] = <<>> /\ refs'[c] = Absent
    /\ early' = IF Untimely(c) THEN early \cup {c} ELSE early

\* Forgetting a context does that.
LEMMA ForgetFacts ==
    ASSUME CacheTypes, NEW c \in Contexts, NEW vo \in [Contexts -> {Absent} \cup Contexts],
           NEW lr \in [Contexts -> Seq(Contexts)], Forget(c, vo, lr)
    PROVE  Unlisted(c, vo, lr)
<1>1. early' = IF Untimely(c) THEN early \cup {c} ELSE early
  BY DEF Forget
<1>2. CASE keyOf[c] = <<>>
  <2>1. /\ viaOf' = vo /\ lru' = lr
        /\ response' = response /\ latches' = latches /\ refs' = refs /\ keyOf' = keyOf
    BY <1>2 DEF Forget
  <2>2. CacheTypes'
    BY <2>1 DEF CacheTypes
  <2> QED
    BY <1>1, <1>2, <2>1, <2>2 DEF Unlisted
<1>3. CASE keyOf[c] # <<>>
  <2>1. PICK k \in Keys : k = keyOf[c]
    BY <1>3 DEF CacheTypes
  <2>2. /\ response' = [response EXCEPT ![k] = None]
        /\ latches' = [latches EXCEPT ![k] = {}]
        /\ keyOf' = [keyOf EXCEPT ![c] = <<>>]
        /\ refs' = [refs EXCEPT ![c] = Absent]
        /\ viaOf' = [vo EXCEPT ![c] = Absent]
        /\ lru' = [lr EXCEPT ![c] = <<>>]
    BY <1>3, <2>1 DEF Forget
  <2>3. CacheTypes'
    BY <2>2 DEF CacheTypes
  <2>4. lru' \in [Contexts -> Seq(Contexts)]
    BY <2>2
  <2>5. /\ \A j \in Keys : response'[j] = response[j] \/ (response'[j] = None /\ j = keyOf[c])
        /\ \A j \in Keys : latches'[j] = latches[j] \/ (latches'[j] = {} /\ j = keyOf[c])
        /\ response'[keyOf[c]] = None /\ latches'[keyOf[c]] = {}
    BY <2>1, <2>2 DEF CacheTypes
  <2>6. ASSUME NEW d \in Contexts
        PROVE  /\ keyOf'[d] = keyOf[d] \/ (keyOf'[d] = <<>> /\ d = c)
               /\ refs'[d] = refs[d] \/ (refs'[d] = Absent /\ d = c)
               /\ viaOf'[d] = vo[d] \/ viaOf'[d] = Absent
               /\ lru'[d] = lr[d] \/ lru'[d] = <<>>
    BY <2>2 DEF CacheTypes
  <2>7. keyOf'[c] = <<>> /\ refs'[c] = Absent
    BY <2>2 DEF CacheTypes
  <2> QED
    BY <1>1, <2>3, <2>4, <2>5, <2>6, <2>7 DEF Unlisted
<1> QED
  BY <1>2, <1>3

\* A context that is lost early is one that was made.
LEMMA UntimelyIsMade ==
    ASSUME TypeInv, NEW c \in Contexts, Untimely(c) PROVE c \in 1..made
<1>1. PICK w \in Workers : (pc[w] \in Making /\ keyOf[c] = KeyOf(w)) \/ (pc[w] = "record" /\ ctx[w] = c)
  BY DEF Untimely
<1>2. KeyOf(w) # <<>>
  BY KeyType, NoKey, TypeParts
<1>3. made \in Nat /\ c \in Nat /\ c > 0
  BY ContextFacts, TypeParts DEF NetworkTypes, None
<1>4. c <= made
  BY <1>1, <1>2, <1>3, TypeParts DEF NothingUnmade
<1> QED
  BY <1>3, <1>4

\* A context shut down is forgotten, and leaves the list of the one it was made through.
LEMMA ShutdownFacts ==
    ASSUME TypeInv, NEW c \in Contexts, NEW next \in Seq(Contexts),
           NEW vo \in [Contexts -> {Absent} \cup Contexts], Shutdown(c, next, vo)
    PROVE  /\ told' = told \cup ({c} \cap alive)
           /\ \E lr \in [Contexts -> Seq(Contexts)] :
                /\ Unlisted(c, vo, lr)
                /\ lr = IF vo[c] = Absent THEN lru
                        ELSE [lru EXCEPT ![vo[c]] = RemoveFirst(lru[vo[c]], c) \o next]
<1> DEFINE lr == IF vo[c] = Absent THEN lru
                 ELSE [lru EXCEPT ![vo[c]] = RemoveFirst(lru[vo[c]], c) \o next]
<1>1. lru \in [Contexts -> Seq(Contexts)] /\ CacheTypes
  BY TypeParts DEF ListTypes
<1>2. \A v \in Contexts : RemoveFirst(lru[v], c) \o next \in Seq(Contexts)
  BY <1>1, RemoveFirstFacts
<1>3. lr \in [Contexts -> Seq(Contexts)]
  BY <1>1, <1>2
<1>4. Forget(c, vo, lr) /\ told' = told \cup ({c} \cap alive)
  BY DEF Shutdown
<1> QED
  BY <1>1, <1>3, <1>4, ForgetFacts

----------------------------------------------------------------------------
(* What each step does, with the definitions it is written with expanded.  *)

\* The bounds are numbers.
LEMMA BoundFacts == MaxInterpreters \in Nat /\ MaxGets \in Nat /\ MaxLosses \in Nat
  BY ContextsAssumption

\* _wait_or_start() answers with what is recorded, or lists the request.
LEMMA WaitOrStartEffect ==
    ASSUME TypeInv, NEW w \in Workers, WaitOrStart(w)
    PROVE  /\ hop' = hop /\ via' = via /\ ctx' = ctx /\ count' = count /\ losses' = losses
           /\ response' = response /\ keyOf' = keyOf /\ viaOf' = viaOf /\ lru' = lru
           /\ UNCHANGED network
           /\ pc[w] \in {"idle", "find"} /\ gets' \in [Workers -> 0..MaxGets]
           /\ \/ \E c \in Contexts :
                   /\ c = response[KeyOf(w)] /\ refs[c] # Absent
                   /\ refs' = [refs EXCEPT ![c] = refs[c] + 1] /\ got' = [got EXCEPT ![w] = c]
                   /\ pc' = [pc EXCEPT ![w] = "answered"] /\ latches' = latches
              \/ /\ refs' = refs /\ got' = [got EXCEPT ![w] = Absent]
                 /\ pc' = [pc EXCEPT ![w] = "answered"] /\ latches' = latches
              \/ /\ response[KeyOf(w)] = None /\ refs' = refs /\ got' = got
                 /\ latches' = [latches EXCEPT ![KeyOf(w)] = latches[KeyOf(w)] \cup {w}]
                 /\ pc' = [pc EXCEPT ![w] = IF latches[KeyOf(w)] = {} THEN "connect" ELSE "wait"]
<1> USE TypeParts
<1>1. /\ hop' = hop /\ via' = via /\ ctx' = ctx /\ count' = count /\ losses' = losses
      /\ response' = response /\ keyOf' = keyOf /\ viaOf' = viaOf /\ lru' = lru
      /\ UNCHANGED network
      /\ pc[w] \in {"idle", "find"}
  BY DEF WaitOrStart, Enters, At
<1>2. gets' \in [Workers -> 0..MaxGets]
  <2>1. gets \in [Workers -> 0..MaxGets]
    BY DEF WorkerTypes
  <2>2. gets' = gets \/ (gets[w] < MaxGets /\ gets' = [gets EXCEPT ![w] = gets[w] + 1])
    BY DEF WaitOrStart, Enters
  <2> QED
    BY <2>1, <2>2, BoundFacts
<1>3. PICK k \in Keys : k = KeyOf(w)
  BY KeyType
<1>4. k = <<Stack[w][hop'[w]], via'[w]>>
  BY <1>1, <1>3 DEF KeyOf
<1>5. response[k] = None \/ response[k] \in Contexts
  BY DEF CacheTypes
<1>6. CASE response[k] # None /\ refs[response[k]] # Absent
  BY <1>1, <1>2, <1>3, <1>4, <1>5, <1>6 DEF WaitOrStart, Go
<1>7. CASE response[k] # None /\ refs[response[k]] = Absent
  BY <1>1, <1>2, <1>3, <1>4, <1>5, <1>7 DEF WaitOrStart, Go
<1>8. CASE response[k] = None
  BY <1>1, <1>2, <1>3, <1>4, <1>5, <1>8 DEF WaitOrStart, Go, First
<1> QED
  BY <1>6, <1>7, <1>8

\* _connect() makes the next context, or raises.
LEMMA ConnectEffect ==
    ASSUME TypeInv, NEW w \in Workers, Connect(w)
    PROVE  /\ hop' = hop /\ via' = via /\ got' = got /\ count' = count /\ gets' = gets
           /\ UNCHANGED <<caches, told, fired, early>>
           /\ pc[w] = "connect" /\ losses' \in 0..MaxLosses
           /\ \/ \E c \in Contexts :
                   /\ c = made + 1 /\ made' = c /\ alive' = alive \cup {c}
                   /\ madeVia' = [madeVia EXCEPT ![c] = via[w]]
                   /\ ctx' = [ctx EXCEPT ![w] = c]
                   /\ \/ pc' = [pc EXCEPT ![w] = "lru"] /\ via[w] \in Contexts
                      \/ pc' = [pc EXCEPT ![w] = "init"]
              \/ pc' = [pc EXCEPT ![w] = "fail"] /\ UNCHANGED <<made, alive, madeVia, ctx>>
<1> USE TypeParts
<1>1. /\ hop' = hop /\ via' = via /\ got' = got /\ count' = count /\ gets' = gets
      /\ UNCHANGED <<caches, told, fired, early>>
      /\ pc[w] = "connect"
  BY DEF Connect, At
<1>2. losses \in 0..MaxLosses /\ (losses' = losses \/ (losses < MaxLosses /\ losses' = losses + 1))
  BY DEF Connect, NetworkTypes
<1>3. losses' \in 0..MaxLosses
  BY <1>2, BoundFacts DEF NetworkTypes
<1>4. CASE made < Cardinality(Contexts) /\ made' = made + 1 /\ alive' = alive \cup {made'}
           /\ madeVia' = [madeVia EXCEPT ![made'] = via[w]] /\ ctx' = [ctx EXCEPT ![w] = made']
           /\ Go(w, IF via[w] # None /\ Stack[w][hop[w]] \in Recycled THEN "lru" ELSE "init")
  <2>1. made + 1 \in Contexts
    BY <1>4, ContextFacts DEF NetworkTypes
  <2>2. via[w] # None => via[w] \in Contexts
    BY DEF WorkerTypes
  <2>3. \/ pc' = [pc EXCEPT ![w] = "lru"] /\ via[w] \in Contexts
        \/ pc' = [pc EXCEPT ![w] = "init"]
    BY <1>4, <2>2 DEF Go
  <2> QED
    BY <1>1, <1>3, <1>4, <2>1, <2>3
<1>5. CASE Go(w, "fail") /\ UNCHANGED <<made, alive, madeVia, ctx>>
  BY <1>1, <1>3, <1>5 DEF Go
<1> QED
  BY <1>4, <1>5 DEF Connect

\* _produce_response() answers those listed, or raises.
LEMMA ProduceEffect ==
    ASSUME TypeInv, NEW w \in Workers, Produce(w)
    PROVE  /\ hop' = hop /\ via' = via /\ ctx' = ctx /\ gets' = gets /\ losses' = losses
           /\ response' = response /\ refs' = refs /\ keyOf' = keyOf /\ viaOf' = viaOf /\ lru' = lru
           /\ UNCHANGED network
           /\ pc[w] = "produce"
           /\ \/ /\ latches[KeyOf(w)] = {} /\ got' = got
                 /\ pc' = [pc EXCEPT ![w] = "fail"] /\ count' = count /\ latches' = latches
              \/ /\ got' = [u \in Workers |-> IF u \in latches[KeyOf(w)] THEN ctx[w] ELSE got[u]]
                 /\ latches' = [latches EXCEPT ![KeyOf(w)] = {}]
                 /\ count' = [count EXCEPT ![w] = Cardinality(latches[KeyOf(w)])]
                 /\ pc' = [pc EXCEPT ![w] = "store"]
<1>1. /\ hop' = hop /\ via' = via /\ ctx' = ctx /\ gets' = gets /\ losses' = losses
      /\ response' = response /\ refs' = refs /\ keyOf' = keyOf /\ viaOf' = viaOf /\ lru' = lru
      /\ UNCHANGED network
      /\ pc[w] = "produce"
  BY DEF Produce, At, bounds
<1>2. CASE latches[KeyOf(w)] = {}
  BY <1>1, <1>2 DEF Produce, Go
<1>3. CASE latches[KeyOf(w)] # {}
  BY <1>1, <1>3 DEF Produce, Go, Answer
<1> QED
  BY <1>2, <1>3

\* The except clause answers those listed, or raises.
LEMMA FailEffect ==
    ASSUME TypeInv, NEW w \in Workers, Fail(w)
    PROVE  /\ hop' = hop /\ via' = via /\ ctx' = ctx /\ count' = count /\ gets' = gets
           /\ losses' = losses
           /\ response' = response /\ refs' = refs /\ keyOf' = keyOf /\ viaOf' = viaOf /\ lru' = lru
           /\ UNCHANGED network
           /\ pc[w] = "fail" /\ pc' = [pc EXCEPT ![w] = "answered"]
           /\ latches' = [latches EXCEPT ![KeyOf(w)] = {}]
           /\ \/ latches[KeyOf(w)] = {} /\ got' = [got EXCEPT ![w] = Absent]
              \/ got' = [u \in Workers |-> IF u \in latches[KeyOf(w)] THEN Absent ELSE got[u]]
<1>1. /\ hop' = hop /\ via' = via /\ ctx' = ctx /\ count' = count /\ gets' = gets
      /\ losses' = losses
      /\ response' = response /\ refs' = refs /\ keyOf' = keyOf /\ viaOf' = viaOf /\ lru' = lru
      /\ UNCHANGED network
      /\ pc[w] = "fail" /\ pc' = [pc EXCEPT ![w] = "answered"]
      /\ latches' = [latches EXCEPT ![KeyOf(w)] = {}]
  BY DEF Fail, At, Go, bounds
<1>2. \/ latches[KeyOf(w)] = {} /\ got' = [got EXCEPT ![w] = Absent]
      \/ got' = [u \in Workers |-> IF u \in latches[KeyOf(w)] THEN Absent ELSE got[u]]
  BY DEF Fail, Failed
<1> QED
  BY <1>1, <1>2

\* get() ends with an exception, goes on, or returns.
LEMMA ContinueEffect ==
    ASSUME TypeInv, NEW w \in Workers, Continue(w)
    PROVE  /\ count' = count /\ UNCHANGED <<bounds, caches, network>>
           /\ pc[w] \in {"wait", "answered"} /\ got[w] # None /\ got' = [got EXCEPT ![w] = None]
           /\ \/ /\ pc' = [pc EXCEPT ![w] = "idle"] /\ hop' = [hop EXCEPT ![w] = 1]
                 /\ via' = [via EXCEPT ![w] = None] /\ ctx' = [ctx EXCEPT ![w] = None]
              \/ /\ got[w] \in Contexts /\ hop[w] + 1 \in 1..Len(Stack[w])
                 /\ pc' = [pc EXCEPT ![w] = "find"] /\ hop' = [hop EXCEPT ![w] = hop[w] + 1]
                 /\ via' = [via EXCEPT ![w] = got[w]] /\ ctx' = [ctx EXCEPT ![w] = None]
              \/ /\ got[w] \in Contexts
                 /\ pc' = [pc EXCEPT ![w] = "hold"] /\ hop' = hop /\ via' = via
                 /\ ctx' = [ctx EXCEPT ![w] = got[w]]
<1> USE TypeParts
<1>1. /\ count' = count /\ UNCHANGED <<bounds, caches, network>>
      /\ pc[w] \in {"wait", "answered"} /\ got[w] # None /\ got' = [got EXCEPT ![w] = None]
  BY DEF Continue
<1>2. got[w] # Absent => got[w] \in Contexts
  BY <1>1 DEF WorkerTypes
<1>3. CASE got[w] = Absent /\ Ends(w)
  BY <1>1, <1>3 DEF Ends, Go
<1>4. CASE /\ got[w] # Absent /\ hop[w] < Len(Stack[w])
           /\ hop' = [hop EXCEPT ![w] = hop[w] + 1] /\ via' = [via EXCEPT ![w] = got[w]]
           /\ ctx' = [ctx EXCEPT ![w] = None] /\ Go(w, "find")
  <2>1. hop[w] \in 1..Len(Stack[w]) /\ Len(Stack[w]) \in Nat
    BY ContextsAssumption DEF WorkerTypes
  <2>2. hop[w] + 1 \in 1..Len(Stack[w])
    BY <1>4, <2>1
  <2> QED
    BY <1>1, <1>2, <1>4, <2>2 DEF Go
<1>5. CASE /\ got[w] # Absent
           /\ ctx' = [ctx EXCEPT ![w] = got[w]] /\ Go(w, "hold") /\ UNCHANGED <<hop, via>>
  BY <1>1, <1>2, <1>5 DEF Go
<1> QED
  BY <1>3, <1>4, <1>5 DEF Continue

\* _update_lru_unlocked() lists the new context, or shuts down one that nobody refers to.
LEMMA UpdateLruEffect ==
    ASSUME TypeInv, NEW w \in Workers, UpdateLru(w)
    PROVE  /\ UNCHANGED <<request, bounds, made, alive, madeVia, fired>>
           /\ pc[w] = "lru" /\ via[w] \in Contexts /\ ctx[w] \in Contexts
           /\ \E vo \in [Contexts -> {Absent} \cup Contexts] :
                /\ vo = [viaOf EXCEPT ![ctx[w]] = via[w]]
                /\ \/ /\ Len(lru[via[w]]) < MaxInterpreters
                      /\ lru' = [lru EXCEPT ![via[w]] = Append(lru[via[w]], ctx[w])] /\ viaOf' = vo
                      /\ pc' = [pc EXCEPT ![w] = "init"]
                      /\ UNCHANGED <<told, response, latches, refs, keyOf, early>>
                   \/ /\ viaOf' = vo
                      /\ pc' = [pc EXCEPT ![w] = "init"] \/ pc' = [pc EXCEPT ![w] = "fail"]
                      /\ UNCHANGED <<told, response, latches, refs, keyOf, lru, early>>
                   \/ /\ \E i \in DOMAIN lru[via[w]] :
                           /\ refs[lru[via[w]][i]] = 0
                           /\ Shutdown(lru[via[w]][i], <<ctx[w]>>, vo)
                      /\ pc' = [pc EXCEPT ![w] = "init"]
<1> USE TypeParts
<1> DEFINE v == via[w]
           vo == [viaOf EXCEPT ![ctx[w]] = via[w]]
<1>1. UNCHANGED <<request, bounds, made, alive, madeVia, fired>> /\ pc[w] = "lru"
  BY DEF UpdateLru, At
<1>2. v \in Contexts /\ ctx[w] \in Contexts
  BY <1>1 DEF PlaceTypes, InterpreterHasVia, OwnerHasContext, Owning
<1>3. vo \in [Contexts -> {Absent} \cup Contexts]
  BY <1>2 DEF CacheTypes
<1>4. CASE /\ Len(lru[v]) < MaxInterpreters
           /\ lru' = [lru EXCEPT ![v] = Append(lru[v], ctx[w])] /\ viaOf' = vo
           /\ Go(w, "init")
           /\ UNCHANGED <<told, response, latches, refs, keyOf, early>>
  BY <1>1, <1>2, <1>3, <1>4 DEF Go
<1>5. CASE /\ viaOf' = vo
           /\ Go(w, IF Victim(v) = <<>> THEN "init" ELSE "fail")
           /\ UNCHANGED <<told, response, latches, refs, keyOf, lru, early>>
  <2>1. pc' = [pc EXCEPT ![w] = "init"] \/ pc' = [pc EXCEPT ![w] = "fail"]
    BY <1>5 DEF Go
  <2> QED
    BY <1>1, <1>2, <1>3, <1>5, <2>1
<1>6. CASE /\ Victim(v) \notin {<<>>, <<Absent>>}
           /\ Shutdown(Victim(v)[1], <<ctx[w]>>, vo)
           /\ Go(w, "init")
  <2>1. PICK i \in DOMAIN lru[v] : Victim(v) = <<lru[v][i]>> /\ refs[lru[v][i]] = 0
    BY <1>2, <1>6, VictimFacts
  <2>2. Victim(v)[1] = lru[v][i]
    BY <2>1
  <2>3. Shutdown(lru[v][i], <<ctx[w]>>, vo) /\ pc' = [pc EXCEPT ![w] = "init"]
    BY <1>6, <2>2 DEF Go
  <2> QED
    BY <1>1, <1>2, <1>3, <2>1, <2>3
<1> QED
  BY <1>4, <1>5, <1>6 DEF UpdateLru

\* reset() shuts down a context.
LEMMA ResetEffect ==
    ASSUME TypeInv, NEW w \in Workers, Reset(w)
    PROVE  /\ UNCHANGED <<pc, hop, via, ctx, got, count, gets, made, alive, madeVia, fired>>
           /\ losses' \in 0..MaxLosses
           /\ \E c \in Contexts : Shutdown(c, <<>>, viaOf)
<1> DEFINE last == Len(Stack[w]) - (IF w \in Becomes THEN 1 ELSE 0)
<1>1. /\ UNCHANGED <<pc, hop, via, ctx, got, count, gets, made, alive, madeVia, fired>>
      /\ losses < MaxLosses /\ losses' = losses + 1
  BY DEF Reset
<1>2. losses' \in 0..MaxLosses
  BY <1>1, BoundFacts, TypeParts DEF NetworkTypes
<1>3. PICK f \in Found(w, last) : Shutdown(f[last], <<>>, viaOf)
  BY DEF Reset
<1>4. last \in Int
  BY ContextsAssumption
<1> HIDE DEF last
<1>5. f \in [1..last -> Contexts] /\ last > 0
  BY <1>3 DEF Found
<1>6. f[last] \in Contexts
  BY <1>4, <1>5
<1> QED
  BY <1>1, <1>2, <1>3, <1>6

----------------------------------------------------------------------------
(* The steps keep the types.                                               *)

\* A context is forgotten: what the lists, and the contexts made through others, must be.
ListsFit(vo, lr) ==
    /\ \A d \in Contexts : vo[d] # Absent => d <= made
    /\ \A v \in Contexts : /\ Len(lr[v]) <= MaxInterpreters
                           /\ \A i \in DOMAIN lr[v] : lr[v][i] <= made /\ vo[lr[v][i]] \in {v, Absent}
    /\ \A u \in Workers : pc'[u] = "lru" => \A v \in Contexts : \A i \in DOMAIN lr[v] : lr[v][i] # ctx[u]

\* Forgetting a context keeps the types.
LEMMA ForgottenTypes ==
    ASSUME TypeInv, NEW c \in Contexts, NEW vo \in [Contexts -> {Absent} \cup Contexts],
           NEW lr \in [Contexts -> Seq(Contexts)], Unlisted(c, vo, lr), ListsFit(vo, lr),
           UNCHANGED <<hop, via, ctx, got, count, gets, made, alive, madeVia>>,
           losses' \in 0..MaxLosses, told' \subseteq alive, fired' \subseteq (1..made) \ alive,
           pc' \in [Workers -> Places],
           \A u \in Workers : pc'[u] = pc[u] \/ (pc[u] = "lru" /\ pc'[u] = "init")
    PROVE  TypeInv'
<1> USE TypeParts
<1>1. WorkerTypes'
  BY DEF WorkerTypes
<1>2. PlaceTypes'
  BY DEF PlaceTypes, InterpreterHasVia, HolderHasContext, OwnerHasContext, Owning
<1>3. CacheTypes' /\ lru' \in [Contexts -> Seq(Contexts)]
  BY DEF Unlisted
<1>4. LatchTypes'
  <2> SUFFICES ASSUME NEW k \in Keys, NEW u \in latches'[k]
               PROVE  /\ k = KeyOf(u)'
                      /\ pc'[u] \in {"wait", "fail", "connect", "lru", "init", "record", "refer", "produce"}
    BY DEF LatchTypes
  <2>1. u \in latches[k] /\ u \in Workers
    BY DEF Unlisted, CacheTypes
  <2>2. KeyOf(u)' = KeyOf(u)
    BY DEF KeyOf
  <2> QED
    BY <2>1, <2>2 DEF LatchTypes
<1>5. ASSUME NEW d \in Contexts PROVE lru'[d] = lr[d] \/ lru'[d] = <<>>
  BY DEF Unlisted
<1>6. ListTypes'
  <2>1. \A d \in Contexts : Len(lru'[d]) <= MaxInterpreters
    BY <1>5, BoundFacts DEF ListsFit
  <2> QED
    BY <1>3, <2>1 DEF ListTypes
<1>7. early' \subseteq 1..made
  BY UntimelyIsMade DEF Unlisted, NetworkTypes
<1>8. NetworkTypes'
  BY <1>7 DEF NetworkTypes
<1>9. \A v \in Contexts : \A i \in DOMAIN lru'[v] : lru'[v][i] <= made /\ lru'[v][i] \in Contexts
  BY <1>3, <1>5 DEF ListsFit
<1>10. NothingUnmade'
  <2>1. \A k \in Keys : response'[k] <= made
    <3> SUFFICES ASSUME NEW k \in Keys PROVE response'[k] <= made
      OBVIOUS
    <3>1. response[k] <= made /\ None <= made
      BY ContextFacts DEF NothingUnmade, None, NetworkTypes
    <3>2. response'[k] = response[k] \/ response'[k] = None
      BY DEF Unlisted
    <3> QED
      BY <3>1, <3>2
  <2>2. \A d \in Contexts : d > made => keyOf'[d] = <<>> /\ refs'[d] = Absent /\ viaOf'[d] = Absent
    <3>1. ASSUME NEW d \in Contexts, d > made
          PROVE  keyOf'[d] = <<>> /\ refs'[d] = Absent /\ viaOf'[d] = Absent
      <4>1. keyOf[d] = <<>> /\ refs[d] = Absent
        BY <3>1 DEF NothingUnmade
      <4>2. vo[d] = Absent
        BY <3>1, ContextFacts DEF ListsFit, NetworkTypes
      <4> QED
        BY <4>1, <4>2 DEF Unlisted
    <3> QED
      BY <3>1
  <2>3. \A w \in Workers : via[w] <= made /\ ctx[w] <= made /\ got[w] <= made
    BY DEF NothingUnmade
  <2> QED
    BY <1>9, <2>1, <2>2, <2>3 DEF NothingUnmade
<1>11. OneOwner'
  <2>1. ASSUME NEW u \in Workers, NEW w \in Workers, {pc'[u], pc'[w]} \subseteq Owning, ctx'[u] = ctx'[w]
        PROVE  u = w
    <3>1. pc[u] \in Owning /\ pc[w] \in Owning
      BY <2>1 DEF Owning
    <3>2. ctx[u] = ctx[w]
      BY <2>1
    <3> QED
      BY <3>1, <3>2 DEF OneOwner
  <2> QED
    BY <2>1 DEF OneOwner
<1>12. NotYetListed'
  <2> SUFFICES ASSUME NEW u \in Workers, pc'[u] = "lru", NEW v \in Contexts, NEW i \in DOMAIN lru'[v]
               PROVE  lru'[v][i] # ctx'[u]
    BY DEF NotYetListed
  <2>1. lru'[v] = lr[v]
    BY <1>5
  <2> QED
    BY <2>1 DEF ListsFit
<1>13. ListedByVia'
  <2>1. \A v \in Contexts : \A i \in DOMAIN lru'[v] : vo[lru'[v][i]] \in {v, Absent}
    <3> SUFFICES ASSUME NEW v \in Contexts, NEW i \in DOMAIN lru'[v]
                 PROVE  vo[lru'[v][i]] \in {v, Absent}
      OBVIOUS
    <3>1. lru'[v] = lr[v]
      BY <1>5
    <3> QED
      BY <3>1 DEF ListsFit
  <2>2. \A d \in Contexts : viaOf'[d] = vo[d] \/ viaOf'[d] = Absent
    BY DEF Unlisted
  <2> QED
    BY <1>9, <2>1, <2>2 DEF ListedByVia
<1> QED
  BY <1>1, <1>2, <1>3, <1>4, <1>6, <1>8, <1>10, <1>11, <1>12, <1>13, TypePartsNext

\* A request that is answered, or listed, has the key it was listed for.
LEMMA WaitOrStartTypes == ASSUME TypeInv, NEW w \in Workers, WaitOrStart(w) PROVE TypeInv'
<1> USE TypeParts
<1>1. /\ hop' = hop /\ via' = via /\ ctx' = ctx /\ count' = count /\ losses' = losses
      /\ response' = response /\ keyOf' = keyOf /\ viaOf' = viaOf /\ lru' = lru
      /\ UNCHANGED network
      /\ pc[w] \in {"idle", "find"} /\ gets' \in [Workers -> 0..MaxGets]
  BY WaitOrStartEffect
<1>2. /\ refs' \in [Contexts -> Nat \cup {Absent}]
      /\ \A c \in Contexts : refs'[c] = Absent <=> refs[c] = Absent
      /\ \/ got' = got
         \/ got' = [got EXCEPT ![w] = Absent]
         \/ \E c \in Contexts : c = response[KeyOf(w)] /\ got' = [got EXCEPT ![w] = c]
      /\ \E p \in {"answered", "connect", "wait"} : pc' = [pc EXCEPT ![w] = p]
      /\ \/ latches' = latches
         \/ /\ latches' = [latches EXCEPT ![KeyOf(w)] = latches[KeyOf(w)] \cup {w}]
            /\ pc'[w] \in {"connect", "wait"}
  <2>1. refs \in [Contexts -> Nat \cup {Absent}] /\ pc \in [Workers -> Places]
    BY DEF CacheTypes, WorkerTypes
  <2>2. CASE \E c \in Contexts :
                   /\ c = response[KeyOf(w)] /\ refs[c] # Absent
                   /\ refs' = [refs EXCEPT ![c] = refs[c] + 1] /\ got' = [got EXCEPT ![w] = c]
                   /\ pc' = [pc EXCEPT ![w] = "answered"] /\ latches' = latches
    <3>1. PICK c \in Contexts :
            /\ c = response[KeyOf(w)] /\ refs[c] # Absent
            /\ refs' = [refs EXCEPT ![c] = refs[c] + 1] /\ got' = [got EXCEPT ![w] = c]
            /\ pc' = [pc EXCEPT ![w] = "answered"] /\ latches' = latches
      BY <2>2
    <3>2. refs[c] \in Nat /\ refs[c] + 1 # Absent
      BY <2>1, <3>1 DEF Absent
    <3>3. /\ refs' \in [Contexts -> Nat \cup {Absent}]
          /\ \A d \in Contexts : refs'[d] = Absent <=> refs[d] = Absent
      BY <2>1, <3>1, <3>2
    <3>4. /\ \E d \in Contexts : d = response[KeyOf(w)] /\ got' = [got EXCEPT ![w] = d]
          /\ \E p \in {"answered", "connect", "wait"} : pc' = [pc EXCEPT ![w] = p]
          /\ latches' = latches
      BY <3>1
    <3> QED
      BY <3>3, <3>4
  <2>3. CASE /\ refs' = refs /\ got' = [got EXCEPT ![w] = Absent]
             /\ pc' = [pc EXCEPT ![w] = "answered"] /\ latches' = latches
    BY <2>1, <2>3
  <2>4. CASE /\ refs' = refs /\ got' = got
             /\ latches' = [latches EXCEPT ![KeyOf(w)] = latches[KeyOf(w)] \cup {w}]
             /\ pc' = [pc EXCEPT ![w] = IF latches[KeyOf(w)] = {} THEN "connect" ELSE "wait"]
    BY <2>1, <2>4
  <2> QED
    BY <2>2, <2>3, <2>4, WaitOrStartEffect
<1>3. WorkerTypes'
  BY <1>1, <1>2, ZenonT(60) DEF WorkerTypes, Places
<1>4. PlaceTypes'
  BY <1>1, <1>2 DEF WorkerTypes, PlaceTypes, InterpreterHasVia, HolderHasContext, OwnerHasContext, Owning
<1>5. CacheTypes'
  <2>1. latches' \in [Keys -> SUBSET Workers]
    BY <1>2 DEF CacheTypes
  <2> QED
    BY <1>1, <1>2, <2>1 DEF CacheTypes
<1>6. LatchTypes'
  <2> SUFFICES ASSUME NEW k \in Keys, NEW u \in latches'[k]
               PROVE  /\ k = KeyOf(u)'
                      /\ pc'[u] \in {"wait", "fail", "connect", "lru", "init", "record", "refer", "produce"}
    BY DEF LatchTypes
  <2>1. u \in Workers /\ KeyOf(u)' = KeyOf(u) /\ pc \in [Workers -> Places]
    BY <1>1, <1>5 DEF CacheTypes, KeyOf, WorkerTypes
  <2>2. CASE u \in latches[k]
    <3>1. u # w
      BY <1>1, <2>2 DEF LatchTypes
    <3> QED
      BY <1>2, <2>1, <2>2, <3>1 DEF LatchTypes
  <2>3. CASE u \notin latches[k]
    <3>1. PICK j \in Keys : j = KeyOf(w)
      BY KeyType
    <3>2. latches' = [latches EXCEPT ![j] = latches[j] \cup {w}] /\ pc'[w] \in {"connect", "wait"}
      BY <1>2, <2>3, <3>1
    <3>3. k = j /\ u = w
      BY <2>3, <3>2 DEF CacheTypes
    <3> QED
      BY <2>1, <3>1, <3>2, <3>3
  <2> QED
    BY <2>2, <2>3
<1>7. ListTypes' /\ NetworkTypes'
  BY <1>1 DEF ListTypes, NetworkTypes, network
<1>8. NothingUnmade'
  <2>1. KeyOf(w) \in Keys
    BY KeyType
  <2>2. ASSUME NEW u \in Workers PROVE got'[u] <= made
    <3>1. got[u] <= made /\ response[KeyOf(w)] <= made /\ Absent <= made
      BY <2>1, ContextFacts DEF NothingUnmade, NetworkTypes, Absent
    <3>2. got'[u] = got[u] \/ got'[u] = Absent \/ got'[u] = response[KeyOf(w)]
      BY <1>2 DEF WorkerTypes
    <3> QED
      BY <3>1, <3>2
  <2> QED
    BY <1>1, <1>2, <2>2 DEF NothingUnmade, network
<1>9. OneOwner'
  BY <1>1, <1>2 DEF OneOwner, Owning, WorkerTypes
<1>10. NotYetListed' /\ ListedByVia'
  BY <1>1, <1>2 DEF NotYetListed, ListedByVia, WorkerTypes
<1> QED
  BY <1>3, <1>4, <1>5, <1>6, <1>7, <1>8, <1>9, <1>10, TypePartsNext

\* The next context is nobody's and in no record.
LEMMA ConnectTypes == ASSUME TypeInv, NEW w \in Workers, Connect(w) PROVE TypeInv'
<1> USE TypeParts
<1>1. /\ hop' = hop /\ via' = via /\ got' = got /\ count' = count /\ gets' = gets
      /\ UNCHANGED <<caches, told, fired, early>>
      /\ pc[w] = "connect" /\ losses' \in 0..MaxLosses
  BY ConnectEffect
<1>2. CASE pc' = [pc EXCEPT ![w] = "fail"] /\ UNCHANGED <<made, alive, madeVia, ctx>>
  <2>1. WorkerTypes'
    BY <1>1, <1>2 DEF WorkerTypes, Places
  <2>2. PlaceTypes'
    BY <1>1, <1>2 DEF WorkerTypes, PlaceTypes, InterpreterHasVia, HolderHasContext, OwnerHasContext, Owning
  <2>3. CacheTypes' /\ ListTypes' /\ NetworkTypes'
    BY <1>1, <1>2 DEF CacheTypes, ListTypes, NetworkTypes, caches
  <2>4. LatchTypes'
    BY <1>1, <1>2 DEF LatchTypes, caches, KeyOf, WorkerTypes
  <2>5. NothingUnmade'
    BY <1>1, <1>2 DEF NothingUnmade, caches
  <2>6. OneOwner'
    BY <1>1, <1>2 DEF OneOwner, Owning, WorkerTypes
  <2>7. NotYetListed' /\ ListedByVia'
    BY <1>1, <1>2 DEF NotYetListed, ListedByVia, WorkerTypes, caches
  <2> QED
    BY <2>1, <2>2, <2>3, <2>4, <2>5, <2>6, <2>7, TypePartsNext
<1>3. ASSUME NEW c \in Contexts, c = made + 1, made' = c, alive' = alive \cup {c},
             madeVia' = [madeVia EXCEPT ![c] = via[w]], ctx' = [ctx EXCEPT ![w] = c],
             \/ pc' = [pc EXCEPT ![w] = "lru"] /\ via[w] \in Contexts
             \/ pc' = [pc EXCEPT ![w] = "init"]
      PROVE  TypeInv'
  <2>1. made \in Nat /\ c \in Nat /\ c <= Cardinality(Contexts) /\ Cardinality(Contexts) \in Nat
    BY ContextFacts DEF NetworkTypes
  <2>2. WorkerTypes'
    BY <1>1, <1>3 DEF WorkerTypes, Places
  <2>3. PlaceTypes'
    BY <1>1, <1>3 DEF WorkerTypes, PlaceTypes, InterpreterHasVia, HolderHasContext, OwnerHasContext, Owning
  <2>4. CacheTypes' /\ ListTypes'
    BY <1>1, <1>3 DEF CacheTypes, ListTypes, caches
  <2>5. NetworkTypes'
    <3>1. made' \in 0..Cardinality(Contexts) /\ 1..made \subseteq 1..c /\ c \in 1..c /\ c \notin 1..made
      BY <1>3, <2>1
    <3>2. madeVia' \in [Contexts -> {None} \cup Contexts]
      BY <1>3 DEF NetworkTypes, WorkerTypes
    <3> QED
      BY <1>1, <1>3, <3>1, <3>2 DEF NetworkTypes
  <2>6. LatchTypes'
    <3> SUFFICES ASSUME NEW k \in Keys, NEW u \in latches[k]
                 PROVE  /\ k = KeyOf(u)'
                        /\ pc'[u] \in {"wait", "fail", "connect", "lru", "init", "record", "refer", "produce"}
      BY <1>1 DEF LatchTypes, caches
    <3>1. KeyOf(u)' = KeyOf(u)
      BY <1>1 DEF KeyOf
    <3>2. pc'[u] = pc[u] \/ pc'[u] \in {"lru", "init"}
      BY <1>3 DEF WorkerTypes, CacheTypes
    <3> QED
      BY <3>1, <3>2 DEF LatchTypes
  <2>7. NothingUnmade'
    <3>1. ASSUME NEW u \in Workers PROVE via[u] <= c /\ ctx'[u] <= c /\ got[u] <= c
      <4>1. via[u] <= made /\ ctx[u] <= made /\ got[u] <= made
        BY DEF NothingUnmade
      <4>2. via[u] \in Int /\ ctx[u] \in Int /\ got[u] \in Int
        BY ContextFacts DEF WorkerTypes, None, Absent
      <4> QED
        BY <1>3, <2>1, <4>1, <4>2 DEF WorkerTypes
    <3>2. ASSUME NEW k \in Keys PROVE response[k] <= c
      <4>1. response[k] <= made /\ response[k] \in Int
        BY ContextFacts DEF NothingUnmade, CacheTypes, None
      <4> QED
        BY <1>3, <2>1, <4>1
    <3>3. ASSUME NEW d \in Contexts, d > c PROVE d > made
      BY <1>3, <2>1, <3>3, ContextFacts
    <3>4. ASSUME NEW v \in Contexts, NEW i \in DOMAIN lru[v] PROVE lru[v][i] <= c
      <4>1. lru[v][i] <= made /\ lru[v][i] \in Int
        BY ContextFacts DEF NothingUnmade, ListTypes
      <4> QED
        BY <1>3, <2>1, <4>1
    <3> QED
      BY <1>1, <1>3, <3>1, <3>2, <3>3, <3>4 DEF NothingUnmade, caches
  <2>8. \A u \in Workers : ctx[u] # c
    BY <1>3, <2>1 DEF NothingUnmade
  <2>9. OneOwner'
    BY <1>3, <2>8 DEF OneOwner, Owning, WorkerTypes
  <2>10. \A v \in Contexts : \A i \in DOMAIN lru[v] : lru[v][i] # c
    BY <1>3, <2>1 DEF NothingUnmade
  <2>11. NotYetListed' /\ ListedByVia'
    BY <1>1, <1>3, <2>10 DEF NotYetListed, ListedByVia, WorkerTypes, caches
  <2> QED
    BY <2>2, <2>3, <2>4, <2>5, <2>6, <2>7, <2>9, <2>11, TypePartsNext
<1> QED
  BY <1>2, <1>3, ConnectEffect

\* The list of a context's interpreters keeps within its bound.
LEMMA UpdateLruTypes == ASSUME TypeInv, NEW w \in Workers, UpdateLru(w) PROVE TypeInv'
<1> USE TypeParts
<1>1. /\ UNCHANGED <<request, bounds, made, alive, madeVia, fired>>
      /\ pc[w] = "lru" /\ via[w] \in Contexts /\ ctx[w] \in Contexts
  BY UpdateLruEffect
<1>2. PICK v, c, vo : v = via[w] /\ c = ctx[w] /\ vo = [viaOf EXCEPT ![c] = v]
  OBVIOUS
<1>3. /\ v \in Contexts /\ c \in Contexts /\ vo \in [Contexts -> {Absent} \cup Contexts]
      /\ v <= made /\ c <= made
  BY <1>1, <1>2 DEF CacheTypes, NothingUnmade
<1>4. \A u \in Contexts : \A i \in DOMAIN lru[u] : lru[u][i] # c /\ lru[u][i] \in Contexts
  BY <1>1, <1>2 DEF NotYetListed, ListTypes
<1>5. \A u \in Contexts : \A i \in DOMAIN lru[u] : vo[lru[u][i]] \in {u, Absent} /\ lru[u][i] <= made
  BY <1>2, <1>3, <1>4 DEF ListedByVia, CacheTypes, NothingUnmade
<1>6. \A d \in Contexts : vo[d] # Absent => d <= made
  <2> SUFFICES ASSUME NEW d \in Contexts, vo[d] # Absent, d # c PROVE d <= made
    BY <1>3
  <2>1. viaOf[d] # Absent
    BY <1>2 DEF CacheTypes
  <2> QED
    BY <2>1, ContextFacts DEF NothingUnmade, NetworkTypes
<1>7. \A u \in Workers : u # w /\ pc[u] = "lru" => ctx[u] # c
  BY <1>1, <1>2 DEF OneOwner, Owning
<1>8. ASSUME pc' = [pc EXCEPT ![w] = "init"] \/ pc' = [pc EXCEPT ![w] = "fail"], viaOf' = vo,
             UNCHANGED <<told, response, latches, refs, keyOf, early>>,
             lru' \in [Contexts -> Seq(Contexts)],
             \A u \in Contexts : Len(lru'[u]) <= MaxInterpreters,
             \A u \in Contexts : \A i \in DOMAIN lru'[u] :
                (lru'[u][i] = c /\ u = v) \/ \E j \in DOMAIN lru[u] : lru'[u][i] = lru[u][j]
      PROVE  TypeInv'
  <2>1. WorkerTypes'
    BY <1>1, <1>8 DEF WorkerTypes, Places, request, bounds
  <2>2. PlaceTypes'
    BY <1>1, <1>8 DEF WorkerTypes, PlaceTypes, InterpreterHasVia, HolderHasContext, OwnerHasContext,
                      Owning, request
  <2>3. CacheTypes' /\ NetworkTypes' /\ ListTypes'
    BY <1>1, <1>3, <1>8 DEF CacheTypes, NetworkTypes, ListTypes, bounds
  <2>4. LatchTypes'
    <3> SUFFICES ASSUME NEW k \in Keys, NEW u \in latches[k]
                 PROVE  /\ k = KeyOf(u)'
                        /\ pc'[u] \in {"wait", "fail", "connect", "lru", "init", "record", "refer", "produce"}
      BY <1>8 DEF LatchTypes
    <3>1. KeyOf(u)' = KeyOf(u)
      BY <1>1 DEF KeyOf, request
    <3>2. pc'[u] = pc[u] \/ pc'[u] \in {"fail", "init"}
      BY <1>8 DEF WorkerTypes, CacheTypes
    <3> QED
      BY <3>1, <3>2 DEF LatchTypes
  <2>5. NothingUnmade'
    <3>1. \A d \in Contexts : d > made => vo[d] = Absent
      BY <1>6, ContextFacts DEF NetworkTypes
    <3>2. ASSUME NEW u \in Contexts, NEW i \in DOMAIN lru'[u] PROVE lru'[u][i] <= made
      <4>1. CASE lru'[u][i] = c
        BY <1>3, <4>1
      <4>2. CASE \E j \in DOMAIN lru[u] : lru'[u][i] = lru[u][j]
        BY <1>5, <4>2
      <4> QED
        BY <1>8, <4>1, <4>2
    <3> QED
      BY <1>1, <1>8, <3>1, <3>2 DEF NothingUnmade, request
  <2>6. OneOwner'
    <3>1. \A u \in Workers : pc'[u] \in Owning => pc[u] \in Owning
      BY <1>1, <1>8 DEF Owning, WorkerTypes
    <3> QED
      BY <1>1, <3>1 DEF OneOwner, request
  <2>7. NotYetListed'
    <3> SUFFICES ASSUME NEW u \in Workers, pc'[u] = "lru", NEW y \in Contexts, NEW i \in DOMAIN lru'[y]
                 PROVE  lru'[y][i] # ctx[u]
      BY <1>1 DEF NotYetListed, request
    <3>1. pc[u] = "lru" /\ u # w
      BY <1>8 DEF WorkerTypes
    <3>2. CASE lru'[y][i] = c
      BY <1>7, <3>1, <3>2
    <3>3. CASE \E j \in DOMAIN lru[y] : lru'[y][i] = lru[y][j]
      BY <3>1, <3>3 DEF NotYetListed
    <3> QED
      BY <1>8, <3>2, <3>3
  <2>8. ListedByVia'
    <3> SUFFICES ASSUME NEW y \in Contexts, NEW i \in DOMAIN lru'[y]
                 PROVE  vo[lru'[y][i]] \in {y, Absent}
      BY <1>8 DEF ListedByVia
    <3>1. vo[c] = v
      BY <1>2, <1>3 DEF CacheTypes
    <3>2. CASE lru'[y][i] = c /\ y = v
      BY <3>1, <3>2
    <3>3. CASE \E j \in DOMAIN lru[y] : lru'[y][i] = lru[y][j]
      BY <1>5, <3>3
    <3> QED
      BY <1>8, <3>2, <3>3
  <2> QED
    BY <2>1, <2>2, <2>3, <2>4, <2>5, <2>6, <2>7, <2>8, TypePartsNext
<1>9. CASE /\ Len(lru[v]) < MaxInterpreters
           /\ lru' = [lru EXCEPT ![v] = Append(lru[v], c)] /\ viaOf' = vo
           /\ pc' = [pc EXCEPT ![w] = "init"]
           /\ UNCHANGED <<told, response, latches, refs, keyOf, early>>
  <2>1. Append(lru[v], c) \in Seq(Contexts) /\ Len(Append(lru[v], c)) = Len(lru[v]) + 1
    BY <1>3 DEF ListTypes
  <2>2. Len(lru[v]) + 1 <= MaxInterpreters
    BY <1>3, <1>9, BoundFacts DEF ListTypes
  <2>3. lru' \in [Contexts -> Seq(Contexts)] /\ \A u \in Contexts : Len(lru'[u]) <= MaxInterpreters
    BY <1>3, <1>9, <2>1, <2>2 DEF ListTypes
  <2>4. ASSUME NEW u \in Contexts, NEW i \in DOMAIN lru'[u]
        PROVE  (lru'[u][i] = c /\ u = v) \/ \E j \in DOMAIN lru[u] : lru'[u][i] = lru[u][j]
    <3>1. CASE u = v
      <4>1. lru'[u] = Append(lru[v], c) /\ lru[v] \in Seq(Contexts)
        BY <1>3, <1>9, <3>1 DEF ListTypes
      <4>2. i \in 1..Len(lru[v]) + 1
        BY <2>1, <4>1
      <4> QED
        BY <3>1, <4>1, <4>2
    <3>2. CASE u # v
      BY <1>9, <3>2 DEF ListTypes
    <3> QED
      BY <3>1, <3>2
  <2> QED
    BY <1>8, <1>9, <2>3, <2>4
<1>10. CASE /\ viaOf' = vo
            /\ pc' = [pc EXCEPT ![w] = "init"] \/ pc' = [pc EXCEPT ![w] = "fail"]
            /\ UNCHANGED <<told, response, latches, refs, keyOf, lru, early>>
  BY <1>8, <1>10 DEF ListTypes
<1>11. ASSUME NEW n \in DOMAIN lru[v], Shutdown(lru[v][n], <<c>>, vo),
              pc' = [pc EXCEPT ![w] = "init"]
       PROVE  TypeInv'
  <2>1. PICK d \in Contexts : d = lru[v][n] /\ d # c
    BY <1>3, <1>4
  <2>2. <<c>> \in Seq(Contexts) /\ Shutdown(d, <<c>>, vo)
    BY <1>3, <1>11, <2>1
  <2>3. PICK lr \in [Contexts -> Seq(Contexts)] :
          /\ Unlisted(d, vo, lr)
          /\ lr = IF vo[d] = Absent THEN lru
                  ELSE [lru EXCEPT ![vo[d]] = RemoveFirst(lru[vo[d]], d) \o <<c>>]
    BY <1>3, <2>2, ShutdownFacts
  <2>4. told' = told \cup ({d} \cap alive)
    BY <1>3, <2>2, ShutdownFacts
  <2>5. vo[d] \in {v, Absent}
    BY <1>3, <1>5, <2>1
  <2>6. ListsFit(vo, lr)
    <3>1. CASE lr = lru
      <4>1. \A u \in Workers : pc'[u] = "lru" => pc[u] = "lru"
        BY <1>11 DEF WorkerTypes
      <4> QED
        BY <1>1, <1>5, <1>6, <3>1, <4>1 DEF ListsFit, ListTypes, NotYetListed, request
    <3>2. CASE lr = [lru EXCEPT ![v] = RemoveFirst(lru[v], d) \o <<c>>]
      <4>1. PICK r : r = RemoveFirst(lru[v], d)
        OBVIOUS
      <4>2. lru[v] \in Seq(Contexts) /\ Len(lru[v]) <= MaxInterpreters /\ n \in 1..Len(lru[v])
        BY <1>3 DEF ListTypes
      <4>3. /\ r \in Seq(Contexts) /\ Len(r) = Len(lru[v]) - 1
            /\ \A j \in 1..Len(r) : \E i \in 1..Len(lru[v]) : r[j] = lru[v][i]
        <5>1. PICK q \in Seq(Contexts) : q = lru[v]
          BY <4>2
        <5>2. (\E i \in 1..Len(q) : q[i] = d) /\ r = RemoveFirst(q, d)
          BY <2>1, <4>1, <4>2, <5>1
        <5>3. /\ r \in Seq(Contexts) /\ Len(r) = Len(q) - 1
              /\ \A j \in 1..Len(r) : \E i \in 1..Len(q) : r[j] = q[i]
          <6> HIDE TypeParts
          <6>1. r \in Seq(Contexts)
            BY <5>2, RemoveFirstFacts
          <6>2. Len(r) = Len(q) - 1
            BY <5>2, RemoveFirstFacts
          <6>3. \A j \in 1..Len(r) : \E i \in 1..Len(q) : r[j] = q[i]
            BY <5>2, RemoveFirstFacts, SMTT(30)
          <6> QED
            BY <6>1, <6>2, <6>3
        <5> QED
          BY <5>1, <5>3
      <4>4. lr[v] = r \o <<c>> /\ \A u \in Contexts : u # v => lr[u] = lru[u]
        BY <1>3, <3>2, <4>1 DEF ListTypes
      <4>5. Len(r \o <<c>>) = Len(r) + 1 /\ Len(lr[v]) <= MaxInterpreters
        BY <1>3, <4>2, <4>3, <4>4, BoundFacts
      <4>6. ASSUME NEW i \in DOMAIN lr[v]
            PROVE  lr[v][i] = c \/ \E j \in DOMAIN lru[v] : lr[v][i] = lru[v][j]
        <5>1. i \in 1..Len(r) + 1
          BY <1>3, <4>3, <4>4, <4>5
        <5>2. (r \o <<c>>)[i] = IF i <= Len(r) THEN r[i] ELSE c
          BY <1>3, <4>3, <5>1
        <5>3. CASE i <= Len(r)
          <6>1. i \in 1..Len(r)
            BY <4>3, <5>1, <5>3
          <6>2. PICK j \in 1..Len(lru[v]) : r[i] = lru[v][j]
            BY <4>3, <6>1
          <6>3. j \in DOMAIN lru[v] /\ lr[v][i] = r[i]
            BY <4>2, <4>4, <5>2, <5>3
          <6> QED
            BY <6>2, <6>3
        <5> QED
          BY <4>4, <5>2, <5>3
      <4>7. vo[c] = v
        BY <1>2, <1>3 DEF CacheTypes
      <4>8. ASSUME NEW u \in Contexts, NEW i \in DOMAIN lr[u]
            PROVE  lr[u][i] <= made /\ vo[lr[u][i]] \in {u, Absent}
        <5>1. CASE u = v
          BY <1>3, <1>5, <4>6, <4>7, <5>1
        <5>2. CASE u # v
          BY <1>5, <4>4, <5>2
        <5> QED
          BY <5>1, <5>2
      <4>9. ASSUME NEW u \in Workers, pc'[u] = "lru", NEW y \in Contexts, NEW i \in DOMAIN lr[y]
            PROVE  lr[y][i] # ctx[u]
        <5>1. pc[u] = "lru" /\ u # w
          BY <1>11, <4>9 DEF WorkerTypes
        <5>2. CASE y = v
          BY <1>3, <1>7, <4>6, <5>1, <5>2 DEF NotYetListed
        <5>3. CASE y # v
          BY <4>4, <5>1, <5>3, ZenonT(60) DEF NotYetListed
        <5> QED
          BY <5>2, <5>3
      <4>10. \A u \in Contexts : Len(lr[u]) <= MaxInterpreters
        BY <4>4, <4>5 DEF ListTypes
      <4>11. \A u \in Workers : ctx'[u] = ctx[u]
        BY <1>1 DEF request
      <4> QED
        BY <1>6, <4>8, <4>9, <4>10 DEF ListsFit
    <3> QED
      BY <1>3, <2>3, <2>5, <3>1, <3>2, ContextFacts
  <2>7. told' \subseteq alive /\ fired' \subseteq (1..made) \ alive /\ losses' \in 0..MaxLosses
    BY <1>1, <2>4 DEF NetworkTypes, bounds
  <2>8. /\ pc' \in [Workers -> Places]
        /\ \A u \in Workers : pc'[u] = pc[u] \/ (pc[u] = "lru" /\ pc'[u] = "init")
    BY <1>1, <1>11 DEF WorkerTypes, Places
  <2>9. UNCHANGED <<hop, via, ctx, got, count, gets, made, alive, madeVia>>
    BY <1>1 DEF request, bounds
  <2> QED
    BY <1>3, <2>3, <2>6, <2>7, <2>8, <2>9, ForgottenTypes
<1>12. \/ /\ Len(lru[v]) < MaxInterpreters
          /\ lru' = [lru EXCEPT ![v] = Append(lru[v], c)] /\ viaOf' = vo
          /\ pc' = [pc EXCEPT ![w] = "init"]
          /\ UNCHANGED <<told, response, latches, refs, keyOf, early>>
       \/ /\ viaOf' = vo
          /\ pc' = [pc EXCEPT ![w] = "init"] \/ pc' = [pc EXCEPT ![w] = "fail"]
          /\ UNCHANGED <<told, response, latches, refs, keyOf, lru, early>>
       \/ /\ \E i \in DOMAIN lru[v] : Shutdown(lru[v][i], <<c>>, vo)
          /\ pc' = [pc EXCEPT ![w] = "init"]
  <2>1. PICK x : /\ x = [viaOf EXCEPT ![ctx[w]] = via[w]]
                 /\ \/ /\ Len(lru[via[w]]) < MaxInterpreters
                       /\ lru' = [lru EXCEPT ![via[w]] = Append(lru[via[w]], ctx[w])] /\ viaOf' = x
                       /\ pc' = [pc EXCEPT ![w] = "init"]
                       /\ UNCHANGED <<told, response, latches, refs, keyOf, early>>
                    \/ /\ viaOf' = x
                       /\ pc' = [pc EXCEPT ![w] = "init"] \/ pc' = [pc EXCEPT ![w] = "fail"]
                       /\ UNCHANGED <<told, response, latches, refs, keyOf, lru, early>>
                    \/ /\ \E i \in DOMAIN lru[via[w]] : Shutdown(lru[via[w]][i], <<ctx[w]>>, x)
                       /\ pc' = [pc EXCEPT ![w] = "init"]
    BY UpdateLruEffect
  <2>2. x = vo
    BY <1>2, <2>1
  <2> QED
    BY <1>2, <2>1, <2>2
<1> QED
  BY <1>9, <1>10, <1>11, <1>12

\* What does not change of the types when a worker goes on to another place, with the lists
\* and the network as they are: it owns nothing new.
LEMMA StepTypes ==
    ASSUME TypeInv, NEW w \in Workers, NEW p \in Places, pc' = [pc EXCEPT ![w] = p],
           hop' = hop, via' = via, ctx' = ctx, gets' = gets, losses' = losses,
           viaOf' = viaOf, lru' = lru, UNCHANGED network,
           p \in Owning => pc[w] \in Owning, p # "lru", p # "hold"
    PROVE  PlaceTypes' /\ ListTypes' /\ NetworkTypes' /\ OneOwner' /\ NotYetListed' /\ ListedByVia'
<1> USE TypeParts
<1>1. \A u \in Workers : /\ pc'[u] \in Owning => pc[u] \in Owning
                         /\ pc'[u] = "lru" => pc[u] = "lru"
                         /\ pc'[u] = "hold" => pc[u] = "hold"
  BY DEF WorkerTypes
<1>2. PlaceTypes'
  BY <1>1 DEF PlaceTypes, InterpreterHasVia, HolderHasContext, OwnerHasContext
<1>3. ListTypes' /\ NetworkTypes' /\ ListedByVia'
  BY DEF ListTypes, NetworkTypes, network, ListedByVia
<1>4. OneOwner'
  BY <1>1 DEF OneOwner
<1>5. NotYetListed'
  BY <1>1 DEF NotYetListed
<1> QED
  BY <1>2, <1>3, <1>4, <1>5

\* init_child() answers, or the context is gone.
LEMMA InitChildTypes == ASSUME TypeInv, NEW w \in Workers, InitChild(w) PROVE TypeInv'
<1> USE TypeParts
<1>1. PICK p \in {"fail", "record"} : pc' = [pc EXCEPT ![w] = p]
  BY DEF InitChild, Go
<1>2. pc[w] = "init" /\ UNCHANGED <<hop, via, ctx, got, count, gets, losses, caches, network>>
  BY DEF InitChild, At, request, bounds
<1>3. PlaceTypes' /\ ListTypes' /\ NetworkTypes' /\ OneOwner' /\ NotYetListed' /\ ListedByVia'
  BY <1>1, <1>2, StepTypes DEF Places, Owning, caches
<1>4. WorkerTypes' /\ CacheTypes'
  BY <1>1, <1>2 DEF WorkerTypes, CacheTypes, Places, caches
<1>5. LatchTypes'
  BY <1>1, <1>2 DEF LatchTypes, KeyOf, WorkerTypes, caches
<1>6. NothingUnmade'
  BY <1>2 DEF NothingUnmade, caches, network
<1> QED
  BY <1>3, <1>4, <1>5, <1>6, TypePartsNext

\* The context is recorded under the key it was made for.
LEMMA RecordTypes == ASSUME TypeInv, NEW w \in Workers, Record(w) PROVE TypeInv'
<1> USE TypeParts
<1>1. /\ pc[w] = "record" /\ pc' = [pc EXCEPT ![w] = "refer"]
      /\ keyOf' = [keyOf EXCEPT ![ctx[w]] = KeyOf(w)]
      /\ UNCHANGED <<hop, via, ctx, got, count, gets, losses, response, latches, refs, viaOf, lru, network>>
  BY DEF Record, At, Go, request, bounds
<1>2. PlaceTypes' /\ ListTypes' /\ NetworkTypes' /\ OneOwner' /\ NotYetListed' /\ ListedByVia'
  BY <1>1, StepTypes DEF Places, Owning
<1>3. PICK k \in Keys, c \in Contexts : k = KeyOf(w) /\ c = ctx[w]
  BY <1>1, KeyType DEF PlaceTypes, OwnerHasContext, Owning
<1>4. WorkerTypes'
  BY <1>1 DEF WorkerTypes, Places
<1>5. CacheTypes'
  BY <1>1, <1>3 DEF CacheTypes
<1>6. LatchTypes'
  BY <1>1 DEF LatchTypes, KeyOf, WorkerTypes
<1>7. NothingUnmade'
  <2>1. c <= made
    BY <1>3 DEF NothingUnmade
  <2>2. ASSUME NEW d \in Contexts, d > made PROVE keyOf'[d] = <<>>
    <3>1. d # c
      BY <2>1, <2>2, ContextFacts DEF NetworkTypes
    <3> QED
      BY <1>1, <1>3, <2>2, <3>1 DEF NothingUnmade, CacheTypes
  <2> QED
    BY <1>1, <2>2 DEF NothingUnmade, network
<1> QED
  BY <1>2, <1>4, <1>5, <1>6, <1>7, TypePartsNext

\* The context is counted from none.
LEMMA ReferTypes == ASSUME TypeInv, NEW w \in Workers, Refer(w) PROVE TypeInv'
<1> USE TypeParts
<1>1. /\ pc[w] = "refer" /\ pc' = [pc EXCEPT ![w] = "produce"]
      /\ refs' = [refs EXCEPT ![ctx[w]] = 0]
      /\ UNCHANGED <<hop, via, ctx, got, count, gets, losses, response, latches, keyOf, viaOf, lru, network>>
  BY DEF Refer, At, Go, request, bounds
<1>2. PlaceTypes' /\ ListTypes' /\ NetworkTypes' /\ OneOwner' /\ NotYetListed' /\ ListedByVia'
  BY <1>1, StepTypes DEF Places, Owning
<1>3. PICK c \in Contexts : c = ctx[w]
  BY <1>1 DEF PlaceTypes, OwnerHasContext, Owning
<1>4. WorkerTypes'
  BY <1>1 DEF WorkerTypes, Places
<1>5. CacheTypes'
  BY <1>1, <1>3 DEF CacheTypes
<1>6. LatchTypes'
  BY <1>1 DEF LatchTypes, KeyOf, WorkerTypes
<1>7. NothingUnmade'
  <2>1. c <= made
    BY <1>3 DEF NothingUnmade
  <2>2. ASSUME NEW d \in Contexts, d > made PROVE refs'[d] = Absent
    <3>1. d # c
      BY <2>1, <2>2, ContextFacts DEF NetworkTypes
    <3> QED
      BY <1>1, <1>3, <2>2, <3>1 DEF NothingUnmade, CacheTypes
  <2> QED
    BY <1>1, <2>2 DEF NothingUnmade, network
<1> QED
  BY <1>2, <1>4, <1>5, <1>6, <1>7, TypePartsNext

\* Those that waited are answered and listed no more.
LEMMA ProduceTypes == ASSUME TypeInv, NEW w \in Workers, Produce(w) PROVE TypeInv'
<1> USE TypeParts
<1>1. /\ hop' = hop /\ via' = via /\ ctx' = ctx /\ gets' = gets /\ losses' = losses
      /\ response' = response /\ refs' = refs /\ keyOf' = keyOf /\ viaOf' = viaOf /\ lru' = lru
      /\ UNCHANGED network
      /\ pc[w] = "produce"
  BY ProduceEffect
<1>2. PICK k \in Keys, c \in Contexts : k = KeyOf(w) /\ c = ctx[w]
  BY <1>1, KeyType DEF PlaceTypes, OwnerHasContext, Owning
<1>3. PICK p \in {"fail", "store"} : pc' = [pc EXCEPT ![w] = p]
  BY ProduceEffect
<1>4. \/ latches[k] = {} /\ got' = got /\ count' = count /\ latches' = latches
      \/ /\ got' = [u \in Workers |-> IF u \in latches[k] THEN c ELSE got[u]]
         /\ latches' = [latches EXCEPT ![k] = {}]
         /\ count' = [count EXCEPT ![w] = Cardinality(latches[k])]
  BY <1>2, ProduceEffect
<1>5. PlaceTypes' /\ ListTypes' /\ NetworkTypes' /\ OneOwner' /\ NotYetListed' /\ ListedByVia'
  BY <1>1, <1>3, StepTypes DEF Places, Owning
<1>6. Cardinality(latches[k]) \in Nat
  BY FS_Subset, FS_CardinalityType, ContextsAssumption DEF CacheTypes
<1>7. WorkerTypes'
  <2>1. got' \in [Workers -> {None, Absent} \cup Contexts] /\ count' \in [Workers -> Nat]
    BY <1>4, <1>6 DEF WorkerTypes
  <2> QED
    BY <1>1, <1>3, <2>1 DEF WorkerTypes, Places
<1>8. latches' \in [Keys -> SUBSET Workers] /\ latches'[k] = {}
      /\ \A j \in Keys : latches'[j] \subseteq latches[j]
  BY <1>4 DEF CacheTypes
<1>9. CacheTypes'
  BY <1>1, <1>8 DEF CacheTypes
<1>10. LatchTypes'
  <2> SUFFICES ASSUME NEW j \in Keys, NEW u \in latches'[j]
               PROVE  /\ j = KeyOf(u)'
                      /\ pc'[u] \in {"wait", "fail", "connect", "lru", "init", "record", "refer", "produce"}
    BY DEF LatchTypes
  <2>1. u \in latches[j] /\ u \in Workers /\ KeyOf(u)' = KeyOf(u) /\ j # k
    BY <1>1, <1>8 DEF KeyOf, CacheTypes
  <2>2. u # w
    BY <1>2, <2>1 DEF LatchTypes
  <2> QED
    BY <1>3, <2>1, <2>2 DEF LatchTypes, WorkerTypes
<1>11. NothingUnmade'
  <2>1. ASSUME NEW u \in Workers PROVE got'[u] <= made
    <3>1. got[u] <= made /\ c <= made /\ Absent <= made
      BY <1>2, ContextFacts DEF NothingUnmade, NetworkTypes, Absent
    <3>2. got'[u] = got[u] \/ got'[u] = Absent \/ got'[u] = c
      BY <1>4 DEF WorkerTypes
    <3> QED
      BY <3>1, <3>2
  <2> QED
    BY <1>1, <2>1 DEF NothingUnmade, network
<1> QED
  BY <1>5, <1>7, <1>9, <1>10, <1>11, TypePartsNext

\* The response is recorded.
LEMMA StoreTypes == ASSUME TypeInv, NEW w \in Workers, Store(w) PROVE TypeInv'
<1> USE TypeParts
<1>1. /\ pc[w] = "store" /\ pc' = [pc EXCEPT ![w] = "addrefs"]
      /\ response' = [response EXCEPT ![KeyOf(w)] = ctx[w]]
      /\ UNCHANGED <<hop, via, ctx, got, count, gets, losses, latches, refs, keyOf, viaOf, lru, network>>
  BY DEF Store, At, Go, request, bounds
<1>2. PlaceTypes' /\ ListTypes' /\ NetworkTypes' /\ OneOwner' /\ NotYetListed' /\ ListedByVia'
  BY <1>1, StepTypes DEF Places, Owning
<1>3. PICK k \in Keys, c \in Contexts : k = KeyOf(w) /\ c = ctx[w]
  BY <1>1, KeyType DEF PlaceTypes, OwnerHasContext, Owning
<1>4. WorkerTypes'
  BY <1>1 DEF WorkerTypes, Places
<1>5. CacheTypes'
  BY <1>1, <1>3 DEF CacheTypes
<1>6. LatchTypes'
  BY <1>1 DEF LatchTypes, KeyOf, WorkerTypes
<1>7. NothingUnmade'
  BY <1>1, <1>3 DEF NothingUnmade, network, CacheTypes
<1> QED
  BY <1>2, <1>4, <1>5, <1>6, <1>7, TypePartsNext

\* The references of those answered are added, or the context is forgotten already.
LEMMA AddRefsEffect ==
    ASSUME TypeInv, NEW w \in Workers, AddRefs(w)
    PROVE  /\ UNCHANGED <<hop, via, ctx, got, gets, losses, response, latches, keyOf, viaOf, lru, network>>
           /\ pc[w] = "addrefs" /\ ctx[w] \in Contexts /\ count' = [count EXCEPT ![w] = 0]
           /\ \/ refs[ctx[w]] = Absent /\ pc' = [pc EXCEPT ![w] = "fail"] /\ refs' = refs
              \/ /\ refs[ctx[w]] \in Nat /\ pc' = [pc EXCEPT ![w] = "answered"]
                 /\ refs' = [refs EXCEPT ![ctx[w]] = refs[ctx[w]] + count[w]]
<1>1. /\ UNCHANGED <<hop, via, ctx, got, gets, losses, response, latches, keyOf, viaOf, lru, network>>
      /\ pc[w] = "addrefs" /\ count' = [count EXCEPT ![w] = 0]
  BY DEF AddRefs, At, bounds
<1>2. ctx[w] \in Contexts
  BY <1>1, TypeParts DEF PlaceTypes, OwnerHasContext, Owning
<1>3. refs[ctx[w]] # Absent => refs[ctx[w]] \in Nat
  BY <1>2, TypeParts DEF CacheTypes
<1> QED
  BY <1>1, <1>2, <1>3 DEF AddRefs, Go, Counted

\* The references keep being numbers.
LEMMA AddRefsTypes == ASSUME TypeInv, NEW w \in Workers, AddRefs(w) PROVE TypeInv'
<1> USE TypeParts
<1>1. /\ UNCHANGED <<hop, via, ctx, got, gets, losses, response, latches, keyOf, viaOf, lru, network>>
      /\ pc[w] = "addrefs" /\ ctx[w] \in Contexts /\ count' = [count EXCEPT ![w] = 0]
  BY AddRefsEffect
<1>2. PICK p \in {"answered", "fail"} : pc' = [pc EXCEPT ![w] = p]
  BY AddRefsEffect
<1>3. refs' \in [Contexts -> Nat \cup {Absent}] /\ \A c \in Contexts : refs[c] = Absent => refs'[c] = Absent
  <2>1. CASE refs' = refs
    BY <2>1 DEF CacheTypes
  <2>2. CASE refs[ctx[w]] \in Nat /\ refs' = [refs EXCEPT ![ctx[w]] = refs[ctx[w]] + count[w]]
    <3>1. PICK c \in Contexts, n \in Nat : c = ctx[w] /\ n = refs[c] + count[w] /\ refs[c] # Absent
      <4>1. count[w] \in Nat /\ refs[ctx[w]] + count[w] \in Nat /\ refs[ctx[w]] # Absent
        BY <2>2 DEF WorkerTypes, Absent
      <4> QED
        BY <1>1, <4>1
    <3> QED
      BY <2>2, <3>1 DEF CacheTypes
  <2> QED
    BY <2>1, <2>2, AddRefsEffect
<1>4. PlaceTypes' /\ ListTypes' /\ NetworkTypes' /\ OneOwner' /\ NotYetListed' /\ ListedByVia'
  BY <1>1, <1>2, StepTypes DEF Places, Owning
<1>5. WorkerTypes' /\ CacheTypes'
  BY <1>1, <1>2, <1>3 DEF WorkerTypes, CacheTypes, Places
<1>6. LatchTypes'
  BY <1>1, <1>2 DEF LatchTypes, KeyOf, WorkerTypes
<1>7. NothingUnmade'
  BY <1>1, <1>3 DEF NothingUnmade, network
<1> QED
  BY <1>4, <1>5, <1>6, <1>7, TypePartsNext

\* Those that waited are answered with the exception and listed no more.
LEMMA FailTypes == ASSUME TypeInv, NEW w \in Workers, Fail(w) PROVE TypeInv'
<1> USE TypeParts
<1>1. /\ hop' = hop /\ via' = via /\ ctx' = ctx /\ count' = count /\ gets' = gets /\ losses' = losses
      /\ response' = response /\ refs' = refs /\ keyOf' = keyOf /\ viaOf' = viaOf /\ lru' = lru
      /\ UNCHANGED network
      /\ pc[w] = "fail" /\ pc' = [pc EXCEPT ![w] = "answered"]
  BY FailEffect
<1>2. PICK k \in Keys : k = KeyOf(w)
  BY KeyType
<1>3. \/ latches[k] = {} /\ got' = [got EXCEPT ![w] = Absent]
      \/ got' = [u \in Workers |-> IF u \in latches[k] THEN Absent ELSE got[u]]
  BY <1>2, FailEffect
<1>4. PlaceTypes' /\ ListTypes' /\ NetworkTypes' /\ OneOwner' /\ NotYetListed' /\ ListedByVia'
  BY <1>1, StepTypes DEF Places, Owning
<1>5. latches' = [latches EXCEPT ![k] = {}]
  BY <1>2, FailEffect
<1>6. WorkerTypes' /\ CacheTypes'
  <2>1. got' \in [Workers -> {None, Absent} \cup Contexts]
    BY <1>3 DEF WorkerTypes
  <2> QED
    BY <1>1, <1>5, <2>1 DEF WorkerTypes, CacheTypes, Places
<1>7. LatchTypes'
  <2> SUFFICES ASSUME NEW j \in Keys, NEW u \in latches'[j]
               PROVE  /\ j = KeyOf(u)'
                      /\ pc'[u] \in {"wait", "fail", "connect", "lru", "init", "record", "refer", "produce"}
    BY DEF LatchTypes
  <2>1. u \in latches[j] /\ u \in Workers /\ KeyOf(u)' = KeyOf(u) /\ j # k
    BY <1>1, <1>5 DEF KeyOf, CacheTypes
  <2>2. u # w
    BY <1>2, <2>1 DEF LatchTypes
  <2> QED
    BY <1>1, <2>1, <2>2 DEF LatchTypes, WorkerTypes
<1>8. NothingUnmade'
  <2>1. ASSUME NEW u \in Workers PROVE got'[u] <= made
    <3>1. got[u] <= made /\ Absent <= made
      BY ContextFacts DEF NothingUnmade, NetworkTypes, Absent
    <3>2. got'[u] = got[u] \/ got'[u] = Absent
      BY <1>3 DEF WorkerTypes
    <3> QED
      BY <3>1, <3>2
  <2> QED
    BY <1>1, <2>1 DEF NothingUnmade, network
<1> QED
  BY <1>4, <1>6, <1>7, <1>8, TypePartsNext

\* The request goes on, or its worker has what it asked for.  A request with an answer is
\* listed no more.
LEMMA ContinueTypes ==
    ASSUME TypeInv, WaiterHasNothing, NEW w \in Workers, Continue(w) PROVE TypeInv'
<1> USE TypeParts
<1>1. /\ count' = count /\ UNCHANGED <<bounds, caches, network>>
      /\ pc[w] \in {"wait", "answered"} /\ got[w] # None /\ got' = [got EXCEPT ![w] = None]
  BY ContinueEffect
<1>2. PICK p \in {"idle", "find", "hold"} : pc' = [pc EXCEPT ![w] = p]
  BY ContinueEffect
<1>3. PICK h \in 1..Len(Stack[w]) : hop' = [hop EXCEPT ![w] = h]
  <2>1. hop[w] \in 1..Len(Stack[w]) /\ 1 \in 1..Len(Stack[w]) /\ hop = [hop EXCEPT ![w] = hop[w]]
    BY ContextsAssumption DEF WorkerTypes
  <2> QED
    BY <2>1, ContinueEffect
<1>4. PICK v \in {None} \cup Contexts : via' = [via EXCEPT ![w] = v] /\ v <= made
  <2>1. via = [via EXCEPT ![w] = via[w]] /\ via[w] \in {None} \cup Contexts
    BY DEF WorkerTypes
  <2>2. None <= made /\ via[w] <= made /\ got[w] <= made
    BY ContextFacts DEF NothingUnmade, None, NetworkTypes
  <2> QED
    BY <2>1, <2>2, ContinueEffect
<1>5. PICK c \in {None} \cup Contexts :
        ctx' = [ctx EXCEPT ![w] = c] /\ c <= made /\ (pc'[w] = "hold" => c \in Contexts)
  <2>1. None <= made /\ got[w] <= made /\ w \in DOMAIN pc
    BY ContextFacts DEF NothingUnmade, None, NetworkTypes, WorkerTypes
  <2> QED
    BY <2>1, ContinueEffect
<1>6. WorkerTypes'
  <2>1. h \in Nat
    OBVIOUS
  <2> QED
    BY <1>1, <1>2, <1>3, <1>4, <1>5, <2>1 DEF WorkerTypes, Places, bounds
<1>7. \A u \in Workers : /\ u # w => pc'[u] = pc[u] /\ via'[u] = via[u] /\ ctx'[u] = ctx[u] /\ hop'[u] = hop[u]
                         /\ pc'[w] \notin Owning
  BY <1>2, <1>3, <1>4, <1>5 DEF WorkerTypes, Owning
<1>8. PlaceTypes'
  BY <1>2, <1>5, <1>7 DEF PlaceTypes, InterpreterHasVia, HolderHasContext, OwnerHasContext, Owning, WorkerTypes
<1>9. CacheTypes' /\ ListTypes' /\ NetworkTypes' /\ ListedByVia'
  BY <1>1 DEF CacheTypes, ListTypes, NetworkTypes, ListedByVia, caches, network, bounds
<1>10. LatchTypes'
  <2> SUFFICES ASSUME NEW k \in Keys, NEW u \in latches[k]
               PROVE  /\ k = KeyOf(u)'
                      /\ pc'[u] \in {"wait", "fail", "connect", "lru", "init", "record", "refer", "produce"}
    BY <1>1 DEF LatchTypes, caches
  <2>1. u \in Workers /\ u # w
    BY <1>1 DEF WaiterHasNothing, CacheTypes
  <2>2. KeyOf(u)' = KeyOf(u) /\ pc'[u] = pc[u]
    BY <1>7, <2>1 DEF KeyOf
  <2> QED
    BY <2>2 DEF LatchTypes
<1>11. NothingUnmade'
  <2>1. \A u \in Workers : via'[u] <= made /\ ctx'[u] <= made
    BY <1>4, <1>5 DEF NothingUnmade, WorkerTypes
  <2>2. \A u \in Workers : got'[u] <= made
    <3>1. None <= made
      BY ContextFacts DEF None, NetworkTypes
    <3> QED
      BY <1>1, <3>1 DEF NothingUnmade, WorkerTypes
  <2> QED
    BY <1>1, <2>1, <2>2 DEF NothingUnmade, caches, network
<1>12. OneOwner'
  BY <1>7 DEF OneOwner
<1>13. NotYetListed'
  <2>1. "lru" \in Owning
    BY DEF Owning
  <2> QED
    BY <1>1, <1>7, <2>1 DEF NotYetListed, caches
<1> QED
  BY <1>6, <1>8, <1>9, <1>10, <1>11, <1>12, <1>13, TypePartsNext

\* put() takes a reference back.
LEMMA PutEffect ==
    ASSUME TypeInv, NEW w \in Workers, Put(w)
    PROVE  /\ UNCHANGED <<got, count, bounds, response, latches, keyOf, viaOf, lru, network>>
           /\ pc[w] = "hold" /\ ctx[w] \in Contexts /\ pc' = [pc EXCEPT ![w] = "idle"]
           /\ hop' = [hop EXCEPT ![w] = 1]
           /\ via' = [via EXCEPT ![w] = None] /\ ctx' = [ctx EXCEPT ![w] = None]
           /\ \/ refs[ctx[w]] \in {0, Absent} /\ refs' = refs
              \/ /\ refs[ctx[w]] \in Nat \ {0}
                 /\ refs' = [refs EXCEPT ![ctx[w]] = refs[ctx[w]] - 1]
<1>1. /\ UNCHANGED <<got, count, bounds, response, latches, keyOf, viaOf, lru, network>>
      /\ pc[w] = "hold" /\ pc' = [pc EXCEPT ![w] = "idle"]
      /\ hop' = [hop EXCEPT ![w] = 1]
      /\ via' = [via EXCEPT ![w] = None] /\ ctx' = [ctx EXCEPT ![w] = None]
      /\ refs' = [refs EXCEPT ![ctx[w]] = Returned(ctx[w])]
  BY DEF Put, At, Ends, Go
<1>2. ctx[w] \in Contexts
  BY <1>1, TypeParts DEF PlaceTypes, HolderHasContext
<1>3. refs[ctx[w]] \in {0, Absent} => refs' = refs
  BY <1>1, TypeParts DEF Returned, CacheTypes
<1>4. refs[ctx[w]] \notin {0, Absent} =>
        refs[ctx[w]] \in Nat \ {0} /\ refs' = [refs EXCEPT ![ctx[w]] = refs[ctx[w]] - 1]
  BY <1>1, <1>2, TypeParts DEF Returned, CacheTypes
<1> QED
  BY <1>1, <1>2, <1>3, <1>4

\* A reference given back leaves a number.
LEMMA PutTypes == ASSUME TypeInv, NEW w \in Workers, Put(w) PROVE TypeInv'
<1> USE TypeParts
<1>1. /\ UNCHANGED <<got, count, bounds, response, latches, keyOf, viaOf, lru, network>>
      /\ pc[w] = "hold" /\ ctx[w] \in Contexts /\ pc' = [pc EXCEPT ![w] = "idle"]
      /\ hop' = [hop EXCEPT ![w] = 1]
      /\ via' = [via EXCEPT ![w] = None] /\ ctx' = [ctx EXCEPT ![w] = None]
  BY PutEffect
<1>2. refs' \in [Contexts -> Nat \cup {Absent}] /\ \A c \in Contexts : refs[c] = Absent => refs'[c] = Absent
  <2>1. CASE refs' = refs
    BY <2>1 DEF CacheTypes
  <2>2. CASE refs[ctx[w]] \in Nat \ {0} /\ refs' = [refs EXCEPT ![ctx[w]] = refs[ctx[w]] - 1]
    <3>1. refs[ctx[w]] - 1 \in Nat /\ refs[ctx[w]] # Absent
      BY <2>2 DEF Absent
    <3>2. PICK c \in Contexts, n \in Nat : c = ctx[w] /\ n = refs[c] - 1 /\ refs[c] # Absent
      BY <1>1, <3>1
    <3> QED
      BY <2>2, <3>2 DEF CacheTypes
  <2> QED
    BY <2>1, <2>2, PutEffect
<1>3. WorkerTypes'
  <2>1. 1 \in 1..Len(Stack[w])
    BY ContextsAssumption
  <2> QED
    BY <1>1, <2>1 DEF WorkerTypes, Places, bounds
<1>4. \A u \in Workers : /\ u # w => pc'[u] = pc[u] /\ via'[u] = via[u] /\ ctx'[u] = ctx[u] /\ hop'[u] = hop[u]
                         /\ pc'[w] = "idle"
  BY <1>1 DEF WorkerTypes
<1>5. PlaceTypes' /\ OneOwner' /\ NotYetListed'
  BY <1>1, <1>4 DEF PlaceTypes, InterpreterHasVia, HolderHasContext, OwnerHasContext, Owning, OneOwner, NotYetListed
<1>6. CacheTypes' /\ ListTypes' /\ NetworkTypes' /\ ListedByVia'
  BY <1>1, <1>2 DEF CacheTypes, ListTypes, NetworkTypes, ListedByVia, network, bounds
<1>7. LatchTypes'
  <2> SUFFICES ASSUME NEW k \in Keys, NEW u \in latches[k]
               PROVE  /\ k = KeyOf(u)'
                      /\ pc'[u] \in {"wait", "fail", "connect", "lru", "init", "record", "refer", "produce"}
    BY <1>1 DEF LatchTypes
  <2>1. u \in Workers /\ u # w
    BY <1>1 DEF LatchTypes, CacheTypes
  <2>2. KeyOf(u)' = KeyOf(u) /\ pc'[u] = pc[u]
    BY <1>4, <2>1 DEF KeyOf
  <2> QED
    BY <2>2 DEF LatchTypes
<1>8. NothingUnmade'
  <2>1. None <= made
    BY ContextFacts DEF None, NetworkTypes
  <2>2. \A u \in Workers : via'[u] <= made /\ ctx'[u] <= made
    BY <1>1, <2>1 DEF NothingUnmade, WorkerTypes
  <2> QED
    BY <1>1, <1>2, <2>2 DEF NothingUnmade, network
<1> QED
  BY <1>3, <1>5, <1>6, <1>7, <1>8, TypePartsNext

\* A list that loses elements only still fits.
LEMMA SublistsFit ==
    ASSUME TypeInv, pc' = pc, ctx' = ctx, NEW lr \in [Contexts -> Seq(Contexts)],
           \A v \in Contexts : Sublist(lr[v], lru[v])
    PROVE  ListsFit(viaOf, lr)
<1> USE TypeParts
<1>1. \A d \in Contexts : viaOf[d] # Absent => d <= made
  BY ContextFacts DEF NothingUnmade, NetworkTypes
<1>2. \A v \in Contexts : Len(lr[v]) <= MaxInterpreters
  BY BoundFacts DEF ListTypes, Sublist
<1>3. \A v \in Contexts : \A i \in DOMAIN lr[v] : lr[v][i] <= made /\ viaOf[lr[v][i]] \in {v, Absent}
  BY DEF NothingUnmade, ListedByVia, Sublist
<1>4. \A u \in Workers : pc'[u] = "lru" => \A v \in Contexts : \A i \in DOMAIN lr[v] : lr[v][i] # ctx[u]
  BY DEF NotYetListed, Sublist
<1> QED
  BY <1>1, <1>2, <1>3, <1>4 DEF ListsFit

\* The disconnect event of a context keeps the types.
LEMMA FireTypes == ASSUME TypeInv, NEW c \in Contexts, Fire(c) PROVE TypeInv'
<1> USE TypeParts
<1>1. /\ c \in (1..made) \ (alive \cup fired) /\ fired' = fired \cup {c}
      /\ UNCHANGED <<pc, hop, via, ctx, got, count, gets, losses, made, alive, madeVia, told>>
      /\ Forget(c, viaOf, lru)
  BY DEF Fire, request, bounds
<1>2. /\ viaOf \in [Contexts -> {Absent} \cup Contexts] /\ lru \in [Contexts -> Seq(Contexts)]
      /\ CacheTypes /\ pc \in [Workers -> Places]
  BY DEF CacheTypes, ListTypes, WorkerTypes
<1>3. Unlisted(c, viaOf, lru)
  BY <1>1, <1>2, ForgetFacts
<1>4. ListsFit(viaOf, lru)
  <2>1. \A v \in Contexts : Sublist(lru[v], lru[v])
    BY <1>2 DEF Sublist
  <2> QED
    BY <1>1, <1>2, <2>1, SublistsFit
<1>5. losses' \in 0..MaxLosses /\ told' \subseteq alive /\ fired' \subseteq (1..made) \ alive
  BY <1>1 DEF NetworkTypes
<1> QED
  BY <1>1, <1>2, <1>3, <1>4, <1>5, ForgottenTypes

\* A context shut down leaves a list at most.
LEMMA ResetForgets ==
    ASSUME TypeInv, NEW w \in Workers, Reset(w)
    PROVE  /\ UNCHANGED <<pc, hop, via, ctx, got, count, gets, made, alive, madeVia, fired>>
           /\ losses' \in 0..MaxLosses
           /\ \E c \in Contexts, lr \in [Contexts -> Seq(Contexts)] :
                /\ told' = told \cup ({c} \cap alive)
                /\ Unlisted(c, viaOf, lr) /\ ListsFit(viaOf, lr)
<1> USE TypeParts
<1>1. /\ UNCHANGED <<pc, hop, via, ctx, got, count, gets, made, alive, madeVia, fired>>
      /\ losses' \in 0..MaxLosses
  BY ResetEffect
<1>2. PICK c \in Contexts : Shutdown(c, <<>>, viaOf)
  BY ResetEffect
<1>3. viaOf \in [Contexts -> {Absent} \cup Contexts] /\ <<>> \in Seq(Contexts)
      /\ lru \in [Contexts -> Seq(Contexts)]
  BY DEF CacheTypes, ListTypes
<1>4. /\ told' = told \cup ({c} \cap alive)
      /\ \E lr \in [Contexts -> Seq(Contexts)] :
            /\ Unlisted(c, viaOf, lr)
            /\ lr = IF viaOf[c] = Absent THEN lru
                    ELSE [lru EXCEPT ![viaOf[c]] = RemoveFirst(lru[viaOf[c]], c) \o <<>>]
  BY <1>2, <1>3, ShutdownFacts
<1>5. PICK lr \in [Contexts -> Seq(Contexts)] :
        /\ Unlisted(c, viaOf, lr)
        /\ lr = IF viaOf[c] = Absent THEN lru
                ELSE [lru EXCEPT ![viaOf[c]] = RemoveFirst(lru[viaOf[c]], c) \o <<>>]
  BY <1>4
<1>6. ASSUME NEW v \in Contexts PROVE Sublist(lr[v], lru[v])
  <2>1. CASE lr[v] = lru[v]
    BY <1>3, <2>1 DEF Sublist
  <2>2. CASE lr[v] # lru[v]
    <3>1. lr[v] = RemoveFirst(lru[v], c) \o <<>>
      BY <1>3, <1>5, <2>2
    <3>2. lru[v] \in Seq(Contexts)
      BY <1>3
    <3>3. RemoveFirst(lru[v], c) \in Seq(Contexts) /\ Sublist(RemoveFirst(lru[v], c), lru[v])
      BY <3>2, RemoveFirstIsSublist
    <3>4. PICK r \in Seq(Contexts) : r = RemoveFirst(lru[v], c)
      BY <3>3
    <3>5. r \o <<>> = r
      OBVIOUS
    <3> QED
      BY <3>1, <3>3, <3>4, <3>5
  <2> QED
    BY <2>1, <2>2
<1>7. ListsFit(viaOf, lr)
  BY <1>1, <1>6, SublistsFit
<1> QED
  BY <1>1, <1>4, <1>5, <1>7

\* reset() keeps the types.
LEMMA ResetTypes == ASSUME TypeInv, NEW w \in Workers, Reset(w) PROVE TypeInv'
<1> USE TypeParts
<1>1. /\ UNCHANGED <<pc, hop, via, ctx, got, count, gets, made, alive, madeVia, fired>>
      /\ losses' \in 0..MaxLosses
  BY ResetForgets
<1>2. PICK c \in Contexts, lr \in [Contexts -> Seq(Contexts)] :
        told' = told \cup ({c} \cap alive) /\ Unlisted(c, viaOf, lr) /\ ListsFit(viaOf, lr)
  BY ResetForgets
<1>3. told' \subseteq alive /\ fired' \subseteq (1..made) \ alive
  BY <1>1, <1>2 DEF NetworkTypes
<1>4. viaOf \in [Contexts -> {Absent} \cup Contexts] /\ pc \in [Workers -> Places]
  BY DEF CacheTypes, WorkerTypes
<1> QED
  BY <1>1, <1>2, <1>3, <1>4, ForgottenTypes

\* Contexts die, and lose those connected through them.
LEMMA DieTypes == ASSUME TypeInv, NEW c \in Contexts, Die(c) PROVE TypeInv'
<1> USE TypeParts
<1>1. /\ alive' \subseteq alive /\ told' = told \cap alive' /\ losses' \in 0..MaxLosses
      /\ UNCHANGED <<pc, hop, via, ctx, got, count, gets, caches, made, madeVia, fired, early>>
  <2>1. losses' = losses \/ (losses < MaxLosses /\ losses' = losses + 1)
    BY DEF Die
  <2>2. losses' \in 0..MaxLosses
    BY <2>1, BoundFacts DEF NetworkTypes
  <2> QED
    BY <2>2 DEF Die, request
<1>2. WorkerTypes' /\ PlaceTypes' /\ CacheTypes' /\ ListTypes'
  BY <1>1 DEF WorkerTypes, PlaceTypes, InterpreterHasVia, HolderHasContext, OwnerHasContext, CacheTypes,
              ListTypes, caches
<1>3. NetworkTypes'
  BY <1>1 DEF NetworkTypes
<1>4. LatchTypes'
  BY <1>1 DEF LatchTypes, caches, KeyOf
<1>5. NothingUnmade' /\ OneOwner' /\ NotYetListed' /\ ListedByVia'
  BY <1>1 DEF NothingUnmade, OneOwner, NotYetListed, ListedByVia, caches
<1> QED
  BY <1>2, <1>3, <1>4, <1>5, TypePartsNext

\* Nothing is made and nobody waits.
LEMMA InitTypes == Init => TypeInv /\ WaiterHasNothing
<1> SUFFICES ASSUME Init PROVE TypeInv /\ WaiterHasNothing
  OBVIOUS
<1>1. WorkerTypes
  <2>1. \A w \in Workers : 1 \in 1..Len(Stack[w])
    BY ContextsAssumption
  <2> QED
    BY <2>1, BoundFacts DEF Init, WorkerTypes, Places
<1>2. PlaceTypes /\ OneOwner /\ NotYetListed
  BY DEF Init, PlaceTypes, InterpreterHasVia, HolderHasContext, OwnerHasContext, Owning, OneOwner, NotYetListed
<1>3. CacheTypes
  BY DEF Init, CacheTypes
<1>4. ListTypes
  BY BoundFacts DEF Init, ListTypes
<1>5. NetworkTypes
  BY BoundFacts, ContextFacts DEF Init, NetworkTypes
<1>6. LatchTypes /\ WaiterHasNothing
  BY DEF Init, LatchTypes, WaiterHasNothing
<1>7. NothingUnmade /\ ListedByVia
  BY DEF Init, NothingUnmade, ListedByVia, None
<1> QED
  BY <1>1, <1>2, <1>3, <1>4, <1>5, <1>6, <1>7, TypeParts

----------------------------------------------------------------------------
(* A request that is listed has no answer yet.                             *)

\* It stays so when nobody is listed and nobody is given anything.
LEMMA NothingGiven ==
    ASSUME WaiterHasNothing, got' = got, \A k \in Keys : latches'[k] \subseteq latches[k],
           \A w \in Workers : pc'[w] \in {"idle", "find", "hold"} => got[w] = None
    PROVE  WaiterHasNothing'
  BY DEF WaiterHasNothing

\* An answer takes those it is for off the list.
LEMMA WaiterStep ==
    ASSUME TypeInv, WaiterHasNothing, [Next]_vars PROVE WaiterHasNothing'
<1> USE TypeParts
<1>1. ASSUME NEW w \in Workers, WaitOrStart(w) PROVE WaiterHasNothing'
  <2>1. pc[w] \in {"idle", "find"} /\ got[w] = None
    BY <1>1, WaitOrStartEffect DEF WaiterHasNothing
  <2>2. \A k \in Keys : w \notin latches[k]
    BY <2>1 DEF LatchTypes
  <2>3. CASE latches' = latches /\ pc' = [pc EXCEPT ![w] = "answered"]
    <3>1. \A u \in Workers : u # w => got'[u] = got[u] /\ pc'[u] = pc[u]
      BY <1>1, <2>3, WaitOrStartEffect DEF WorkerTypes
    <3>2. pc'[w] = "answered"
      BY <2>3 DEF WorkerTypes
    <3> QED
      BY <2>2, <2>3, <3>1, <3>2 DEF WaiterHasNothing, CacheTypes
  <2>4. CASE /\ got' = got /\ latches' = [latches EXCEPT ![KeyOf(w)] = latches[KeyOf(w)] \cup {w}]
             /\ pc' = [pc EXCEPT ![w] = IF latches[KeyOf(w)] = {} THEN "connect" ELSE "wait"]
    BY <2>1, <2>4 DEF WaiterHasNothing, CacheTypes, WorkerTypes
  <2> QED
    BY <1>1, <2>3, <2>4, WaitOrStartEffect
<1>2. ASSUME NEW w \in Workers, Connect(w) PROVE WaiterHasNothing'
  BY <1>2, NothingGiven DEF Connect, Go, WaiterHasNothing, WorkerTypes, caches
<1>3. ASSUME NEW w \in Workers, UpdateLru(w) PROVE WaiterHasNothing'
  <2>1. got' = got /\ \A u \in Workers : pc'[u] \in {"idle", "find", "hold"} => pc'[u] = pc[u]
    <3>1. got' = got /\ \E p \in {"init", "fail"} : pc' = [pc EXCEPT ![w] = p]
      BY <1>3, UpdateLruEffect DEF request
    <3> QED
      BY <3>1 DEF WorkerTypes
  <2>2. \A k \in Keys : latches'[k] \subseteq latches[k]
    <3>1. CASE latches' = latches
      BY <3>1
    <3>2. ASSUME NEW vo, NEW i \in DOMAIN lru[via[w]], Shutdown(lru[via[w]][i], <<ctx[w]>>, vo)
          PROVE  \A k \in Keys : latches'[k] \subseteq latches[k]
      BY <3>2 DEF Shutdown, Forget, CacheTypes
    <3> QED
      BY <1>3, <3>1, <3>2, UpdateLruEffect
  <2> QED
    BY <2>1, <2>2, NothingGiven DEF WaiterHasNothing
<1>4. ASSUME NEW w \in Workers, InitChild(w) \/ Record(w) \/ Refer(w) \/ Store(w) \/ AddRefs(w)
      PROVE  WaiterHasNothing'
  <2>1. got' = got /\ latches' = latches
    BY <1>4 DEF InitChild, Record, Refer, Store, AddRefs, request, caches
  <2>2. \A u \in Workers : pc'[u] \in {"idle", "find", "hold"} => pc'[u] = pc[u]
    BY <1>4 DEF InitChild, Record, Refer, Store, AddRefs, Go, WorkerTypes
  <2> QED
    BY <2>1, <2>2, NothingGiven DEF WaiterHasNothing
<1>5. ASSUME NEW w \in Workers, NEW k \in Keys, k = KeyOf(w), pc[w] \in {"produce", "fail"},
             NEW p \in {"answered", "store", "fail"}, pc' = [pc EXCEPT ![w] = p],
             \A u \in Workers : got'[u] = got[u] \/ u \in latches[k] \/ (u = w /\ latches[k] = {}),
             \/ latches[k] = {} /\ latches' = latches
             \/ latches' = [latches EXCEPT ![k] = {}]
      PROVE  WaiterHasNothing'
  <2>1. \A j \in Keys : latches'[j] \subseteq latches[j] /\ latches'[k] = {}
    BY <1>5 DEF CacheTypes
  <2>2. ASSUME NEW j \in Keys, NEW u \in latches'[j] PROVE got'[u] = None
    <3>1. u \in latches[j] /\ j = KeyOf(u) /\ j # k /\ u \in Workers
      BY <2>1 DEF LatchTypes, CacheTypes
    <3>2. u \notin latches[k] /\ u # w
      BY <1>5, <3>1 DEF LatchTypes
    <3> QED
      BY <1>5, <3>1, <3>2 DEF WaiterHasNothing
  <2>3. ASSUME NEW u \in Workers, pc'[u] \in {"idle", "find", "hold"} PROVE got'[u] = None
    <3>1. u # w /\ pc'[u] = pc[u]
      BY <1>5, <2>3 DEF WorkerTypes
    <3>2. u \notin latches[k]
      BY <2>3, <3>1 DEF LatchTypes
    <3> QED
      BY <1>5, <2>3, <3>1, <3>2 DEF WaiterHasNothing
  <2> QED
    BY <2>2, <2>3 DEF WaiterHasNothing
<1>6. ASSUME NEW w \in Workers, Produce(w) PROVE WaiterHasNothing'
  <2>1. PICK k \in Keys : k = KeyOf(w)
    BY KeyType
  <2>2. /\ pc[w] = "produce"
        /\ \/ latches[k] = {} /\ latches' = latches
           \/ latches' = [latches EXCEPT ![k] = {}]
        /\ \A u \in Workers : got'[u] = got[u] \/ u \in latches[k] \/ (u = w /\ latches[k] = {})
        /\ \E p \in {"fail", "store"} : pc' = [pc EXCEPT ![w] = p]
    BY <1>6, <2>1, ProduceEffect DEF WorkerTypes
  <2> QED
    BY <1>5, <2>1, <2>2
<1>7. ASSUME NEW w \in Workers, Fail(w) PROVE WaiterHasNothing'
  <2>1. PICK k \in Keys : k = KeyOf(w)
    BY KeyType
  <2>2. /\ pc[w] = "fail" /\ latches' = [latches EXCEPT ![k] = {}]
        /\ \A u \in Workers : got'[u] = got[u] \/ u \in latches[k] \/ (u = w /\ latches[k] = {})
        /\ pc' = [pc EXCEPT ![w] = "answered"]
    BY <1>7, <2>1, FailEffect, ZenonT(60) DEF WorkerTypes
  <2> QED
    BY <1>5, <2>1, <2>2
<1>8. ASSUME NEW w \in Workers, Continue(w) PROVE WaiterHasNothing'
  <2>1. latches' = latches /\ got' = [got EXCEPT ![w] = None]
    BY <1>8, ContinueEffect DEF caches
  <2>2. \A u \in Workers : u # w => pc'[u] = pc[u]
    BY <1>8, ContinueEffect, ZenonT(60) DEF WorkerTypes
  <2> QED
    BY <2>1, <2>2 DEF WaiterHasNothing, WorkerTypes, CacheTypes
<1>9. ASSUME NEW w \in Workers, Put(w) PROVE WaiterHasNothing'
  <2>1. got' = got /\ latches' = latches /\ pc[w] = "hold" /\ pc' = [pc EXCEPT ![w] = "idle"]
    BY <1>9, PutEffect
  <2> QED
    BY <2>1, NothingGiven DEF WaiterHasNothing, WorkerTypes
<1>10. ASSUME NEW c, Forget(c, viaOf, lru) \/ Shutdown(c, <<>>, viaOf), got' = got, pc' = pc
       PROVE  WaiterHasNothing'
  <2>1. \A k \in Keys : latches'[k] \subseteq latches[k]
    BY <1>10 DEF Shutdown, Forget, CacheTypes
  <2> QED
    BY <1>10, <2>1, NothingGiven DEF WaiterHasNothing
<1>11. ASSUME NEW w \in Workers, Reset(w) PROVE WaiterHasNothing'
  BY <1>10, <1>11, ResetEffect
<1>12. ASSUME NEW c \in Contexts, Fire(c) PROVE WaiterHasNothing'
  BY <1>10, <1>12 DEF Fire, request
<1>13. ASSUME NEW c \in Contexts, Die(c) PROVE WaiterHasNothing'
  BY <1>13, NothingGiven DEF Die, request, caches, WaiterHasNothing
<1>14. CASE UNCHANGED vars
  BY <1>14, NothingGiven DEF vars, request, caches, WaiterHasNothing
<1> QED
  BY <1>1, <1>2, <1>3, <1>4, <1>6, <1>7, <1>8, <1>9, <1>11, <1>12, <1>13, <1>14 DEF Next, ServiceStep

\* So each step keeps the types.
LEMMA TypeStep == ASSUME TypeInv, WaiterHasNothing, [Next]_vars PROVE TypeInv' /\ WaiterHasNothing'
<1>1. CASE UNCHANGED vars
  <2>1. TypeInv'
    BY <1>1 DEF TypeInv, TypeOK, InterpreterHasVia, HolderHasContext, NothingUnmade, OwnerHasContext,
                OneOwner, NotYetListed, ListedByVia, KeyOf, vars, request, bounds, caches, network
  <2> QED
    BY <2>1, WaiterStep
<1>2. CASE Next
  BY <1>2, WaitOrStartTypes, ConnectTypes, UpdateLruTypes, InitChildTypes, RecordTypes, ReferTypes, ProduceTypes,
     StoreTypes, AddRefsTypes, FailTypes, ContinueTypes, PutTypes, ResetTypes, DieTypes, FireTypes,
     WaiterStep
     DEF Next, ServiceStep
<1> QED
  BY <1>1, <1>2

\* ContextService: every variable keeps its type, a worker listed for a configuration wants
\* it and has no answer yet, and no context has more interpreters listed than
\* max_interpreters.
THEOREM ContextsTypeCorrect == Spec => []TypeOK
<1>1. TypeInv /\ WaiterHasNothing /\ [Next]_vars => TypeInv' /\ WaiterHasNothing'
  BY TypeStep
<1>2. TypeInv => TypeOK
  BY DEF TypeInv
<1> QED
  BY InitTypes, <1>1, <1>2, PTL DEF Spec

----------------------------------------------------------------------------
(* What is recorded of a context.                                          *)

\* Whoever goes on owns nothing new, and the records are as they were.
LEMMA RecordFrame ==
    ASSUME TypeInv, RecordInv, response' = response, keyOf' = keyOf, early' = early, fired' = fired,
           \A c \in Contexts : refs'[c] = Absent => refs[c] = Absent,
           \A u \in Workers : pc'[u] \in Owning =>
                /\ hop'[u] = hop[u] /\ via'[u] = via[u] /\ ctx'[u] = ctx[u]
                /\ \/ pc'[u] = pc[u]
                   \/ pc[u] = "produce" /\ pc'[u] = "store"
                   \/ pc[u] = "lru" /\ pc'[u] = "init"
    PROVE  RecordInv'
<1> USE TypeParts DEF RecordInv
<1>1. ASSUME NEW w \in Workers, pc'[w] \in {"produce", "store", "addrefs"}
      PROVE  ctx'[w] \in early \/ (keyOf[ctx'[w]] = KeyOf(w)' /\ refs'[ctx'[w]] # Absent)
  <2>1. /\ pc[w] \in {"produce", "store", "addrefs"}
        /\ KeyOf(w)' = KeyOf(w) /\ ctx'[w] = ctx[w] /\ ctx[w] \in Contexts
    BY <1>1 DEF Owning, KeyOf, PlaceTypes, OwnerHasContext
  <2> QED
    BY <2>1 DEF RecordedUntilCounted
<1>2. RecordedUntilCounted'
  BY <1>1 DEF RecordedUntilCounted
<1>3. LossNoticed'
  BY DEF LossNoticed, Owning
<1>4. ResponseIsRecorded'
  BY DEF ResponseIsRecorded
<1>5. NotYetRecorded'
  BY DEF NotYetRecorded, Owning
<1>6. KeyRecorded'
  <2> SUFFICES ASSUME NEW w \in Workers, pc'[w] = "refer"
               PROVE  ctx'[w] \in early \/ keyOf[ctx'[w]] = KeyOf(w)'
    BY DEF KeyRecorded
  <2>1. pc[w] = "refer" /\ KeyOf(w)' = KeyOf(w) /\ ctx'[w] = ctx[w]
    BY DEF Owning, KeyOf
  <2> QED
    BY <2>1 DEF KeyRecorded
<1> QED
  BY <1>2, <1>3, <1>4, <1>5, <1>6

\* A context that is forgotten while one of its key is made was lost early.
LEMMA ForgottenRecords ==
    ASSUME TypeInv, RecordInv, NEW c \in Contexts, NEW vo, NEW lr, Unlisted(c, vo, lr),
           UNCHANGED <<hop, via, ctx>>, fired \subseteq fired', fired' \subseteq fired \cup {c},
           \A u \in Workers : pc'[u] = pc[u] \/ (pc[u] = "lru" /\ pc'[u] = "init")
    PROVE  RecordInv'
<1> USE TypeParts DEF RecordInv
<1>1. early \subseteq early' /\ (Untimely(c) => c \in early')
  BY DEF Unlisted
<1>2. \A u \in Workers : KeyOf(u)' = KeyOf(u)
  BY DEF KeyOf
<1>3. \A u \in Workers : pc[u] \in {"refer", "produce", "store", "addrefs"} /\ keyOf[c] = KeyOf(u)
                         => Untimely(c)
  BY DEF Untimely, Making, Answering
<1>4. RecordedUntilCounted'
  <2> SUFFICES ASSUME NEW w \in Workers, pc[w] \in {"produce", "store", "addrefs"}, ctx[w] \notin early'
               PROVE  keyOf'[ctx[w]] = KeyOf(w) /\ refs'[ctx[w]] # Absent
    BY <1>2 DEF RecordedUntilCounted
  <2>1. ctx[w] \in Contexts /\ keyOf[ctx[w]] = KeyOf(w) /\ refs[ctx[w]] # Absent
    BY <1>1 DEF RecordedUntilCounted, PlaceTypes, OwnerHasContext, Owning
  <2>2. ctx[w] # c
    BY <1>1, <1>3, <2>1
  <2> QED
    BY <2>1, <2>2 DEF Unlisted
<1>5. LossNoticed'
  <2> SUFFICES ASSUME NEW w \in Workers, pc[w] \in {"record", "refer", "produce", "store"}, ctx[w] \in fired'
               PROVE  ctx[w] \in early'
    BY DEF LossNoticed
  <2>1. CASE ctx[w] \in fired
    BY <1>1, <2>1 DEF LossNoticed
  <2>2. CASE ctx[w] = c /\ pc[w] = "record"
    BY <1>1, <2>2 DEF Untimely
  <2>3. CASE ctx[w] = c /\ pc[w] # "record"
    BY <1>1, <1>3, <2>3 DEF RecordedUntilCounted, KeyRecorded
  <2> QED
    BY <2>1, <2>2, <2>3
<1>6. ResponseIsRecorded'
  <2> SUFFICES ASSUME NEW k \in Keys, response'[k] # None, response'[k] \notin early'
               PROVE  keyOf'[response'[k]] = k /\ response'[k] \notin fired'
    BY DEF ResponseIsRecorded
  <2>1. response'[k] = response[k] /\ response[k] \in Contexts
    BY DEF Unlisted, CacheTypes
  <2>2. keyOf[response[k]] = k /\ response[k] \notin fired
    BY <1>1, <2>1 DEF ResponseIsRecorded
  <2>3. response[k] # c
    BY <2>1, <2>2, NoKey DEF Unlisted
  <2> QED
    BY <2>1, <2>2, <2>3, NoKey DEF Unlisted
<1>7. NotYetRecorded'
  <2> SUFFICES ASSUME NEW w \in Workers, pc'[w] \in {"lru", "init", "record", "refer", "produce", "store"},
                      NEW k \in Keys
               PROVE  response'[k] # ctx[w]
    BY DEF NotYetRecorded
  <2>1. pc[w] \in {"lru", "init", "record", "refer", "produce", "store"} /\ ctx[w] \in Contexts
    BY DEF PlaceTypes, OwnerHasContext, Owning
  <2>2. response'[k] = response[k] \/ response'[k] = None
    BY DEF Unlisted
  <2> QED
    BY <2>1, <2>2, ContextFacts DEF NotYetRecorded
<1>8. KeyRecorded'
  <2> SUFFICES ASSUME NEW w \in Workers, pc[w] = "refer", ctx[w] \notin early'
               PROVE  keyOf'[ctx[w]] = KeyOf(w)
    BY <1>2 DEF KeyRecorded
  <2>1. ctx[w] \in Contexts /\ keyOf[ctx[w]] = KeyOf(w)
    BY <1>1 DEF KeyRecorded, PlaceTypes, OwnerHasContext, Owning
  <2>2. ctx[w] # c
    BY <1>1, <1>3, <2>1
  <2> QED
    BY <2>1, <2>2 DEF Unlisted
<1> QED
  BY <1>4, <1>5, <1>6, <1>7, <1>8

\* Those who only wait, answer, count or go on.
LEMMA PlainRecordStep ==
    ASSUME TypeInv, RecordInv, NEW w \in Workers,
           WaitOrStart(w) \/ Produce(w) \/ AddRefs(w) \/ Fail(w) \/ Continue(w) \/ Put(w)
    PROVE  RecordInv'
<1> USE TypeParts
<1>1. CASE WaitOrStart(w)
  <2>1. /\ hop' = hop /\ via' = via /\ ctx' = ctx
        /\ response' = response /\ keyOf' = keyOf /\ early' = early /\ fired' = fired
    BY <1>1, WaitOrStartEffect DEF network
  <2>2. \E p \in {"answered", "connect", "wait"} : pc' = [pc EXCEPT ![w] = p]
    BY <1>1, WaitOrStartEffect
  <2>3. \A c \in Contexts : refs'[c] = Absent => refs[c] = Absent
    <3>1. ASSUME NEW d \in Contexts, refs[d] # Absent, refs' = [refs EXCEPT ![d] = refs[d] + 1]
          PROVE  \A c \in Contexts : refs'[c] = Absent => refs[c] = Absent
      BY <3>1 DEF CacheTypes, Absent
    <3> QED
      BY <1>1, <3>1, WaitOrStartEffect
  <2> QED
    BY <2>1, <2>2, <2>3, RecordFrame DEF Owning, WorkerTypes
<1>2. CASE Produce(w)
  <2>1. /\ hop' = hop /\ via' = via /\ ctx' = ctx /\ refs' = refs
        /\ response' = response /\ keyOf' = keyOf /\ early' = early /\ fired' = fired /\ pc[w] = "produce"
    BY <1>2, ProduceEffect DEF network
  <2>2. \E p \in {"fail", "store"} : pc' = [pc EXCEPT ![w] = p]
    BY <1>2, ProduceEffect
  <2> QED
    BY <2>1, <2>2, RecordFrame DEF Owning, WorkerTypes
<1>3. CASE AddRefs(w)
  <2>1. /\ hop' = hop /\ via' = via /\ ctx' = ctx
        /\ response' = response /\ keyOf' = keyOf /\ early' = early /\ fired' = fired
    BY <1>3, AddRefsEffect DEF network
  <2>2. \E p \in {"answered", "fail"} : pc' = [pc EXCEPT ![w] = p]
    BY <1>3, AddRefsEffect
  <2>3. \A c \in Contexts : refs'[c] = Absent => refs[c] = Absent
    <3>1. ASSUME NEW d \in Contexts, refs[d] \in Nat, refs' = [refs EXCEPT ![d] = refs[d] + count[w]]
          PROVE  \A c \in Contexts : refs'[c] = Absent => refs[c] = Absent
      BY <3>1 DEF CacheTypes, Absent, WorkerTypes
    <3> QED
      BY <1>3, <3>1, AddRefsEffect
  <2> QED
    BY <2>1, <2>2, <2>3, RecordFrame DEF Owning, WorkerTypes
<1>4. CASE Fail(w)
  BY <1>4, FailEffect, RecordFrame DEF Owning, WorkerTypes, network
<1>5. CASE Continue(w)
  <2>1. UNCHANGED <<caches, network>> /\ \A u \in Workers : u # w =>
            pc'[u] = pc[u] /\ hop'[u] = hop[u] /\ via'[u] = via[u] /\ ctx'[u] = ctx[u]
    BY <1>5, ContinueEffect, ZenonT(60) DEF WorkerTypes
  <2>2. pc'[w] \in {"idle", "find", "hold"}
    BY <1>5, ContinueEffect DEF WorkerTypes
  <2> QED
    BY <2>1, <2>2, RecordFrame DEF Owning, caches, network
<1>6. CASE Put(w)
  <2>1. /\ UNCHANGED <<response, keyOf, network>> /\ pc'[w] = "idle"
        /\ \A u \in Workers : u # w =>
            pc'[u] = pc[u] /\ hop'[u] = hop[u] /\ via'[u] = via[u] /\ ctx'[u] = ctx[u]
    BY <1>6, PutEffect DEF WorkerTypes
  <2>2. \A c \in Contexts : refs'[c] = Absent => refs[c] = Absent
    <3>1. ASSUME NEW d \in Contexts, refs[d] \in Nat \ {0}, refs' = [refs EXCEPT ![d] = refs[d] - 1]
          PROVE  \A c \in Contexts : refs'[c] = Absent => refs[c] = Absent
      BY <3>1 DEF CacheTypes, Absent
    <3> QED
      BY <1>6, <3>1, PutEffect
  <2> QED
    BY <2>1, <2>2, RecordFrame DEF Owning, network
<1> QED
  BY <1>1, <1>2, <1>3, <1>4, <1>5, <1>6

\* _update_lru_unlocked() forgets the context it shuts down, or none.
LEMMA UpdateLruForgets ==
    ASSUME TypeInv, NEW w \in Workers, UpdateLru(w)
    PROVE  /\ UNCHANGED <<hop, via, ctx, got, count, fired, made>> /\ pc[w] = "lru"
           /\ \/ /\ \E p \in {"init", "fail"} : pc' = [pc EXCEPT ![w] = p]
                 /\ UNCHANGED <<told, response, latches, refs, keyOf, early>>
              \/ /\ pc' = [pc EXCEPT ![w] = "init"]
                 /\ \E c \in Contexts : \E vo, lr :
                      Unlisted(c, vo, lr) /\ refs[c] = 0 /\ told' = told \cup ({c} \cap alive)
<1> USE TypeParts
<1>1. UNCHANGED <<hop, via, ctx, got, count, fired, made>> /\ pc[w] = "lru"
  BY UpdateLruEffect DEF request
<1>2. PICK v, c : v = via[w] /\ c = ctx[w] /\ v \in Contexts /\ c \in Contexts
  BY UpdateLruEffect
<1>3. ASSUME NEW vo \in [Contexts -> {Absent} \cup Contexts], NEW i \in DOMAIN lru[v],
             refs[lru[v][i]] = 0, Shutdown(lru[v][i], <<c>>, vo)
      PROVE  \E d \in Contexts : \E x, lr :
                Unlisted(d, x, lr) /\ refs[d] = 0 /\ told' = told \cup ({d} \cap alive)
  <2>1. lru[v][i] \in Contexts /\ <<c>> \in Seq(Contexts)
    BY <1>2 DEF ListTypes
  <2>2. told' = told \cup ({lru[v][i]} \cap alive) /\ \E lr : Unlisted(lru[v][i], vo, lr)
    BY <1>3, <2>1, ShutdownFacts
  <2> QED
    BY <1>3, <2>1, <2>2
<1>4. \/ /\ \E p \in {"init", "fail"} : pc' = [pc EXCEPT ![w] = p]
         /\ UNCHANGED <<told, response, latches, refs, keyOf, early>>
      \/ /\ pc' = [pc EXCEPT ![w] = "init"]
         /\ \E vo \in [Contexts -> {Absent} \cup Contexts] : \E i \in DOMAIN lru[v] :
              refs[lru[v][i]] = 0 /\ Shutdown(lru[v][i], <<c>>, vo)
  BY <1>2, UpdateLruEffect
<1> QED
  BY <1>1, <1>3, <1>4

\* The records are kept by each step.
LEMMA RecordStep == ASSUME TypeInv, RecordInv, [Next]_vars PROVE RecordInv'
<1> USE TypeParts
<1>1. ASSUME NEW w \in Workers, Connect(w) PROVE RecordInv'
  <2>1. /\ hop' = hop /\ via' = via /\ UNCHANGED <<caches, fired, early>> /\ pc[w] = "connect"
    BY <1>1, ConnectEffect
  <2>2. CASE pc' = [pc EXCEPT ![w] = "fail"] /\ UNCHANGED ctx
    BY <2>1, <2>2, RecordFrame DEF Owning, WorkerTypes, caches
  <2>3. ASSUME NEW c \in Contexts, c = made + 1, ctx' = [ctx EXCEPT ![w] = c],
               NEW p \in {"lru", "init"}, pc' = [pc EXCEPT ![w] = p]
        PROVE  RecordInv'
    <3>1. \A k \in Keys : response[k] # c
      BY <2>3, ContextFacts DEF NothingUnmade, NetworkTypes
    <3>2. \A u \in Workers : u # w => pc'[u] = pc[u] /\ ctx'[u] = ctx[u]
      BY <2>3 DEF WorkerTypes
    <3>3. pc'[w] \in {"lru", "init"} /\ ctx'[w] = c
      BY <2>3 DEF WorkerTypes
    <3>4. \A u \in Workers : KeyOf(u)' = KeyOf(u)
      BY <2>1 DEF KeyOf
    <3>5. RecordedUntilCounted'
      BY <2>1, <3>2, <3>3, <3>4 DEF RecordInv, RecordedUntilCounted, caches
    <3>6. LossNoticed' /\ ResponseIsRecorded' /\ KeyRecorded'
      BY <2>1, <3>2, <3>3, <3>4 DEF RecordInv, LossNoticed, ResponseIsRecorded, KeyRecorded, caches
    <3>7. NotYetRecorded'
      BY <2>1, <3>1, <3>2, <3>3 DEF RecordInv, NotYetRecorded, caches
    <3> QED
      BY <3>5, <3>6, <3>7 DEF RecordInv
  <2> QED
    BY <1>1, <2>2, <2>3, ConnectEffect
<1>2. ASSUME NEW w \in Workers, UpdateLru(w) PROVE RecordInv'
  <2>1. UNCHANGED <<hop, via, ctx, fired>> /\ pc[w] = "lru"
    BY <1>2, UpdateLruForgets
  <2>2. CASE /\ \E p \in {"init", "fail"} : pc' = [pc EXCEPT ![w] = p]
             /\ UNCHANGED <<told, response, latches, refs, keyOf, early>>
    BY <2>1, <2>2, RecordFrame DEF Owning, WorkerTypes
  <2>3. ASSUME pc' = [pc EXCEPT ![w] = "init"], NEW c \in Contexts, NEW vo, NEW lr, Unlisted(c, vo, lr)
        PROVE  RecordInv'
    <3>1. \A u \in Workers : pc'[u] = pc[u] \/ (pc[u] = "lru" /\ pc'[u] = "init")
      BY <2>1, <2>3 DEF WorkerTypes
    <3> QED
      BY <2>1, <2>3, <3>1, ForgottenRecords
  <2> QED
    BY <1>2, <2>2, <2>3, UpdateLruForgets
<1>3. ASSUME NEW w \in Workers, InitChild(w) PROVE RecordInv'
  <2>1. UNCHANGED <<request, caches, network>> /\ pc[w] = "init"
    BY <1>3 DEF InitChild, At
  <2>2. CASE pc' = [pc EXCEPT ![w] = "fail"]
    BY <2>1, <2>2, RecordFrame DEF Owning, WorkerTypes, request, caches, network
  <2>3. CASE ~Lost(w) /\ pc' = [pc EXCEPT ![w] = "record"]
    <3>1. ctx[w] \notin fired
      BY <2>3 DEF Lost, NetworkTypes
    <3>2. \A u \in Workers : KeyOf(u)' = KeyOf(u) /\ (pc'[u] = pc[u] \/ u = w) /\ pc'[w] = "record"
      BY <2>1, <2>3 DEF KeyOf, request, WorkerTypes
    <3>3. RecordedUntilCounted' /\ LossNoticed'
      BY <2>1, <3>1, <3>2 DEF RecordInv, RecordedUntilCounted, LossNoticed, request, caches, network
    <3>4. ResponseIsRecorded' /\ NotYetRecorded' /\ KeyRecorded'
      BY <2>1, <3>2 DEF RecordInv, ResponseIsRecorded, NotYetRecorded, KeyRecorded, request, caches, network
    <3> QED
      BY <3>3, <3>4 DEF RecordInv
  <2> QED
    BY <1>3, <2>2, <2>3 DEF InitChild, Go
<1>4. ASSUME NEW w \in Workers, Record(w) PROVE RecordInv'
  <2>1. /\ pc[w] = "record" /\ pc' = [pc EXCEPT ![w] = "refer"]
        /\ keyOf' = [keyOf EXCEPT ![ctx[w]] = KeyOf(w)]
        /\ UNCHANGED <<hop, via, ctx, refs, response, network>>
    BY <1>4 DEF Record, At, Go, request
  <2>2. PICK c \in Contexts : c = ctx[w]
    BY <2>1 DEF PlaceTypes, OwnerHasContext, Owning
  <2>3. keyOf'[c] = KeyOf(w) /\ \A d \in Contexts : d # c => keyOf'[d] = keyOf[d]
    BY <2>1, <2>2 DEF CacheTypes
  <2>4. \A u \in Workers : KeyOf(u)' = KeyOf(u) /\ (pc'[u] = pc[u] \/ u = w) /\ pc'[w] = "refer"
    BY <2>1 DEF KeyOf, WorkerTypes
  <2>5. \A u \in Workers : u # w /\ pc[u] \in Owning => ctx[u] # c /\ ctx[u] \in Contexts
    BY <2>1, <2>2 DEF OneOwner, PlaceTypes, OwnerHasContext, Owning
  <2>6. RecordedUntilCounted'
    <3> SUFFICES ASSUME NEW u \in Workers, pc'[u] \in {"produce", "store", "addrefs"}, ctx[u] \notin early
                 PROVE  keyOf'[ctx[u]] = KeyOf(u) /\ refs[ctx[u]] # Absent
      BY <2>1, <2>4 DEF RecordedUntilCounted, network
    <3> QED
      BY <2>3, <2>4, <2>5 DEF RecordInv, RecordedUntilCounted, Owning
  <2>7. KeyRecorded'
    <3> SUFFICES ASSUME NEW u \in Workers, pc'[u] = "refer", ctx[u] \notin early
                 PROVE  keyOf'[ctx[u]] = KeyOf(u)
      BY <2>1, <2>4 DEF KeyRecorded, network
    <3> QED
      BY <2>2, <2>3, <2>4, <2>5 DEF RecordInv, KeyRecorded, Owning
  <2>8. LossNoticed'
    BY <2>1, <2>4 DEF RecordInv, LossNoticed, network
  <2>9. ResponseIsRecorded'
    BY <2>1, <2>2, <2>3 DEF RecordInv, ResponseIsRecorded, NotYetRecorded, CacheTypes, network
  <2>10. NotYetRecorded'
    BY <2>1, <2>4 DEF RecordInv, NotYetRecorded
  <2> QED
    BY <2>6, <2>7, <2>8, <2>9, <2>10 DEF RecordInv
<1>10. ASSUME NEW w \in Workers, Refer(w) PROVE RecordInv'
  <2>1. /\ pc[w] = "refer" /\ pc' = [pc EXCEPT ![w] = "produce"]
        /\ refs' = [refs EXCEPT ![ctx[w]] = 0]
        /\ UNCHANGED <<hop, via, ctx, response, keyOf, network>>
    BY <1>10 DEF Refer, At, Go, request
  <2>2. PICK c \in Contexts : c = ctx[w]
    BY <2>1 DEF PlaceTypes, OwnerHasContext, Owning
  <2>3. refs'[c] # Absent /\ \A d \in Contexts : d # c => refs'[d] = refs[d]
    BY <2>1, <2>2 DEF CacheTypes, Absent
  <2>4. \A u \in Workers : KeyOf(u)' = KeyOf(u) /\ (pc'[u] = pc[u] \/ u = w) /\ pc'[w] = "produce"
    BY <2>1 DEF KeyOf, WorkerTypes
  <2>5. \A u \in Workers : u # w /\ pc[u] \in Owning => ctx[u] # c /\ ctx[u] \in Contexts
    BY <2>1, <2>2 DEF OneOwner, PlaceTypes, OwnerHasContext, Owning
  <2>6. RecordedUntilCounted'
    <3> SUFFICES ASSUME NEW u \in Workers, pc'[u] \in {"produce", "store", "addrefs"}, ctx[u] \notin early
                 PROVE  keyOf[ctx[u]] = KeyOf(u) /\ refs'[ctx[u]] # Absent
      BY <2>1, <2>4 DEF RecordedUntilCounted, network
    <3>1. CASE u = w
      BY <2>1, <2>2, <2>3, <3>1 DEF RecordInv, KeyRecorded
    <3>2. CASE u # w
      BY <2>3, <2>4, <2>5, <3>2 DEF RecordInv, RecordedUntilCounted, Owning
    <3> QED
      BY <3>1, <3>2
  <2>7. KeyRecorded' /\ LossNoticed'
    BY <2>1, <2>4 DEF RecordInv, KeyRecorded, LossNoticed, network
  <2>8. ResponseIsRecorded' /\ NotYetRecorded'
    BY <2>1, <2>4 DEF RecordInv, ResponseIsRecorded, NotYetRecorded, network
  <2> QED
    BY <2>6, <2>7, <2>8 DEF RecordInv
<1>5. ASSUME NEW w \in Workers, Store(w) PROVE RecordInv'
  <2>1. /\ pc[w] = "store" /\ pc' = [pc EXCEPT ![w] = "addrefs"]
        /\ response' = [response EXCEPT ![KeyOf(w)] = ctx[w]]
        /\ UNCHANGED <<hop, via, ctx, keyOf, refs, network>>
    BY <1>5 DEF Store, At, Go, request
  <2>2. PICK k \in Keys, c \in Contexts : k = KeyOf(w) /\ c = ctx[w]
    BY <2>1, KeyType DEF PlaceTypes, OwnerHasContext, Owning
  <2>3. response'[k] = c /\ \A j \in Keys : j # k => response'[j] = response[j]
    BY <2>1, <2>2 DEF CacheTypes
  <2>4. \A u \in Workers : KeyOf(u)' = KeyOf(u) /\ (pc'[u] = pc[u] \/ u = w) /\ pc'[w] = "addrefs"
    BY <2>1 DEF KeyOf, WorkerTypes
  <2>5. c \in early \/ (keyOf[c] = k /\ c \notin fired)
    BY <2>1, <2>2 DEF RecordInv, RecordedUntilCounted, LossNoticed
  <2>6. RecordedUntilCounted' /\ LossNoticed' /\ KeyRecorded'
    BY <2>1, <2>4 DEF RecordInv, RecordedUntilCounted, LossNoticed, KeyRecorded, network
  <2>7. ResponseIsRecorded'
    BY <2>1, <2>3, <2>5 DEF RecordInv, ResponseIsRecorded, network
  <2>8. NotYetRecorded'
    <3> SUFFICES ASSUME NEW u \in Workers, pc'[u] \in {"lru", "init", "record", "refer", "produce", "store"},
                        NEW j \in Keys
                 PROVE  response'[j] # ctx[u]
      BY <2>1 DEF NotYetRecorded
    <3>1. u # w /\ pc[u] = pc'[u] /\ ctx[u] # c
      BY <2>1, <2>2, <2>4 DEF OneOwner, Owning
    <3> QED
      BY <2>3, <3>1 DEF RecordInv, NotYetRecorded
  <2> QED
    BY <2>6, <2>7, <2>8 DEF RecordInv
<1>6. ASSUME NEW w \in Workers, Reset(w) PROVE RecordInv'
  <2>1. UNCHANGED <<pc, hop, via, ctx, fired>>
        /\ \E c \in Contexts, lr \in [Contexts -> Seq(Contexts)] : Unlisted(c, viaOf, lr)
    BY <1>6, ResetForgets
  <2> QED
    BY <2>1, ForgottenRecords
<1>7. ASSUME NEW c \in Contexts, Fire(c) PROVE RecordInv'
  <2>1. Unlisted(c, viaOf, lru)
    BY <1>7, ForgetFacts DEF Fire, CacheTypes, ListTypes
  <2> QED
    BY <1>7, <2>1, ForgottenRecords DEF Fire, request
<1>8. ASSUME NEW c \in Contexts, Die(c) PROVE RecordInv'
  BY <1>8, RecordFrame DEF Die, request, caches
<1>9. CASE UNCHANGED vars
  BY <1>9, RecordFrame DEF vars, request, caches, network
<1> QED
  BY <1>1, <1>2, <1>3, <1>4, <1>5, <1>6, <1>7, <1>8, <1>9, <1>10, PlainRecordStep DEF Next, ServiceStep

\* ContextService: for any number of workers and configurations, however connections are
\* lost, recycled and reset, no context whose disconnect event was delivered is handed out,
\* unless it was lost while one of its configuration was being made.
THEOREM HandsOutNoStaleContext == Spec => []NoStaleContext
<1>1. Init => RecordInv
  BY DEF Init, RecordInv, RecordedUntilCounted, KeyRecorded, LossNoticed, ResponseIsRecorded, NotYetRecorded
<1>2. TypeInv /\ WaiterHasNothing /\ [Next]_vars => TypeInv' /\ WaiterHasNothing'
  BY TypeStep
<1>3. TypeInv /\ RecordInv /\ [Next]_vars => RecordInv'
  BY RecordStep
<1>4. TypeInv /\ RecordInv => NoStaleContext
  <2>1. TypeInv => None \notin fired
    BY TypeParts DEF NetworkTypes, None
  <2> QED
    BY <2>1 DEF NoStaleContext, RecordInv, ResponseIsRecorded
<1> QED
  BY InitTypes, <1>1, <1>2, <1>3, <1>4, PTL DEF Spec

----------------------------------------------------------------------------
(* Waiting for a connection.                                               *)

\* Steps that leave a list alone, and who of it is under way, or empty it.
LEMMA WaitFrame ==
    ASSUME ListsHold,
           \A k \in Keys : latches'[k] # {} =>
                /\ latches'[k] = latches[k]
                /\ \A u \in latches[k] : pc'[u] \in Answering <=> pc[u] \in Answering
    PROVE  ListsHold'
<1> SUFFICES ASSUME NEW k \in Keys, latches'[k] # {} PROVE \E w \in latches'[k] : AnsweredBy(k, w)'
  BY DEF ListsHold
<1>1. PICK w \in latches[k] : AnsweredBy(k, w)
  BY DEF ListsHold
<1> QED
  BY <1>1 DEF AnsweredBy

\* The same, for the step of a worker that is on no list, or under way before and after.
LEMMA WaitFrameStep ==
    ASSUME TypeInv, WaiterHasNothing, ListsHold, NEW w \in Workers, NEW p, pc' = [pc EXCEPT ![w] = p],
           \A k \in Keys : latches'[k] = latches[k] \/ latches'[k] = {},
           \/ p \in Answering /\ pc[w] \in Answering
           \/ pc[w] \in {"idle", "find", "store", "addrefs", "answered", "hold"}
           \/ got[w] # None
           \/ latches'[KeyOf(w)] = {}
    PROVE  ListsHold'
<1>1. pc'[w] = p /\ \A u \in Workers : u # w => pc'[u] = pc[u]
  BY TypeParts DEF WorkerTypes
<1>2. ASSUME NEW k \in Keys, latches'[k] # {}
      PROVE  \A u \in latches[k] : pc'[u] \in Answering <=> pc[u] \in Answering
  <2>1. latches[k] \subseteq Workers /\ latches'[k] = latches[k]
    BY <1>2, TypeParts DEF CacheTypes
  <2>2. CASE p \in Answering /\ pc[w] \in Answering
    BY <1>1, <2>1, <2>2
  <2>3. CASE w \notin latches[k]
    BY <1>1, <2>1, <2>3
  <2>4. w \in latches[k] => pc[w] \notin {"idle", "find", "store", "addrefs", "answered", "hold"}
                           /\ got[w] = None /\ k = KeyOf(w)
    BY TypeParts DEF LatchTypes, WaiterHasNothing
  <2> QED
    BY <1>2, <2>2, <2>3, <2>4
<1>3. \A k \in Keys : latches'[k] # {} => latches'[k] = latches[k]
  OBVIOUS
<1> QED
  BY <1>2, <1>3, WaitFrame

\* What is forgotten has nobody waiting for it.
LEMMA ForgottenLists ==
    ASSUME TypeInv, ListsHold, NEW c \in Contexts, NEW vo, NEW lr, Unlisted(c, vo, lr),
           \A u \in Workers : pc'[u] = pc[u] \/ (pc[u] = "lru" /\ pc'[u] = "init")
    PROVE  ListsHold'
<1>1. \A k \in Keys : latches'[k] = latches[k] \/ latches'[k] = {}
  BY DEF Unlisted
<1>2. \A u \in Workers : pc'[u] \in Answering <=> pc[u] \in Answering
  BY DEF Answering
<1>3. \A k \in Keys : latches[k] \subseteq Workers
  BY TypeParts DEF CacheTypes
<1> QED
  BY <1>1, <1>2, <1>3, WaitFrame

\* The first to ask connects, whoever asks meanwhile is listed and waits.
LEMMA WaitOrStartLists ==
    ASSUME TypeInv, WaiterHasNothing, ListsHold, NEW w \in Workers, WaitOrStart(w) PROVE ListsHold'
<1> USE TypeParts
<1>1. pc[w] \in {"idle", "find"}
  BY WaitOrStartEffect
<1>2. CASE pc' = [pc EXCEPT ![w] = "answered"] /\ latches' = latches
  BY <1>1, <1>2, WaitFrameStep
<1>3. ASSUME NEW k \in Keys, k = KeyOf(w), latches' = [latches EXCEPT ![k] = latches[k] \cup {w}],
             NEW p, p = (IF latches[k] = {} THEN "connect" ELSE "wait"), pc' = [pc EXCEPT ![w] = p]
      PROVE  ListsHold'
  <2>1. pc'[w] = p /\ \A u \in Workers : u # w => pc'[u] = pc[u]
    BY <1>3 DEF WorkerTypes
  <2>2. latches'[k] = latches[k] \cup {w} /\ \A j \in Keys : j # k => latches'[j] = latches[j]
    BY <1>3 DEF CacheTypes
  <2>3. \A j \in Keys : latches[j] \subseteq Workers /\ w \notin latches[j]
    BY <1>1 DEF CacheTypes, LatchTypes
  <2> SUFFICES ASSUME NEW j \in Keys, latches'[j] # {} PROVE \E v \in latches'[j] : AnsweredBy(j, v)'
    BY DEF ListsHold
  <2>4. ASSUME NEW v \in latches[j], AnsweredBy(j, v) PROVE AnsweredBy(j, v)'
    <3>1. j = k => p = "wait"
      BY <1>3, <2>4
    <3>2. \A u \in latches[j] : pc'[u] = pc[u] /\ u # w
      BY <2>1, <2>3
    <3> QED
      BY <2>1, <2>2, <2>4, <3>1, <3>2 DEF AnsweredBy, Answering
  <2>5. CASE latches[j] # {}
    <3>1. PICK v \in latches[j] : AnsweredBy(j, v)
      BY <2>5 DEF ListsHold
    <3>2. latches[j] \subseteq latches'[j]
      BY <2>2
    <3> QED
      BY <2>4, <3>1, <3>2
  <2>6. CASE latches[j] = {}
    <3>1. j = k /\ latches'[k] = {w} /\ p = "connect"
      BY <1>3, <2>2, <2>6
    <3> QED
      BY <2>1, <3>1 DEF AnsweredBy, Answering
  <2> QED
    BY <2>5, <2>6
<1> QED
  BY <1>2, <1>3, WaitOrStartEffect, KeyType

\* Each step keeps the lists.
LEMMA ListsStep ==
    ASSUME TypeInv, WaiterHasNothing, ListsHold, [Next]_vars
    PROVE  ListsHold'
<1> USE TypeParts
<1>1. ASSUME NEW w \in Workers, Connect(w) PROVE ListsHold'
  <2>1. PICK p \in {"lru", "init", "fail"} : pc' = [pc EXCEPT ![w] = p]
    BY <1>1, ConnectEffect
  <2>2. pc[w] = "connect" /\ latches' = latches
    BY <1>1, ConnectEffect DEF caches
  <2> QED
    BY <2>1, <2>2, WaitFrameStep DEF Answering
<1>2. ASSUME NEW w \in Workers, UpdateLru(w) PROVE ListsHold'
  <2>1. pc[w] = "lru"
    BY <1>2, UpdateLruForgets
  <2>2. ASSUME NEW p \in {"init", "fail"}, pc' = [pc EXCEPT ![w] = p], latches' = latches PROVE ListsHold'
    BY <2>1, <2>2, WaitFrameStep DEF Answering
  <2>3. ASSUME pc' = [pc EXCEPT ![w] = "init"], NEW c \in Contexts, NEW vo, NEW lr, Unlisted(c, vo, lr)
        PROVE  ListsHold'
    <3>1. \A u \in Workers : pc'[u] = pc[u] \/ (pc[u] = "lru" /\ pc'[u] = "init")
      BY <2>1, <2>3 DEF WorkerTypes
    <3> QED
      BY <2>3, <3>1, ForgottenLists
  <2> QED
    BY <1>2, <2>2, <2>3, UpdateLruForgets
<1>3. ASSUME NEW w \in Workers, InitChild(w) PROVE ListsHold'
  <2>1. PICK p \in {"record", "fail"} : pc' = [pc EXCEPT ![w] = p]
    BY <1>3 DEF InitChild, Go
  <2>2. pc[w] = "init" /\ latches' = latches
    BY <1>3 DEF InitChild, At, caches
  <2> QED
    BY <2>1, <2>2, WaitFrameStep DEF Answering
<1>4. ASSUME NEW w \in Workers, Record(w) \/ Refer(w) PROVE ListsHold'
  <2>1. pc[w] \in {"record", "refer"} /\ latches' = latches
        /\ \E p \in {"refer", "produce"} : pc' = [pc EXCEPT ![w] = p]
    BY <1>4 DEF Record, Refer, At, Go
  <2> QED
    BY <2>1, WaitFrameStep DEF Answering
<1>5. ASSUME NEW w \in Workers, Produce(w) PROVE ListsHold'
  <2>1. PICK p \in {"fail", "store"} : pc' = [pc EXCEPT ![w] = p]
    BY <1>5, ProduceEffect
  <2>2. PICK k \in Keys : k = KeyOf(w)
    BY KeyType
  <2>3. latches'[k] = {} /\ \A j \in Keys : latches'[j] = latches[j] \/ latches'[j] = {}
    BY <1>5, <2>2, ProduceEffect DEF CacheTypes
  <2> QED
    BY <2>1, <2>2, <2>3, WaitFrameStep
<1>6. ASSUME NEW w \in Workers, Store(w) \/ AddRefs(w) PROVE ListsHold'
  <2>1. pc[w] \in {"store", "addrefs"} /\ latches' = latches
        /\ \E p : pc' = [pc EXCEPT ![w] = p]
    BY <1>6 DEF Store, AddRefs, At, Go
  <2> QED
    BY <2>1, WaitFrameStep
<1>7. ASSUME NEW w \in Workers, Fail(w) PROVE ListsHold'
  <2>1. PICK k \in Keys : k = KeyOf(w)
    BY KeyType
  <2>2. pc' = [pc EXCEPT ![w] = "answered"] /\ latches' = [latches EXCEPT ![k] = {}]
    BY <1>7, <2>1, FailEffect
  <2>3. latches'[k] = {} /\ \A j \in Keys : latches'[j] = latches[j] \/ latches'[j] = {}
    BY <2>2 DEF CacheTypes
  <2> QED
    BY <2>1, <2>2, <2>3, WaitFrameStep
<1>8. ASSUME NEW w \in Workers, Continue(w) \/ Put(w) PROVE ListsHold'
  <2>1. (got[w] # None \/ pc[w] = "hold") /\ latches' = latches /\ \E p : pc' = [pc EXCEPT ![w] = p]
    <3>1. CASE Continue(w)
      BY <3>1, ContinueEffect DEF caches
    <3>2. CASE Put(w)
      BY <3>2 DEF Put, At, Ends, Go
    <3> QED
      BY <1>8, <3>1, <3>2
  <2> QED
    BY <2>1, WaitFrameStep
<1>9. ASSUME NEW w \in Workers, Reset(w) PROVE ListsHold'
  <2>1. PICK c \in Contexts, lr \in [Contexts -> Seq(Contexts)] : Unlisted(c, viaOf, lr)
    BY <1>9, ResetForgets
  <2>2. pc' = pc
    BY <1>9, ResetForgets
  <2> QED
    BY <2>1, <2>2, ForgottenLists
<1>10. ASSUME NEW c \in Contexts, Fire(c) PROVE ListsHold'
  <2>1. Unlisted(c, viaOf, lru)
    BY <1>10, ForgetFacts DEF Fire, CacheTypes, ListTypes
  <2>2. pc' = pc
    BY <1>10 DEF Fire
  <2> QED
    BY <2>1, <2>2, ForgottenLists
<1>11. CASE (\E c \in Contexts : Die(c)) \/ UNCHANGED vars
  <2>1. pc' = pc /\ latches' = latches
    BY <1>11 DEF Die, vars, caches
  <2> QED
    BY <2>1, WaitFrame
<1> QED
  BY <1>1, <1>2, <1>3, <1>4, <1>5, <1>6, <1>7, <1>8, <1>9, <1>10, <1>11, WaitOrStartLists
     DEF Next, ServiceStep

\* For any number of workers and configurations, whoever is on a list of waiters has no
\* answer yet, and exactly one of those on it is under way to answer them all.
LEMMA OneAnswersAlways == Spec => []OneAnswers
<1>1. Init => ListsHold
  BY DEF Init, ListsHold
<1>2. TypeInv /\ WaiterHasNothing /\ [Next]_vars => TypeInv' /\ WaiterHasNothing'
  BY TypeStep
<1>3. TypeInv /\ WaiterHasNothing /\ ListsHold /\ [Next]_vars => ListsHold'
  BY ListsStep
<1>4. WaiterHasNothing /\ ListsHold => OneAnswers
  BY DEF OneAnswers, WaiterHasNothing, ListsHold, AnsweredBy
<1> QED
  BY InitTypes, <1>1, <1>2, <1>3, <1>4, PTL DEF Spec

\* A step that leaves the lists alone, or adds to them, takes nobody off.
LEMMA StaysListed ==
    ASSUME TypeInv, NEW w \in Workers, hop'[w] = hop[w], via'[w] = via[w],
           \A k \in Keys : latches[k] \subseteq latches'[k]
    PROVE  ~LeavesUnanswered(w)
<1>1. PICK k \in Keys : k = KeyOf(w) /\ k = KeyOf(w)'
  BY KeyType, TypeParts DEF KeyOf
<1> QED
  BY <1>1 DEF LeavesUnanswered, Listed

\* An answer is for all on the list.
LEMMA AnsweredAll ==
    ASSUME TypeInv, NEW w \in Workers, NEW u \in Workers, hop' = hop, via' = via,
           latches' = [latches EXCEPT ![KeyOf(u)] = {}],
           latches[KeyOf(u)] # {} => \A v \in latches[KeyOf(u)] : got'[v] # None
    PROVE  ~LeavesUnanswered(w)
<1>1. PICK k \in Keys : k = KeyOf(w) /\ k = KeyOf(w)'
  BY KeyType, TypeParts DEF KeyOf
<1>2. PICK j \in Keys : j = KeyOf(u)
  BY KeyType, TypeParts
<1>3. k # j => latches'[k] = latches[k]
  BY <1>2, TypeParts DEF CacheTypes
<1> QED
  BY <1>1, <1>2, <1>3 DEF LeavesUnanswered, Listed, Waiting

\* To forget a context is the way off a list without an answer.
LEMMA ForgottenLeave ==
    ASSUME TypeInv, NEW w \in Workers, NEW c \in Contexts, NEW vo, NEW lr, Unlisted(c, vo, lr),
           hop' = hop, via' = via, LeavesUnanswered(w)
    PROVE  keyOf[c] = KeyOf(w) /\ keyOf'[c] = <<>>
<1>1. PICK k \in Keys : k = KeyOf(w) /\ k = KeyOf(w)'
  BY KeyType, TypeParts DEF KeyOf
<1>2. k = keyOf[c]
  BY <1>1 DEF Unlisted, LeavesUnanswered, Listed
<1> QED
  BY <1>1, <1>2, NoKey DEF Unlisted

LEMMA UnansweredStep ==
    ASSUME TypeInv, [Next]_vars, NEW w \in Workers, LeavesUnanswered(w)
    PROVE  \E c \in Contexts : keyOf[c] = KeyOf(w) /\ keyOf'[c] = <<>>
<1> USE TypeParts
<1>0. got[w] = None /\ pc[w] = "wait"
  BY DEF LeavesUnanswered, Waiting
<1>1. ASSUME NEW u \in Workers, WaitOrStart(u) PROVE FALSE
  <2>1. hop' = hop /\ via' = via /\ \A k \in Keys : latches[k] \subseteq latches'[k]
    BY <1>1, WaitOrStartEffect DEF CacheTypes
  <2> QED
    BY <2>1, StaysListed
<1>2. ASSUME NEW u \in Workers,
             Connect(u) \/ InitChild(u) \/ Record(u) \/ Refer(u) \/ Store(u) \/ AddRefs(u)
      PROVE  FALSE
  <2>1. hop' = hop /\ via' = via /\ latches' = latches
    BY <1>2 DEF Connect, InitChild, Record, Refer, Store, AddRefs, request, caches
  <2> QED
    BY <2>1, StaysListed
<1>3. ASSUME NEW u \in Workers, Continue(u) \/ Put(u) PROVE FALSE
  <2>1. u # w /\ latches' = latches
    BY <1>0, <1>3 DEF Continue, Put, At, caches
  <2>2. hop'[w] = hop[w] /\ via'[w] = via[w]
    <3>1. CASE Continue(u)
      BY <2>1, <3>1, ContinueEffect, ZenonT(60) DEF WorkerTypes
    <3>2. CASE Put(u)
      BY <2>1, <3>2, PutEffect DEF WorkerTypes
    <3> QED
      BY <1>3, <3>1, <3>2
  <2> QED
    BY <2>1, <2>2, StaysListed
<1>4. ASSUME NEW u \in Workers, Produce(u) PROVE FALSE
  <2>1. CASE latches' = latches
    BY <1>4, <2>1, ProduceEffect, StaysListed
  <2>2. CASE /\ got' = [v \in Workers |-> IF v \in latches[KeyOf(u)] THEN ctx[u] ELSE got[v]]
             /\ latches' = [latches EXCEPT ![KeyOf(u)] = {}]
    <3>1. ctx[u] # None /\ hop' = hop /\ via' = via
      BY <1>4, ProduceEffect, ContextFacts DEF PlaceTypes, OwnerHasContext, Owning
    <3>2. latches[KeyOf(u)] \subseteq Workers
      BY KeyType DEF CacheTypes
    <3> QED
      BY <2>2, <3>1, <3>2, AnsweredAll
  <2> QED
    BY <1>4, <2>1, <2>2, ProduceEffect
<1>5. ASSUME NEW u \in Workers, Fail(u) PROVE FALSE
  <2>1. hop' = hop /\ via' = via /\ latches' = [latches EXCEPT ![KeyOf(u)] = {}]
    BY <1>5, FailEffect
  <2>2. latches[KeyOf(u)] # {} => \A v \in latches[KeyOf(u)] : got'[v] # None
    <3>1. latches[KeyOf(u)] \subseteq Workers
      BY KeyType DEF CacheTypes
    <3> QED
      BY <1>5, <3>1, FailEffect DEF None, Absent
  <2> QED
    BY <2>1, <2>2, AnsweredAll
<1>6. ASSUME NEW u \in Workers, UpdateLru(u)
      PROVE  \E c \in Contexts : keyOf[c] = KeyOf(w) /\ keyOf'[c] = <<>>
  <2>1. hop' = hop /\ via' = via
    BY <1>6, UpdateLruForgets
  <2>2. latches' # latches
    BY <2>1, StaysListed
  <2> QED
    BY <1>6, <2>1, <2>2, UpdateLruForgets, ForgottenLeave
<1>7. ASSUME NEW u \in Workers, Reset(u)
      PROVE  \E c \in Contexts : keyOf[c] = KeyOf(w) /\ keyOf'[c] = <<>>
  BY <1>7, ResetForgets, ForgottenLeave
<1>8. ASSUME NEW c \in Contexts, Fire(c)
      PROVE  keyOf[c] = KeyOf(w) /\ keyOf'[c] = <<>>
  <2>1. Unlisted(c, viaOf, lru) /\ hop' = hop /\ via' = via
    BY <1>8, ForgetFacts DEF Fire, CacheTypes, ListTypes, request
  <2> QED
    BY <2>1, ForgottenLeave
<1>9. ASSUME (\E c \in Contexts : Die(c)) \/ UNCHANGED vars PROVE FALSE
  BY <1>9, StaysListed DEF Die, vars, request, caches
<1> QED
  BY <1>1, <1>2, <1>3, <1>4, <1>5, <1>6, <1>7, <1>8, <1>9 DEF Next, ServiceStep

\* ContextService: for any number of workers and configurations, a request that waits is
\* taken off its list without an answer only by forgetting a context of its key.
LEMMA WaitersLeaveAnswered == Spec => [][LeftOnlyByForgetting]_vars
<1>1. TypeInv /\ WaiterHasNothing /\ [Next]_vars => TypeInv' /\ WaiterHasNothing'
  BY TypeStep
<1>2. TypeInv /\ [Next]_vars => [LeftOnlyByForgetting]_vars
  BY UnansweredStep DEF LeftOnlyByForgetting
<1> QED
  BY InitTypes, <1>1, <1>2, PTL DEF Spec

\* ContextService: for any number of workers and configurations, and whenever contexts are
\* lost, reset or recycled, of those on a list of waiters exactly one is under way to answer
\* them all, and nobody leaves it unanswered but by forgetting a context of its key.
THEOREM ConnectsForAll == Spec => OneConnectsForAll
<1>1. []OneAnswers /\ [][LeftOnlyByForgetting]_vars => OneConnectsForAll
  BY PTL DEF OneConnectsForAll
<1> QED
  BY <1>1, OneAnswersAlways, WaitersLeaveAnswered

----------------------------------------------------------------------------
(* References.                                                             *)

\* Users are workers, of which there are finitely many.
LEMMA UsersFinite == ASSUME NEW c PROVE IsFiniteSet(Users(c)) /\ Cardinality(Users(c)) \in Nat
<1>1. Users(c) \in SUBSET Workers
  BY DEF Users
<1>2. IsFiniteSet(Users(c))
  BY <1>1, ContextsAssumption, FS_Subset
<1> QED
  BY <1>2, FS_CardinalityType

\* A context that gets no new user, and whose count is left alone or dropped.
LEMMA AccountedFrame ==
    ASSUME TypeInv, NEW c \in Contexts, Accounted(c), Users(c)' \subseteq Users(c),
           refs'[c] # Absent => refs'[c] = refs[c],
           \A w \in Workers : Counts(w, c)' <=> Counts(w, c),
           \A w \in Workers : Counts(w, c) => count'[w] = count[w]
    PROVE  Accounted(c)'
<1> SUFFICES ASSUME refs'[c] # Absent
             PROVE  /\ \A w \in Workers : Counts(w, c)' => Cardinality(Users(c)') <= refs'[c] + count'[w]
                    /\ (\A w \in Workers : ~Counts(w, c)') => Cardinality(Users(c)') <= refs'[c]
  BY DEF Accounted
<1>1. PICK s, t : s = Users(c) /\ t = Users(c)'
  OBVIOUS
<1>2. IsFiniteSet(s) /\ Cardinality(s) \in Nat
  BY <1>1, UsersFinite
<1>3. t \in SUBSET s
  BY <1>1
<1>4. Cardinality(t) <= Cardinality(s) /\ IsFiniteSet(t)
  BY <1>2, <1>3, FS_Subset
<1>5. Cardinality(t) \in Nat
  BY <1>4, FS_CardinalityType
<1>6. refs[c] \in Nat /\ \A w \in Workers : count[w] \in Nat
  BY TypeParts DEF CacheTypes, WorkerTypes
<1>7. /\ \A w \in Workers : Counts(w, c) => Cardinality(s) <= refs[c] + count[w]
      /\ (\A w \in Workers : ~Counts(w, c)) => Cardinality(s) <= refs[c]
  BY <1>1 DEF Accounted
<1>8. \A w \in Workers : Counts(w, c)' => Cardinality(t) <= refs'[c] + count'[w]
  BY <1>2, <1>4, <1>5, <1>6, <1>7
<1>9. (\A w \in Workers : ~Counts(w, c)') => Cardinality(t) <= refs'[c]
  BY <1>2, <1>4, <1>5, <1>6, <1>7
<1> QED
  BY <1>1, <1>8, <1>9

\* The same of all contexts.
LEMMA CountFrame ==
    ASSUME TypeInv, CountInv,
           \A c \in Contexts : Users(c)' \subseteq Users(c),
           \A c \in Contexts : refs'[c] # Absent => refs'[c] = refs[c],
           \A c \in Contexts : \A w \in Workers : Counts(w, c)' <=> Counts(w, c),
           \A w \in Workers : pc[w] \in {"store", "addrefs"} => count'[w] = count[w],
           \A w \in Workers : pc'[w] \in Unproduced => pc[w] \in Unproduced /\ ctx'[w] = ctx[w],
           \A w \in Workers : pc'[w] = "idle" => via'[w] = None
    PROVE  CountInv'
<1>1. IdleUsesNothing'
  BY DEF IdleUsesNothing
<1>2. UnusedUntilProduced'
  <2> SUFFICES ASSUME NEW w \in Workers, pc'[w] \in Unproduced PROVE (Users(ctx[w]))' = {}
    BY DEF UnusedUntilProduced
  <2>1. pc[w] \in Unproduced /\ ctx'[w] = ctx[w] /\ ctx[w] \in Contexts
    BY TypeParts DEF PlaceTypes, OwnerHasContext, Owning, Unproduced
  <2>2. Users(ctx[w]) = {}
    BY <2>1 DEF CountInv, UnusedUntilProduced
  <2>3. PICK c \in Contexts : c = ctx[w] /\ c = ctx'[w]
    BY <2>1
  <2>4. Users(c)' = {}
    BY <2>2, <2>3
  <2> QED
    BY <2>3, <2>4 DEF Users, Uses
<1>3. ASSUME NEW c \in Contexts PROVE Accounted(c)'
  <2>1. \A w \in Workers : Counts(w, c) => count'[w] = count[w]
    BY DEF Counts
  <2> QED
    BY <2>1, AccountedFrame DEF CountInv, UsersAreCounted
<1> QED
  BY <1>1, <1>2, <1>3 DEF CountInv, UsersAreCounted

\* A worker that does not go on to another context uses what it used.
LEMMA UsersKept ==
    ASSUME NEW c \in Contexts, UNCHANGED <<via, got>>,
           \A u \in Workers : pc'[u] # "idle" => pc[u] # "idle",
           \A u \in Workers : pc'[u] = "hold" => pc[u] = "hold" /\ ctx'[u] = ctx[u]
    PROVE  Users(c)' \subseteq Users(c)
  BY DEF Users, Uses

\* A context that is forgotten is not counted any more.
LEMMA ForgottenCounts ==
    ASSUME TypeInv, CountInv, NEW c \in Contexts, NEW vo, NEW lr, Unlisted(c, vo, lr),
           UNCHANGED <<hop, via, ctx, got, count>>,
           \A u \in Workers : pc'[u] = pc[u] \/ (pc[u] = "lru" /\ pc'[u] = "init")
    PROVE  CountInv'
<1>1. \A d \in Contexts : refs'[d] # Absent => refs'[d] = refs[d]
  BY DEF Unlisted
<1>2. \A d \in Contexts : Users(d)' \subseteq Users(d)
  BY UsersKept
<1>3. \A d \in Contexts : \A u \in Workers : Counts(u, d)' <=> Counts(u, d)
  BY DEF Counts
<1>4. \A u \in Workers : pc'[u] \in Unproduced => pc[u] \in Unproduced
  BY DEF Unproduced
<1>5. \A u \in Workers : pc'[u] = "idle" => via'[u] = None
  BY DEF CountInv, IdleUsesNothing
<1> QED
  BY <1>1, <1>2, <1>3, <1>4, <1>5, CountFrame

\* A worker that is handed a recorded context is counted at once.
LEMMA WaitOrStartCounts ==
    ASSUME TypeInv, RecordInv, CountInv, NEW w \in Workers, WaitOrStart(w) PROVE CountInv'
<1> USE TypeParts
<1>1. hop' = hop /\ via' = via /\ ctx' = ctx /\ count' = count /\ early' = early
      /\ pc[w] \in {"idle", "find"}
  BY WaitOrStartEffect DEF network
<1>2. PICK p \in {"answered", "connect", "wait"} : pc' = [pc EXCEPT ![w] = p]
  BY WaitOrStartEffect
<1>3. pc'[w] = p /\ \A u \in Workers : u # w => pc'[u] = pc[u]
  BY <1>2 DEF WorkerTypes
<1>4. \A u \in Workers : pc'[u] \in Unproduced => pc[u] \in Unproduced /\ u # w
  BY <1>3 DEF Unproduced
<1>5. \A u \in Workers : pc'[u] = "idle" => via'[u] = None
  BY <1>1, <1>3 DEF CountInv, IdleUsesNothing
<1>6. \A d \in Contexts : \A u \in Workers : Counts(u, d)' <=> Counts(u, d)
  BY <1>1, <1>3 DEF Counts
<1>7. ASSUME NEW d \in Contexts, NEW u \in Workers, \A v \in Workers : v # w => got'[v] = got[v],
             u \in Users(d)', u \notin Users(d)
      PROVE  u = w /\ got'[w] = d
  <2>1. CASE u # w
    BY <1>1, <1>3, <1>7, <2>1 DEF Users, Uses
  <2>2. CASE u = w
    <3>1. via[w] = d => pc[w] # "idle"
      BY ContextFacts DEF CountInv, IdleUsesNothing
    <3> QED
      BY <1>1, <1>3, <1>7, <2>2, <3>1 DEF Users, Uses
  <2> QED
    BY <2>1, <2>2
<1>8. CASE refs' = refs /\ (got' = got \/ got' = [got EXCEPT ![w] = Absent])
  <2>1. \A v \in Workers : v # w => got'[v] = got[v]
    BY <1>8 DEF WorkerTypes
  <2>2. \A d \in Contexts : got'[w] = d => w \in Users(d)
    BY <1>8, ContextFacts DEF WorkerTypes, Users, Uses
  <2>3. \A d \in Contexts : Users(d)' \subseteq Users(d)
    BY <1>7, <2>1, <2>2 DEF Users
  <2> QED
    BY <1>1, <1>4, <1>5, <1>6, <1>8, <2>3, CountFrame
<1>9. ASSUME NEW c \in Contexts, c = response[KeyOf(w)], refs[c] # Absent,
             refs' = [refs EXCEPT ![c] = refs[c] + 1], got' = [got EXCEPT ![w] = c]
      PROVE  CountInv'
  <2>1. got'[w] = c /\ \A v \in Workers : v # w => got'[v] = got[v]
    BY <1>9 DEF WorkerTypes
  <2>2. \A d \in Contexts : d # c => Users(d)' \subseteq Users(d)
    BY <1>7, <2>1 DEF Users
  <2>3. UnusedUntilProduced'
    <3> SUFFICES ASSUME NEW u \in Workers, pc'[u] \in Unproduced PROVE (Users(ctx[u]))' = {}
      BY DEF UnusedUntilProduced
    <3>1. pc[u] \in Unproduced /\ ctx[u] \in Contexts
      BY <1>4 DEF PlaceTypes, OwnerHasContext, Owning, Unproduced
    <3>2. ctx[u] # c
      BY <1>9, <3>1, KeyType DEF RecordInv, NotYetRecorded, Unproduced
    <3>3. PICK d \in Contexts : d = ctx[u]
      BY <3>1
    <3>4. Users(d)' = {}
      BY <2>2, <3>1, <3>2, <3>3 DEF CountInv, UnusedUntilProduced
    <3> QED
      BY <1>1, <3>3, <3>4 DEF Users, Uses
  <2>4. ASSUME NEW d \in Contexts, d # c PROVE Accounted(d)'
    <3>1. refs'[d] = refs[d] /\ Users(d)' \subseteq Users(d)
      BY <1>9, <2>2, <2>4 DEF CacheTypes
    <3> QED
      BY <1>1, <1>6, <3>1, AccountedFrame DEF CountInv, UsersAreCounted
  <2>5. Accounted(c)'
    <3>1. refs[c] \in Nat /\ refs'[c] = refs[c] + 1 /\ \A u \in Workers : count[u] \in Nat
      BY <1>9 DEF CacheTypes, WorkerTypes
    <3>2. PICK s, t : s = Users(c) /\ t = Users(c)'
      OBVIOUS
    <3>3. t \in SUBSET (s \cup {w})
      BY <1>7, <2>1, <3>2 DEF Users
    <3>4. IsFiniteSet(s) /\ Cardinality(s) \in Nat
      BY <3>2, UsersFinite
    <3>5. IsFiniteSet(s \cup {w}) /\ Cardinality(s \cup {w}) <= Cardinality(s) + 1
          /\ Cardinality(s \cup {w}) \in Nat
      <4>1. IsFiniteSet(s \cup {w})
            /\ Cardinality(s \cup {w}) = IF w \in s THEN Cardinality(s) ELSE Cardinality(s) + 1
        BY <3>4, FS_AddElement
      <4> QED
        BY <3>4, <4>1
    <3>6. IsFiniteSet(t) /\ Cardinality(t) <= Cardinality(s \cup {w})
      BY <3>3, <3>5, FS_Subset
    <3>7. Cardinality(t) \in Nat
      BY <3>6, FS_CardinalityType
    <3>8. Cardinality(t) <= Cardinality(s) + 1
      BY <3>4, <3>5, <3>6, <3>7
    <3>9. /\ \A u \in Workers : Counts(u, c) => Cardinality(s) <= refs[c] + count[u]
          /\ (\A u \in Workers : ~Counts(u, c)) => Cardinality(s) <= refs[c]
      BY <1>9, <3>2 DEF CountInv, UsersAreCounted, Accounted
    <3>10. /\ \A u \in Workers : Counts(u, c)' => Cardinality(t) <= refs'[c] + count'[u]
           /\ (\A u \in Workers : ~Counts(u, c)') => Cardinality(t) <= refs'[c]
      BY <1>1, <1>6, <3>1, <3>4, <3>7, <3>8, <3>9
    <3> QED
      BY <1>1, <3>2, <3>10 DEF Accounted
  <2>6. IdleUsesNothing'
    BY <1>5 DEF IdleUsesNothing
  <2> QED
    BY <2>3, <2>4, <2>5, <2>6 DEF CountInv, UsersAreCounted
<1> QED
  BY <1>8, <1>9, WaitOrStartEffect

\* A new context has no users, and nothing is known of it.
LEMMA ConnectCounts == ASSUME TypeInv, CountInv, NEW w \in Workers, Connect(w) PROVE CountInv'
<1> USE TypeParts
<1>1. /\ pc[w] = "connect" /\ hop' = hop /\ via' = via /\ got' = got /\ count' = count
      /\ refs' = refs /\ early' = early
  BY ConnectEffect DEF caches
<1>2. PICK p \in {"lru", "init", "fail"} : pc' = [pc EXCEPT ![w] = p]
  BY ConnectEffect
<1>3. pc'[w] = p /\ \A u \in Workers : u # w => pc'[u] = pc[u]
  BY <1>2 DEF WorkerTypes
<1>4. \A u \in Workers : u # w => ctx'[u] = ctx[u]
  BY ConnectEffect DEF WorkerTypes
<1>5. \A d \in Contexts : Users(d)' \subseteq Users(d)
  BY <1>1, <1>3, <1>4, UsersKept
<1>6. \A d \in Contexts : \A u \in Workers : Counts(u, d)' <=> Counts(u, d)
  BY <1>1, <1>3, <1>4 DEF Counts
<1>7. IdleUsesNothing'
  BY <1>1, <1>3 DEF CountInv, IdleUsesNothing
<1>8. \A d \in Contexts : Accounted(d)'
  BY <1>1, <1>5, <1>6, AccountedFrame DEF CountInv, UsersAreCounted
<1>9. UnusedUntilProduced'
  <2> SUFFICES ASSUME NEW u \in Workers, pc'[u] \in Unproduced PROVE (Users(ctx[u]))' = {}
    BY DEF UnusedUntilProduced
  <2>1. \E d \in Contexts : d = ctx'[u] /\ Users(d) = {}
    <3>1. CASE u # w
      BY <1>3, <1>4, <3>1 DEF CountInv, UnusedUntilProduced, PlaceTypes, OwnerHasContext, Owning, Unproduced
    <3>2. CASE u = w
      <4>0. pc' # [pc EXCEPT ![w] = "fail"]
        BY <3>2 DEF Unproduced, WorkerTypes
      <4>1. PICK c \in Contexts : c = made + 1 /\ ctx' = [ctx EXCEPT ![w] = c]
        BY <4>0, ConnectEffect
      <4>2. made \in Nat /\ c > made
        BY <4>1, ContextFacts DEF NetworkTypes
      <4>3. \A v \in Workers : via[v] <= made /\ ctx[v] <= made /\ got[v] <= made
        BY DEF NothingUnmade
      <4>4. \A v \in Workers : via[v] # c /\ ctx[v] # c /\ got[v] # c
        BY <4>2, <4>3, ContextFacts
      <4> QED
        BY <3>2, <4>1, <4>4 DEF WorkerTypes, Users, Uses
    <3> QED
      BY <3>1, <3>2
  <2>2. PICK d \in Contexts : d = ctx'[u] /\ Users(d)' = {}
    BY <1>5, <2>1
  <2> QED
    BY <2>2 DEF Users, Uses
<1> QED
  BY <1>7, <1>8, <1>9 DEF CountInv, UsersAreCounted

\* A context is counted from none: nobody uses it yet.
LEMMA ReferCounts == ASSUME TypeInv, CountInv, NEW w \in Workers, Refer(w) PROVE CountInv'
<1> USE TypeParts
<1>1. /\ pc[w] = "refer" /\ pc' = [pc EXCEPT ![w] = "produce"]
      /\ refs' = [refs EXCEPT ![ctx[w]] = 0]
      /\ UNCHANGED <<hop, via, ctx, got, count, early>>
  BY DEF Refer, At, Go, request, network
<1>2. PICK c \in Contexts : c = ctx[w]
  BY <1>1 DEF PlaceTypes, OwnerHasContext, Owning
<1>3. pc'[w] = "produce" /\ \A u \in Workers : u # w => pc'[u] = pc[u]
  BY <1>1 DEF WorkerTypes
<1>4. \A d \in Contexts : Users(d)' \subseteq Users(d)
  BY <1>1, <1>3, UsersKept
<1>5. \A d \in Contexts : \A u \in Workers : Counts(u, d)' <=> Counts(u, d)
  BY <1>1, <1>3 DEF Counts
<1>6. IdleUsesNothing'
  BY <1>1, <1>3 DEF CountInv, IdleUsesNothing
<1>7. UnusedUntilProduced'
  <2> SUFFICES ASSUME NEW u \in Workers, pc'[u] \in Unproduced PROVE (Users(ctx[u]))' = {}
    BY DEF UnusedUntilProduced
  <2>1. PICK d \in Contexts : d = ctx[u] /\ Users(d) = {}
    BY <1>1, <1>3 DEF CountInv, UnusedUntilProduced, PlaceTypes, OwnerHasContext, Owning, Unproduced
  <2>2. Users(d)' = {}
    BY <1>4, <2>1
  <2> QED
    BY <1>1, <2>1, <2>2 DEF Users, Uses
<1>8. ASSUME NEW d \in Contexts, d # c PROVE Accounted(d)'
  <2>1. refs'[d] = refs[d]
    BY <1>1, <1>2, <1>8 DEF CacheTypes
  <2> QED
    BY <1>1, <1>4, <1>5, <2>1, AccountedFrame DEF CountInv, UsersAreCounted
<1>9. Accounted(c)'
  <2>1. Users(c)' = {}
    BY <1>1, <1>2, <1>4 DEF CountInv, UnusedUntilProduced, Unproduced
  <2>2. Cardinality(Users(c)') = 0
    BY <2>1, FS_EmptySet
  <2>3. refs'[c] = 0
    BY <1>1, <1>2 DEF CacheTypes
  <2>4. \A u \in Workers : ~Counts(u, c)
    BY <1>1, <1>2 DEF Counts, OneOwner, Owning
  <2> QED
    BY <1>5, <2>2, <2>3, <2>4 DEF Accounted
<1> QED
  BY <1>6, <1>7, <1>8, <1>9 DEF CountInv, UsersAreCounted

\* The users of a new context are those that waited for it, who are about to be counted.
LEMMA ProduceCounts ==
    ASSUME TypeInv, WaiterHasNothing, CountInv, NEW w \in Workers, Produce(w) PROVE CountInv'
<1> USE TypeParts
<1>1. /\ pc[w] = "produce" /\ hop' = hop /\ via' = via /\ ctx' = ctx /\ refs' = refs /\ early' = early
  BY ProduceEffect DEF network
<1>2. PICK p \in {"fail", "store"} : pc' = [pc EXCEPT ![w] = p]
  BY ProduceEffect
<1>3. pc'[w] = p /\ \A u \in Workers : u # w => pc'[u] = pc[u]
  BY <1>2 DEF WorkerTypes
<1>4. PICK k \in Keys, c \in Contexts : k = KeyOf(w) /\ c = ctx[w]
  BY <1>1, KeyType DEF PlaceTypes, OwnerHasContext, Owning
<1>5. IdleUsesNothing'
  BY <1>1, <1>3 DEF CountInv, IdleUsesNothing
<1>6. \A u \in Workers : pc'[u] \in Unproduced => pc[u] \in Unproduced /\ u # w
  BY <1>3 DEF Unproduced
<1>7. CASE latches[k] = {}
  <2>1. got' = got /\ count' = count /\ pc' = [pc EXCEPT ![w] = "fail"]
    BY <1>1, <1>4, <1>7, ProduceEffect DEF Produce, At, Go
  <2>2. \A d \in Contexts : Users(d)' \subseteq Users(d)
    BY <1>1, <1>3, <2>1, ContextFacts DEF WorkerTypes, Users, Uses
  <2>3. \A d \in Contexts : \A u \in Workers : Counts(u, d)' <=> Counts(u, d)
    BY <1>1, <1>3, <2>1 DEF WorkerTypes, Counts
  <2>4. \A u \in Workers : pc'[u] = "idle" => via'[u] = None
    BY <1>5 DEF IdleUsesNothing
  <2> QED
    BY <1>1, <1>6, <2>1, <2>2, <2>3, <2>4, CountFrame
<1>8. CASE latches[k] # {}
  <2>1. /\ got' = [u \in Workers |-> IF u \in latches[k] THEN c ELSE got[u]]
        /\ count' = [count EXCEPT ![w] = Cardinality(latches[k])] /\ pc' = [pc EXCEPT ![w] = "store"]
    BY <1>1, <1>4, <1>8, ProduceEffect
  <2>2. latches[k] \in SUBSET Workers /\ \A u \in latches[k] : got[u] = None
    BY DEF CacheTypes, WaiterHasNothing
  <2>3. \A d \in Contexts : d # c => Users(d)' \subseteq Users(d)
    BY <1>1, <1>3, <2>1 DEF Users, Uses
  <2>4. Users(c) = {}
    BY <1>1, <1>4 DEF CountInv, UnusedUntilProduced, Unproduced
  <2>5. Users(c)' \subseteq latches[k]
    BY <1>1, <1>3, <2>1, <2>4 DEF Users, Uses
  <2>6. \A u \in Workers : u # w /\ pc[u] \in Owning => ctx[u] # c /\ ctx[u] \in Contexts
    BY <1>1, <1>4 DEF OneOwner, PlaceTypes, OwnerHasContext, Owning
  <2>7. UnusedUntilProduced'
    <3> SUFFICES ASSUME NEW u \in Workers, pc'[u] \in Unproduced PROVE (Users(ctx[u]))' = {}
      BY DEF UnusedUntilProduced
    <3>1. PICK d \in Contexts : d = ctx[u] /\ d # c /\ Users(d) = {}
      BY <1>6, <2>6 DEF CountInv, UnusedUntilProduced, Owning, Unproduced
    <3>2. Users(d)' = {}
      BY <2>3, <3>1
    <3> QED
      BY <1>1, <3>1, <3>2 DEF Users, Uses
  <2>8. pc'[w] = "store" /\ count'[w] = Cardinality(latches[k])
        /\ \A u \in Workers : u # w => count'[u] = count[u]
    BY <2>1 DEF WorkerTypes
  <2>9. ASSUME NEW d \in Contexts, d # c PROVE Accounted(d)'
    <3>1. \A u \in Workers : Counts(u, d)' <=> Counts(u, d)
      BY <1>1, <1>3, <1>4, <2>9 DEF Counts
    <3>2. \A u \in Workers : Counts(u, d) => count'[u] = count[u]
      BY <1>4, <2>8, <2>9 DEF Counts
    <3> QED
      BY <1>1, <2>3, <2>9, <3>1, <3>2, AccountedFrame DEF CountInv, UsersAreCounted
  <2>10. Accounted(c)'
    <3>1. PICK s, t : s = latches[k] /\ t = Users(c)'
      OBVIOUS
    <3>2. IsFiniteSet(s) /\ Cardinality(s) \in Nat
      BY <2>2, <3>1, ContextsAssumption, FS_Subset, FS_CardinalityType
    <3>3. t \in SUBSET s
      BY <2>5, <3>1
    <3>4. Cardinality(t) <= Cardinality(s) /\ IsFiniteSet(t)
      BY <3>2, <3>3, FS_Subset
    <3>5. Cardinality(t) \in Nat
      BY <3>4, FS_CardinalityType
    <3>6. Counts(w, c)' /\ \A u \in Workers : Counts(u, c)' => u = w
      BY <1>1, <1>3, <1>4, <2>6, <2>8 DEF Counts, Owning
    <3>7. refs[c] # Absent => refs[c] \in Nat /\ Cardinality(t) <= refs[c] + count'[w]
      BY <2>8, <3>1, <3>2, <3>4, <3>5 DEF CacheTypes
    <3> QED
      BY <1>1, <3>1, <3>6, <3>7 DEF Accounted
  <2> QED
    BY <1>5, <2>7, <2>9, <2>10 DEF CountInv, UsersAreCounted
<1> QED
  BY <1>7, <1>8

\* Those who were answered are counted.
LEMMA AddRefsCounts == ASSUME TypeInv, CountInv, NEW w \in Workers, AddRefs(w) PROVE CountInv'
<1> USE TypeParts
<1>1. /\ pc[w] = "addrefs" /\ count' = [count EXCEPT ![w] = 0]
      /\ UNCHANGED <<hop, via, ctx, got, early>>
  BY AddRefsEffect DEF network
<1>2. PICK c \in Contexts : c = ctx[w]
  BY AddRefsEffect
<1>3. PICK p \in {"fail", "answered"} : pc' = [pc EXCEPT ![w] = p]
  BY AddRefsEffect
<1>4. pc'[w] = p /\ \A u \in Workers : u # w => pc'[u] = pc[u] /\ count'[u] = count[u]
  BY <1>1, <1>3 DEF WorkerTypes
<1>5. \A d \in Contexts : Users(d)' \subseteq Users(d)
  BY <1>1, <1>4, UsersKept
<1>6. IdleUsesNothing'
  BY <1>1, <1>4 DEF CountInv, IdleUsesNothing
<1>7. UnusedUntilProduced'
  <2> SUFFICES ASSUME NEW u \in Workers, pc'[u] \in Unproduced PROVE (Users(ctx[u]))' = {}
    BY DEF UnusedUntilProduced
  <2>1. PICK d \in Contexts : d = ctx[u] /\ Users(d) = {}
    BY <1>4 DEF CountInv, UnusedUntilProduced, PlaceTypes, OwnerHasContext, Owning, Unproduced
  <2>2. Users(d)' = {}
    BY <1>5, <2>1
  <2> QED
    BY <1>1, <2>1, <2>2 DEF Users, Uses
<1>8. refs'[c] = (IF refs[c] = Absent THEN Absent ELSE refs[c] + count[w])
      /\ \A d \in Contexts : d # c => refs'[d] = refs[d]
  BY <1>2, AddRefsEffect DEF CacheTypes, Absent
<1>9. ASSUME NEW d \in Contexts, d # c PROVE Accounted(d)'
  <2>1. \A u \in Workers : Counts(u, d)' <=> Counts(u, d)
    BY <1>1, <1>2, <1>4, <1>9 DEF Counts
  <2>2. \A u \in Workers : Counts(u, d) => count'[u] = count[u]
    BY <1>2, <1>4, <1>9 DEF Counts
  <2> QED
    BY <1>1, <1>5, <1>8, <1>9, <2>1, <2>2, AccountedFrame DEF CountInv, UsersAreCounted
<1>10. Accounted(c)'
  <2> SUFFICES ASSUME refs[c] # Absent PROVE Accounted(c)'
    BY <1>1, <1>8 DEF Accounted
  <2>1. PICK s, t : s = Users(c) /\ t = Users(c)'
    OBVIOUS
  <2>2. IsFiniteSet(s) /\ Cardinality(s) \in Nat
    BY <2>1, UsersFinite
  <2>3. t \in SUBSET s
    BY <1>5, <2>1
  <2>4. Cardinality(t) <= Cardinality(s) /\ IsFiniteSet(t)
    BY <2>2, <2>3, FS_Subset
  <2>5. Cardinality(t) \in Nat
    BY <2>4, FS_CardinalityType
  <2>6. Cardinality(s) <= refs[c] + count[w]
    BY <1>1, <1>2, <2>1 DEF CountInv, UsersAreCounted, Accounted, Counts
  <2>7. \A u \in Workers : ~Counts(u, c)'
    BY <1>1, <1>2, <1>4 DEF Counts, OneOwner, Owning
  <2>8. refs[c] \in Nat /\ count[w] \in Nat
    BY DEF CacheTypes, WorkerTypes
  <2>9. Cardinality(t) <= refs'[c]
    BY <1>8, <2>2, <2>4, <2>5, <2>6, <2>8
  <2> QED
    BY <2>1, <2>7, <2>9 DEF Accounted
<1> QED
  BY <1>6, <1>7, <1>9, <1>10 DEF CountInv, UsersAreCounted

\* A worker that goes on uses what it was handed, and nothing new.
LEMMA ContinueCounts == ASSUME TypeInv, CountInv, NEW w \in Workers, Continue(w) PROVE CountInv'
<1> USE TypeParts
<1>1. /\ count' = count /\ refs' = refs /\ early' = early
      /\ pc[w] \in {"wait", "answered"} /\ got' = [got EXCEPT ![w] = None]
  BY ContinueEffect DEF caches, network
<1>2. /\ pc'[w] \in {"idle", "find", "hold"} /\ (pc'[w] = "idle" => via'[w] = None)
      /\ got'[w] = None
      /\ (via'[w] = via[w] \/ via'[w] = None \/ via'[w] = got[w])
      /\ (pc'[w] = "hold" => ctx'[w] = got[w])
      /\ \A u \in Workers : u # w =>
            pc'[u] = pc[u] /\ via'[u] = via[u] /\ ctx'[u] = ctx[u] /\ got'[u] = got[u]
  BY ContinueEffect DEF WorkerTypes
<1>3. ASSUME NEW d \in Contexts, NEW u \in Workers, Uses(u, d)' PROVE Uses(u, d)
  <2>1. CASE u = w
    BY <1>1, <1>2, <1>3, <2>1, ContextFacts DEF Uses
  <2>2. CASE u # w
    BY <1>2, <1>3, <2>2 DEF Uses
  <2> QED
    BY <2>1, <2>2
<1>4. \A d \in Contexts : Users(d)' \subseteq Users(d)
  BY <1>3 DEF Users
<1>5. \A d \in Contexts : \A u \in Workers : Counts(u, d)' <=> Counts(u, d)
  BY <1>1, <1>2 DEF Counts
<1>6. \A u \in Workers : pc'[u] \in Unproduced => pc[u] \in Unproduced /\ ctx'[u] = ctx[u]
  BY <1>2 DEF Unproduced
<1>7. \A u \in Workers : pc'[u] = "idle" => via'[u] = None
  BY <1>2 DEF CountInv, IdleUsesNothing
<1> QED
  BY <1>1, <1>4, <1>5, <1>6, <1>7, CountFrame

\* A worker that puts a context back uses it no more.
LEMMA PutCounts ==
    ASSUME TypeInv, WaiterHasNothing, CountInv, NEW w \in Workers, Put(w) PROVE CountInv'
<1> USE TypeParts
<1>1. pc[w] = "hold" /\ count' = count /\ got' = got /\ early' = early
  BY PutEffect DEF network
<1>2. PICK c \in Contexts : c = ctx[w]
  BY PutEffect
<1>3. /\ pc'[w] = "idle" /\ via'[w] = None /\ ctx'[w] = None
      /\ \A u \in Workers : u # w => pc'[u] = pc[u] /\ via'[u] = via[u] /\ ctx'[u] = ctx[u]
  BY PutEffect DEF WorkerTypes
<1>4. \A d \in Contexts : Users(d)' \subseteq Users(d) \ {w}
  <2>1. got[w] = None
    BY <1>1 DEF WaiterHasNothing
  <2> QED
    BY <1>1, <1>3, <2>1, ContextFacts DEF Users, Uses
<1>5. \A d \in Contexts : \A u \in Workers : Counts(u, d)' <=> Counts(u, d)
  BY <1>1, <1>3 DEF Counts
<1>6. IdleUsesNothing'
  BY <1>3 DEF CountInv, IdleUsesNothing
<1>7. UnusedUntilProduced'
  <2> SUFFICES ASSUME NEW u \in Workers, pc'[u] \in Unproduced PROVE (Users(ctx[u]))' = {}
    BY DEF UnusedUntilProduced
  <2>1. PICK d \in Contexts : d = ctx[u] /\ Users(d) = {} /\ u # w
    BY <1>3 DEF CountInv, UnusedUntilProduced, PlaceTypes, OwnerHasContext, Owning, Unproduced
  <2>2. Users(d)' = {} /\ ctx'[u] = d
    BY <1>3, <1>4, <2>1
  <2> QED
    BY <2>2 DEF Users, Uses
<1>8. /\ \A d \in Contexts : d # c => refs'[d] = refs[d]
      /\ refs'[c] = refs[c] \/ (refs[c] \in Nat \ {0} /\ refs'[c] = refs[c] - 1)
      /\ refs'[c] # Absent => refs[c] # Absent /\ refs'[c] >= refs[c] - 1
  BY <1>2, PutEffect DEF CacheTypes, Absent
<1>9. ASSUME NEW d \in Contexts, d # c PROVE Accounted(d)'
  BY <1>1, <1>4, <1>5, <1>8, <1>9, AccountedFrame DEF CountInv, UsersAreCounted
<1>10. Accounted(c)'
  <2> SUFFICES ASSUME refs'[c] # Absent PROVE Accounted(c)'
    BY <1>1 DEF Accounted
  <2>1. PICK s, t : s = Users(c) /\ t = Users(c)'
    OBVIOUS
  <2>2. IsFiniteSet(s) /\ Cardinality(s) \in Nat /\ w \in s
    BY <1>1, <1>2, <2>1, UsersFinite DEF Users, Uses
  <2>3. IsFiniteSet(s \ {w}) /\ Cardinality(s \ {w}) = Cardinality(s) - 1
    BY <2>2, FS_RemoveElement
  <2>4. t \in SUBSET (s \ {w})
    BY <1>4, <2>1
  <2>5. IsFiniteSet(t) /\ Cardinality(t) <= Cardinality(s \ {w})
    BY <2>3, <2>4, FS_Subset
  <2>6. Cardinality(t) \in Nat /\ Cardinality(t) <= Cardinality(s) - 1
    BY <2>2, <2>3, <2>5, FS_CardinalityType
  <2>7. refs[c] \in Nat /\ refs'[c] \in Nat /\ refs'[c] >= refs[c] - 1
        /\ \A u \in Workers : count[u] \in Nat
    BY <1>8 DEF CacheTypes, WorkerTypes
  <2>8. /\ \A u \in Workers : Counts(u, c) => Cardinality(s) <= refs[c] + count[u]
        /\ (\A u \in Workers : ~Counts(u, c)) => Cardinality(s) <= refs[c]
    BY <1>8, <2>1 DEF CountInv, UsersAreCounted, Accounted
  <2>9. /\ \A u \in Workers : Counts(u, c)' => Cardinality(t) <= refs'[c] + count'[u]
        /\ (\A u \in Workers : ~Counts(u, c)') => Cardinality(t) <= refs'[c]
    BY <1>1, <1>5, <2>2, <2>6, <2>7, <2>8
  <2> QED
    BY <2>1, <2>9 DEF Accounted
<1> QED
  BY <1>6, <1>7, <1>9, <1>10 DEF CountInv, UsersAreCounted

\* Each step keeps the count.
LEMMA CountStep ==
    ASSUME TypeInv, WaiterHasNothing, RecordInv, CountInv, [Next]_vars PROVE CountInv'
<1> USE TypeParts
<1>1. ASSUME NEW w \in Workers, NEW p \in Places \ {"idle", "hold"}, pc' = [pc EXCEPT ![w] = p],
             UNCHANGED <<via, ctx, got, count, refs, early>>, pc[w] # "idle",
             p \in Unproduced => pc[w] \in Unproduced,
             p \in {"store", "addrefs"} <=> pc[w] \in {"store", "addrefs"}
      PROVE  CountInv'
  <2>1. pc'[w] = p /\ \A u \in Workers : u # w => pc'[u] = pc[u]
    BY <1>1 DEF WorkerTypes
  <2>2. \A d \in Contexts : Users(d)' \subseteq Users(d)
    BY <1>1, <2>1, UsersKept
  <2>3. \A d \in Contexts : \A u \in Workers : Counts(u, d)' <=> Counts(u, d)
    BY <1>1, <2>1 DEF Counts
  <2>4. \A u \in Workers : pc'[u] \in Unproduced => pc[u] \in Unproduced
    BY <1>1, <2>1
  <2>5. \A u \in Workers : pc'[u] = "idle" => via'[u] = None
    BY <1>1, <2>1 DEF CountInv, IdleUsesNothing
  <2> QED
    BY <1>1, <2>2, <2>3, <2>4, <2>5, CountFrame
<1>2. ASSUME NEW w \in Workers, UpdateLru(w) PROVE CountInv'
  <2>1. UNCHANGED <<hop, via, ctx, got, count>> /\ pc[w] = "lru"
    BY <1>2, UpdateLruForgets
  <2>2. ASSUME NEW p \in {"init", "fail"}, pc' = [pc EXCEPT ![w] = p], UNCHANGED <<refs, early>>
        PROVE  CountInv'
    BY <1>1, <2>1, <2>2 DEF Unproduced, Places
  <2>3. ASSUME pc' = [pc EXCEPT ![w] = "init"], NEW c \in Contexts, NEW vo, NEW lr, Unlisted(c, vo, lr)
        PROVE  CountInv'
    <3>1. \A u \in Workers : pc'[u] = pc[u] \/ (pc[u] = "lru" /\ pc'[u] = "init")
      BY <2>1, <2>3 DEF WorkerTypes
    <3> QED
      BY <2>1, <2>3, <3>1, ForgottenCounts
  <2> QED
    BY <1>2, <2>2, <2>3, UpdateLruForgets
<1>3. ASSUME NEW w \in Workers, InitChild(w) PROVE CountInv'
  <2>1. PICK p \in {"record", "fail"} : pc' = [pc EXCEPT ![w] = p]
    BY <1>3 DEF InitChild, Go
  <2>2. pc[w] = "init" /\ UNCHANGED <<via, ctx, got, count, refs, early>>
    BY <1>3 DEF InitChild, At, request, caches, network
  <2> QED
    BY <1>1, <2>1, <2>2 DEF Unproduced, Places
<1>9. ASSUME NEW w \in Workers, Record(w) PROVE CountInv'
  <2>1. pc[w] = "record" /\ pc' = [pc EXCEPT ![w] = "refer"]
        /\ UNCHANGED <<via, ctx, got, count, refs, early>>
    BY <1>9 DEF Record, At, Go, request, network
  <2> QED
    BY <1>1, <2>1 DEF Unproduced, Places
<1>4. ASSUME NEW w \in Workers, Store(w) PROVE CountInv'
  <2>1. pc[w] = "store" /\ pc' = [pc EXCEPT ![w] = "addrefs"]
        /\ UNCHANGED <<via, ctx, got, count, refs, early>>
    BY <1>4 DEF Store, At, Go, request, network
  <2> QED
    BY <1>1, <2>1 DEF Unproduced, Places
<1>5. ASSUME NEW w \in Workers, Fail(w) PROVE CountInv'
  <2>1. /\ pc[w] = "fail" /\ pc' = [pc EXCEPT ![w] = "answered"]
        /\ UNCHANGED <<via, ctx, count, refs, early>>
    BY <1>5, FailEffect DEF network
  <2>2. \A u \in Workers : got'[u] = got[u] \/ got'[u] = Absent
    BY <1>5, FailEffect DEF WorkerTypes
  <2>3. pc'[w] = "answered" /\ \A u \in Workers : u # w => pc'[u] = pc[u]
    BY <2>1 DEF WorkerTypes
  <2>4. \A d \in Contexts : Users(d)' \subseteq Users(d)
    BY <2>1, <2>2, <2>3, ContextFacts DEF Users, Uses
  <2>5. \A d \in Contexts : \A u \in Workers : Counts(u, d)' <=> Counts(u, d)
    BY <2>1, <2>3 DEF Counts
  <2>6. \A u \in Workers : pc'[u] \in Unproduced => pc[u] \in Unproduced
    BY <2>3 DEF Unproduced
  <2>7. \A u \in Workers : pc'[u] = "idle" => via'[u] = None
    BY <2>1, <2>3 DEF CountInv, IdleUsesNothing
  <2> QED
    BY <2>1, <2>4, <2>5, <2>6, <2>7, CountFrame
<1>6. ASSUME NEW w \in Workers, Reset(w) PROVE CountInv'
  <2>1. PICK c \in Contexts, lr \in [Contexts -> Seq(Contexts)] : Unlisted(c, viaOf, lr)
    BY <1>6, ResetForgets
  <2>2. UNCHANGED <<pc, hop, via, ctx, got, count>>
    BY <1>6, ResetForgets
  <2> QED
    BY <2>1, <2>2, ForgottenCounts
<1>7. ASSUME NEW c \in Contexts, Fire(c) PROVE CountInv'
  <2>1. Unlisted(c, viaOf, lru)
    BY <1>7, ForgetFacts DEF Fire, CacheTypes, ListTypes
  <2> QED
    BY <1>7, <2>1, ForgottenCounts DEF Fire, request
<1>8. CASE (\E c \in Contexts : Die(c)) \/ UNCHANGED vars
  <2>1. UNCHANGED <<pc, via, ctx, got, count, refs, early>>
    BY <1>8 DEF Die, vars, request, caches, network
  <2>2. \A d \in Contexts : Users(d)' \subseteq Users(d)
    BY <2>1, UsersKept
  <2> QED
    BY <2>1, <2>2, CountFrame DEF Counts, CountInv, IdleUsesNothing
<1> QED
  BY <1>2, <1>3, <1>4, <1>5, <1>6, <1>7, <1>8, <1>9, WaitOrStartCounts, ConnectCounts, ReferCounts,
     ProduceCounts, AddRefsCounts, ContinueCounts, PutCounts DEF Next, ServiceStep

\* _update_lru_unlocked() shuts down what the count says nobody refers to.
LEMMA RecycledHasNoUser ==
    ASSUME TypeInv, CountInv, NEW w \in Workers, UpdateLru(w), NEW c \in told' \ told
    PROVE  Uncounted(c) \/ \A u \in Workers : ~Uses(u, c)
<1> USE TypeParts
<1>1. PICK d, vo, lr :
        d \in Contexts /\ Unlisted(d, vo, lr) /\ refs[d] = 0 /\ told' = told \cup ({d} \cap alive)
  BY UpdateLruForgets
<1>2. c = d
  BY <1>1
<1> SUFFICES ASSUME ~Uncounted(c) PROVE \A u \in Workers : ~Uses(u, c)
  OBVIOUS
<1>3. \A u \in Workers : ~Counts(u, c)
  BY DEF Counts, Uncounted
<1>4. Cardinality(Users(c)) <= 0
  BY <1>1, <1>2, <1>3 DEF CountInv, UsersAreCounted, Accounted, Absent
<1>5. Users(c) = {}
  <2>1. IsFiniteSet(Users(c)) /\ Cardinality(Users(c)) \in Nat
    BY UsersFinite
  <2>2. Cardinality(Users(c)) = 0
    BY <1>4, <2>1
  <2> QED
    BY <2>1, <2>2, FS_EmptySet
<1> QED
  BY <1>5 DEF Users

\* ContextService: for any number of workers, configurations and interpreters, and whatever
\* is lost, a context is shut down to make room only if no worker was handed it and has yet
\* to put it back, or those handed it are about to be counted: between the answer and the
\* count that follows it the code has no such promise.
THEOREM RecyclesNoneInUse == Spec => RecycledIsUnused
<1> DEFINE Recycles == \A w \in Workers : UpdateLru(w) =>
                         \A c \in told' \ told : Uncounted(c) \/ \A u \in Workers : ~Uses(u, c)
<1>1. Init => RecordInv /\ CountInv
  <2> SUFFICES ASSUME Init PROVE RecordInv /\ CountInv
    OBVIOUS
  <2>1. RecordInv
    BY DEF Init, RecordInv, RecordedUntilCounted, KeyRecorded, LossNoticed, ResponseIsRecorded,
           NotYetRecorded
  <2>2. CountInv
    BY DEF Init, CountInv, IdleUsesNothing, UnusedUntilProduced, Unproduced, UsersAreCounted, Accounted
  <2> QED
    BY <2>1, <2>2
<1>2. TypeInv /\ WaiterHasNothing /\ [Next]_vars => TypeInv' /\ WaiterHasNothing'
  BY TypeStep
<1>3. TypeInv /\ RecordInv /\ [Next]_vars => RecordInv'
  BY RecordStep
<1>4. TypeInv /\ WaiterHasNothing /\ RecordInv /\ CountInv /\ [Next]_vars => CountInv'
  BY CountStep
<1>5. TypeInv /\ CountInv /\ [Next]_vars => [Recycles]_vars
  BY RecycledHasNoUser
<1> QED
  BY InitTypes, <1>1, <1>2, <1>3, <1>4, <1>5, PTL DEF Spec, RecycledIsUnused

-----------------------------------------------------------------------------
(***************************************************************************)
(* Tasks: the inductive invariant.                                         *)
(***************************************************************************)

\* n is on the way from the controller to c, and not c.
Before(n, c) == c \in Nodes /\ n \in Lineage[c] \ {c}

\* What a context is to pass on is for one further down, and what reaches it is for
\* itself or for one further down; only 'forward' never is for itself.
Branches ==
    /\ \A n \in Nodes : \A f \in forwarding[n] \cup waiters[n] : Before(n, f[2])
    /\ \A n \in Nodes : \A r \in inbox[n] :
         IF r.method = "forward" THEN Before(n, r.context) ELSE n \in Lineage[r.context]

RunTypes ==
    /\ plays \in Playbooks
    /\ ctl \in [Tasks -> {"new", "forked", "pushed", "called"} \cup Ended]
    /\ child \in [Forked -> {"none", "alive", "dying", "gone"}]
    /\ stage \in [Tasks -> {"new", "queued", "refused", "begun", "setup", "getting",
                            "running", "check", "ending", "over"}]
    /\ reply \in [Tasks -> {"none", "told"} \cup Ended]

LayerTypes ==
    /\ value \in [Procs -> [Layers -> Tasks \cup {Pristine}]]
    /\ saved \in [Tasks -> [Layers -> Tasks \cup {Pristine}]]
    /\ botched \in SUBSET Tasks

JobTypes ==
    /\ job \in [Async -> Contents \cup {NoFile, "torn"}]
    /\ tmp \in [Async -> Contents \cup {NoFile, "empty"}]
    /\ wr \in [Async -> [what : Contents \cup {"none"},
                         step : {"none", "open", "write", "rename"},
                         onto : {"none", "tmp", "job"}, left : 0 .. 2]]
    /\ alarm \in [Async -> {"off", "armed", "fired"}]
    /\ timedout \in [Async -> BOOLEAN]

\* Until its module is called a task has done nothing in its process, and only
\* AsyncRunner looks at the result of its module.
Uncalled ==
    \A t \in Tasks : /\ ctl[t] \in {"new", "forked", "pushed"} => stage[t] = "new"
                     /\ stage[t] = "check" => t \in Async

\* A task is at work in its process: setup() has begun and revert() has not run.
AtWork == {"getting", "running"}

Alone ==
    \A t, u \in Tasks :
        Home(t) = Home(u) /\ stage[t] \in AtWork /\ stage[u] \in AtWork => t = u

\* A layer l of process p may show u: u runs there and patches that layer.
Fits(p, l, u) == u \in Tasks /\ Home(u) = p /\ l \in All(u)

\* What a layer that is put back shows is of a task at work, which has only patched
\* the environment while it waits for its file, or of one whose setup() or revert()
\* raised.
Shown ==
    \A p \in Procs, l \in Layers :
        value[p][l] # Pristine =>
            /\ Fits(p, l, value[p][l])
            /\ \/ l \in Lasting
               \/ value[p][l] \in botched
               \/ stage[value[p][l]] = "running"
               \/ stage[value[p][l]] = "getting" /\ l = "env"

\* What a task at work will put back.
Patched(t) == IF stage[t] = "running" THEN All(t)
              ELSE IF stage[t] = "getting" THEN {"env"} ELSE {}

Kept ==
    \A t \in Tasks : \A l \in Patched(t) \ Lasting :
        saved[t][l] # Pristine => Fits(Home(t), l, saved[t][l]) /\ saved[t][l] \in botched

\* An _update() of the main thread is at its place, and its temporary file is what
\* it wrote unless the handler took it.
Updating(t) ==
    /\ Writing(t) =>
         \/ wr[t].what = "started" /\ stage[t] = "begun"
         \/ wr[t].what \in {"result", "crash"} /\ stage[t] = "ending"
    /\ wr[t].step = "write" =>
         \/ wr[t].onto = "tmp" /\ tmp[t] # NoFile
         \/ wr[t].onto = "job" /\ tmp[t] = NoFile /\ timedout[t]
    /\ wr[t].step # "write" => wr[t].onto = "none"
    /\ wr[t].step = "rename" =>
         \/ tmp[t] = NoFile /\ timedout[t]
         \/ tmp[t] = wr[t].what

\* The job has been told to have started.
Past == {"setup", "getting", "running", "check", "ending", "over"}
Outcome(t) == job[t] \notin {NoFile, "started"}

JobFile(t) ==
    /\ alarm[t] # "off" \/ timedout[t] => stage[t] \in Past
    /\ stage[t] = "begun" /\ ~Writing(t) => job[t] # NoFile
    /\ stage[t] \in Past => job[t] # NoFile
    /\ timedout[t] => Outcome(t)
    /\ job[t] = "torn" => timedout[t]
    /\ stage[t] = "ending" /\ ~Writing(t) => Outcome(t)
    /\ stage[t] = "over" => Outcome(t)
    /\ reply[t] = "told" => stage[t] \in Past
    /\ t \notin Mortal /\ child[t] \in {"dying", "gone"} => timedout[t] \/ stage[t] = "over"

Jobs == \A t \in Async : Updating(t) /\ JobFile(t)

TasksInv ==
    /\ PushesTypeOK /\ Branches /\ RunTypes /\ LayerTypes /\ JobTypes
    /\ Uncalled /\ Alone /\ Shown /\ Kept /\ Jobs

(***************************************************************************)
(* The tree and the files that are pushed down it.                         *)
(***************************************************************************)

\* A lineage has the parents of its contexts, and nothing else is needed.
LEMMA LineageLemma ==
    ASSUME NEW c \in Nodes
    PROVE  /\ c \in Lineage[c] /\ Lineage[c] \in SUBSET Nodes /\ Root \in Lineage[c]
           /\ \A S \in SUBSET Nodes :
                c \in S /\ (\A x \in S \ {Root} : Parent[x] \in S) => Lineage[c] \subseteq S
           /\ \A x \in Lineage[c] \ {Root} : Parent[x] \in Lineage[c]
<1>1. Lineage[c] = {x \in Nodes : \A S \in WithParents : c \in S => x \in S}
  BY DEF Lineage
<1>2. Root \in Lineage[c]
  BY PushesTreeAssumption
<1>3. ASSUME NEW S \in SUBSET Nodes, c \in S, \A x \in S \ {Root} : Parent[x] \in S
      PROVE  Lineage[c] \subseteq S
  <2>1. S \in WithParents
    BY <1>3 DEF WithParents
  <2> QED
    BY <1>1, <1>3, <2>1
<1>4. ASSUME NEW x \in Lineage[c] \ {Root} PROVE Parent[x] \in Lineage[c]
  <2>1. Parent[x] \in Nodes
    BY <1>1, PushesAssumption
  <2>2. \A S \in WithParents : c \in S => Parent[x] \in S
    BY <1>1 DEF WithParents
  <2> QED
    BY <1>1, <2>1, <2>2
<1> QED
  BY <1>1, <1>2, <1>3, <1>4

\* Towards a context further down, the next hop is a child and on the way.
LEMMA HopIsNext ==
    ASSUME NEW n \in Nodes, NEW c, Before(n, c)
    PROVE  Hop(n, c) \in Nodes /\ Hop(n, c) \in Lineage[c]
<1>1. c \in Nodes /\ n \in Lineage[c] /\ n # c
  BY DEF Before
<1>2. \E k \in Lineage[c] : k # Root /\ Parent[k] = n
  <2>1. SUFFICES ASSUME \A k \in Lineage[c] : ~(k # Root /\ Parent[k] = n) PROVE FALSE
    OBVIOUS
  <2>2. PICK S : S = Lineage[c] \ {n}
    OBVIOUS
  <2>3. S \in SUBSET Nodes /\ c \in S
    BY <1>1, <2>2, LineageLemma
  <2>4. \A x \in S \ {Root} : Parent[x] \in S
    BY <1>1, <2>1, <2>2, LineageLemma
  <2>5. Lineage[c] \subseteq S
    BY <1>1, <2>3, <2>4, LineageLemma
  <2> QED
    BY <1>1, <2>2, <2>5
<1>3. Hop(n, c) \in Lineage[c]
  BY <1>2 DEF Hop
<1> QED
  BY <1>1, <1>3, LineageLemma

\* The process of a task is a context that the controller started.
LEMMA Homes ==
    ASSUME NEW t \in Tasks
    PROVE  /\ Home(t) \in Procs /\ Home(t) \in Nodes /\ Before(Root, Home(t))
           /\ t \in Forked => Home(t) = t
           /\ \A u \in Tasks : t \in Forked /\ Home(u) = Home(t) => u = t
           /\ PathOf[t] \in Paths
<1>1. Home(t) \in Procs /\ Home(t) \in Nodes \ {Root}
  BY TasksAssumption DEF Home, Procs
<1>2. Before(Root, Home(t))
  BY <1>1, LineageLemma DEF Before
<1> QED
  BY <1>1, <1>2, TasksAssumption DEF Home

\* What an action that leaves the pushed files alone keeps.
LEMMA PushesSame ==
    ASSUME PushesTypeOK, Branches, UNCHANGED pushed
    PROVE  PushesTypeOK' /\ Branches'
BY DEF PushesTypeOK, Branches, pushed

\* The controller is to pass a file on to the process of a task.
LEMMA PropagatedInv ==
    ASSUME PushesTypeOK, Branches, NEW t \in Tasks, Propagated(PathOf[t], Home(t)),
           UNCHANGED <<waiters, asked, sent, adding, inbox>>
    PROVE  PushesTypeOK' /\ Branches'
<1>1. PICK p, c : p = PathOf[t] /\ c = Home(t) /\ p \in Paths /\ c \in Nodes /\ Before(Root, c)
  BY Homes
<1>2. /\ cache' = [cache EXCEPT ![Root] = @ \cup {p}]
      /\ forwarding' = [forwarding EXCEPT ![Root] = @ \cup {<<p, c>>}]
  BY <1>1 DEF Propagated
<1>3. PushesTypeOK'
  BY <1>1, <1>2, PushesAssumption DEF PushesTypeOK
<1>4. \A n \in Nodes : \A f \in forwarding'[n] : f \in forwarding[n] \/ (n = Root /\ f = <<p, c>>)
  BY <1>2, PushesAssumption DEF PushesTypeOK
<1> QED
  BY <1>1, <1>3, <1>4 DEF Branches

\* A main thread asks for a file.
LEMMA GetInv ==
    ASSUME PushesTypeOK, Branches, NEW t \in Tasks, Get(Home(t), PathOf[t]),
           UNCHANGED <<cache, waiters, sent, forwarding, adding, inbox>>
    PROVE  PushesTypeOK' /\ Branches'
<1>1. Home(t) \in Nodes /\ PathOf[t] \in Paths
  BY Homes
<1> QED
  BY <1>1 DEF PushesTypeOK, Branches, Get

\* A context is gone.
LEMMA ForgottenInv ==
    ASSUME PushesTypeOK, Branches, NEW n \in Nodes, Forgotten(n)
    PROVE  PushesTypeOK' /\ Branches'
<1>1. PushesTypeOK'
  <2>1. \A m \in Nodes : /\ forwarding[m] \in SUBSET (Paths \X Nodes)
                         /\ waiters[m] \in SUBSET (Paths \X Nodes)
    BY DEF PushesTypeOK
  <2>2. /\ forwarding' \in [Nodes -> SUBSET (Paths \X Nodes)]
        /\ waiters' \in [Nodes -> SUBSET (Paths \X Nodes)]
    BY <2>1 DEF Forgotten
  <2>3. inbox' \in [Nodes -> SUBSET Requests]
    BY DEF Forgotten, PushesTypeOK
  <2> QED
    BY <2>2, <2>3 DEF Forgotten, PushesTypeOK
<1>2. \A m \in Nodes : /\ forwarding'[m] \subseteq forwarding[m] /\ waiters'[m] \subseteq waiters[m]
                       /\ inbox'[m] \subseteq inbox[m]
  BY DEF Forgotten, PushesTypeOK
<1> QED
  BY <1>1, <1>2 DEF Branches

\* _forward()
LEMMA ForwardInv ==
    ASSUME PushesTypeOK, Branches, NEW n \in Nodes, NEW p \in Paths, NEW c \in Nodes,
           Forward(n, p, c)
    PROVE  PushesTypeOK' /\ Branches'
<1>1. PICK k : k = Hop(n, c)
  OBVIOUS
<1>2. Before(n, c) /\ <<p, c>> \in forwarding[n]
  <2>1. <<p, c>> \in forwarding[n]
    BY DEF Forward
  <2> QED
    BY <2>1 DEF Branches
<1>3. k \in Nodes /\ k \in Lineage[c]
  BY <1>1, <1>2, HopIsNext
<1>4. /\ forwarding' = [forwarding EXCEPT ![n] = @ \ {<<p, c>>}]
      /\ adding' = [adding EXCEPT ![n] = @ \cup ({<<p, k>>} \ sent[n])]
      /\ inbox' = [inbox EXCEPT ![k] = @ \cup Onward(n, p, c)]
      /\ UNCHANGED <<cache, waiters, asked, sent>>
  BY <1>1 DEF Forward
<1>5. \A r \in Onward(n, p, c) : /\ r \in Requests /\ r.context = c
                                 /\ r.method = "forward" => k # c
  BY <1>1 DEF Onward, Requests
<1>6. PushesTypeOK'
  <2>1. inbox' \in [Nodes -> SUBSET Requests]
    BY <1>3, <1>4, <1>5 DEF PushesTypeOK
  <2> QED
    BY <1>3, <1>4, <2>1 DEF PushesTypeOK
<1>7. \A m \in Nodes : \A r \in inbox'[m] : r \in inbox[m] \/ (m = k /\ r \in Onward(n, p, c))
  BY <1>3, <1>4 DEF PushesTypeOK
<1>8. \A m \in Nodes : forwarding'[m] \subseteq forwarding[m]
  BY <1>4 DEF PushesTypeOK
<1>9. \A m \in Nodes : \A r \in inbox'[m] :
        IF r.method = "forward" THEN Before(m, r.context) ELSE m \in Lineage[r.context]
  <2>1. k # c => Before(k, c)
    BY <1>3 DEF Before
  <2> QED
    BY <1>3, <1>5, <1>7, <2>1 DEF Branches
<1> QED
  BY <1>4, <1>6, <1>8, <1>9 DEF Branches

\* store_and_forward() and forward()
LEMMA TakeInv ==
    ASSUME PushesTypeOK, Branches, NEW n \in Nodes, Take(n)
    PROVE  PushesTypeOK' /\ Branches'
<1>1. PICK r \in inbox[n] : /\ inbox' = [inbox EXCEPT ![n] = @ \ {r}]
                            /\ StoreAndForward(n, r) \/ ForwardLater(n, r)
                            /\ UNCHANGED <<sent, adding>>
  BY DEF Take
<1>2. r.path \in Paths /\ r.context \in Nodes
  BY DEF PushesTypeOK, Requests
<1>3. IF r.method = "forward" THEN Before(n, r.context) ELSE n \in Lineage[r.context]
  BY DEF Branches
<1>4. \A m \in Nodes : inbox'[m] \subseteq inbox[m]
  BY <1>1 DEF PushesTypeOK
<1>5. inbox' \in [Nodes -> SUBSET Requests]
  BY <1>1 DEF PushesTypeOK
<1>6. CASE StoreAndForward(n, r)
  <2>1. PICK mine : mine = IF r.context = n THEN {} ELSE {<<r.path, r.context>>}
    OBVIOUS
  <2>2. /\ r.method = "store_and_forward"
        /\ cache' = [cache EXCEPT ![n] = @ \cup {r.path}]
        /\ waiters' = [waiters EXCEPT ![n] = @ \ Released(n, r.path)]
        /\ asked' = [asked EXCEPT ![n] = @ \ {r.path}]
        /\ forwarding' = [forwarding EXCEPT ![n] = @ \cup mine \cup Released(n, r.path)]
    BY <1>6, <2>1 DEF StoreAndForward
  <2>3. Released(n, r.path) \subseteq waiters[n] /\ mine \subseteq Paths \X Nodes
    BY <1>2, <2>1 DEF Released
  <2>4. \A f \in mine : Before(n, f[2])
    BY <1>2, <1>3, <2>1, <2>2 DEF Before
  <2>5. PushesTypeOK'
    BY <1>1, <1>2, <1>5, <2>2, <2>3 DEF PushesTypeOK
  <2>6. \A m \in Nodes : /\ waiters'[m] \subseteq waiters[m]
                         /\ \A f \in forwarding'[m] :
                              f \in forwarding[m] \/ (m = n /\ f \in mine \cup waiters[n])
    BY <2>2, <2>3 DEF PushesTypeOK
  <2> QED
    BY <1>4, <2>4, <2>5, <2>6 DEF Branches
<1>7. CASE ForwardLater(n, r)
  <2>1. PICK f : f = <<r.path, r.context>> /\ f \in Paths \X Nodes /\ f[2] = r.context
    <3>1. PICK x, y : x = r.path /\ y = r.context
      OBVIOUS
    <3>2. <<x, y>> \in Paths \X Nodes /\ <<x, y>>[2] = y
      BY <1>2, <3>1
    <3> QED
      BY <3>1, <3>2
  <2>2. r.method = "forward" /\ Before(n, f[2])
    BY <1>3, <1>7, <2>1 DEF ForwardLater
  <2>3. PushesTypeOK'
    BY <1>1, <1>5, <1>7, <2>1 DEF PushesTypeOK, ForwardLater, Queued
  <2>4. \A m \in Nodes : \A g \in forwarding'[m] \cup waiters'[m] :
          g \in forwarding[m] \cup waiters[m] \/ (m = n /\ g = f)
    BY <1>7, <2>1 DEF PushesTypeOK, ForwardLater, Queued
  <2> QED
    BY <1>4, <2>2, <2>3, <2>4 DEF Branches
<1> QED
  BY <1>1, <1>6, <1>7

\* Every step of the service.
LEMMA PushStepInv ==
    ASSUME PushesTypeOK, Branches, PushStep
    PROVE  PushesTypeOK' /\ Branches'
<1>1. ASSUME NEW n \in Nodes, NoteSent(n) PROVE PushesTypeOK' /\ Branches'
  BY <1>1 DEF NoteSent, PushesTypeOK, Branches
<1> QED
  BY <1>1, ForwardInv, TakeInv DEF PushStep

(***************************************************************************)
(* What the tasks patch in their processes.                                *)
(***************************************************************************)

\* What each kind of runner patches.
LEMMA LayersOf ==
    ASSUME NEW t \in Tasks
    PROVE  /\ All(t) \in SUBSET Layers /\ "env" \in All(t) /\ "env" \notin Lasting
           /\ \A ls \in Unfinished(t) : ls \in SUBSET (All(t) \ {"env"})
           /\ \A ls \in Halfway(t) : ls \in SUBSET (All(t) \ Lasting)
<1>1. All(t) \in SUBSET Layers /\ "env" \in All(t) /\ "env" \notin Lasting
  BY DEF All, Layers, Lasting
<1>2. CASE t \in NewStyle
  BY <1>1, <1>2 DEF All, Unfinished, Halfway, Layers, Lasting
<1>3. CASE t \notin NewStyle
  BY <1>1, <1>3 DEF Unfinished, Halfway
<1> QED
  BY <1>1, <1>2, <1>3

\* Nothing is patched while no task begins or stops to be at work.
LEMMA LayersSame ==
    ASSUME LayerTypes, RunTypes, Alone, Shown, Kept, UNCHANGED <<value, saved, botched>>,
           \A u \in Tasks : stage'[u] \in AtWork \/ stage[u] \in AtWork => stage'[u] = stage[u]
    PROVE  LayerTypes' /\ Alone' /\ Shown' /\ Kept'
<1>1. LayerTypes'
  BY DEF LayerTypes
<1>2. Alone'
  BY DEF Alone, Home
<1>3. Shown'
  <2>1. ASSUME NEW p \in Procs, NEW l \in Layers, value'[p][l] # Pristine
        PROVE  /\ Fits(p, l, value'[p][l])
               /\ \/ l \in Lasting
                  \/ value'[p][l] \in botched'
                  \/ stage'[value'[p][l]] = "running"
                  \/ stage'[value'[p][l]] = "getting" /\ l = "env"
    <3>1. PICK u : u = value[p][l] /\ u = value'[p][l]
      OBVIOUS
    <3>2. /\ Fits(p, l, u)
          /\ \/ l \in Lasting \/ u \in botched
             \/ stage[u] = "running" \/ (stage[u] = "getting" /\ l = "env")
      BY <2>1, <3>1 DEF Shown
    <3>3. u \in Tasks
      BY <3>2 DEF Fits
    <3> QED
      BY <3>1, <3>2, <3>3 DEF AtWork
  <2> QED
    BY <2>1 DEF Shown, Fits, Home
<1>4. Kept'
  <2>1. \A t \in Tasks : Patched(t)' = Patched(t)
    BY DEF Patched, AtWork, All
  <2> QED
    BY <2>1 DEF Kept, Fits, Home
<1> QED
  BY <1>1, <1>2, <1>3, <1>4

\* Patching the process of a task that has it for itself.
LEMMA PatchLemma ==
    ASSUME LayerTypes, NEW t \in Tasks, NEW ls \in SUBSET Layers, Patch(t, ls)
    PROVE  /\ saved' \in [Tasks -> [Layers -> Tasks \cup {Pristine}]]
           /\ value' \in [Procs -> [Layers -> Tasks \cup {Pristine}]]
           /\ \A u \in Tasks : u # t => saved'[u] = saved[u]
           /\ \A p \in Procs : p # Home(t) => value'[p] = value[p]
           /\ \A l \in Layers :
                /\ saved'[t][l] = IF l \in ls THEN value[Home(t)][l] ELSE saved[t][l]
                /\ value'[Home(t)][l] = IF l \in ls THEN t ELSE value[Home(t)][l]
<1>1. PICK p : p = Home(t) /\ p \in Procs
  BY Homes
<1>2. PICK old, new : /\ old = [l \in Layers |-> IF l \in ls THEN value[p][l] ELSE saved[t][l]]
                      /\ new = [l \in Layers |-> IF l \in ls THEN t ELSE value[p][l]]
  OBVIOUS
<1>3. saved' = [saved EXCEPT ![t] = old] /\ value' = [value EXCEPT ![p] = new]
  BY <1>1, <1>2 DEF Patch
<1>4. /\ old \in [Layers -> Tasks \cup {Pristine}] /\ new \in [Layers -> Tasks \cup {Pristine}]
      /\ value \in [Procs -> [Layers -> Tasks \cup {Pristine}]]
      /\ saved \in [Tasks -> [Layers -> Tasks \cup {Pristine}]]
  BY <1>1, <1>2 DEF LayerTypes
<1>5. saved'[t] = old /\ value'[p] = new
  BY <1>1, <1>3, <1>4
<1> QED
  BY <1>1, <1>2, <1>3, <1>4, <1>5

\* A layer that a process shows while no task other than t is at work in it.
LEMMA OthersAreOver ==
    ASSUME LayerTypes, RunTypes, Shown, NEW t \in Tasks,
           \A u \in Tasks : Home(u) = Home(t) /\ u # t => stage[u] \notin AtWork,
           NEW l \in Layers \ Lasting, value[Home(t)][l] # Pristine, value[Home(t)][l] # t
    PROVE  Fits(Home(t), l, value[Home(t)][l]) /\ value[Home(t)][l] \in botched
<1>1. PICK u : u = value[Home(t)][l]
  OBVIOUS
<1>2. Fits(Home(t), l, u) /\ (u \in botched \/ stage[u] \in AtWork)
  BY <1>1, Homes DEF Shown, AtWork
<1> QED
  BY <1>1, <1>2 DEF Fits

\* What a task is at work in: nobody else is.
LEMMA AloneInProcess ==
    ASSUME RunTypes, Alone, NEW t \in Tasks, t \in Async \/ Idle(Home(t)) \/ stage[t] \in AtWork
    PROVE  \A u \in Tasks : Home(u) = Home(t) /\ u # t => stage[u] \notin AtWork
<1>1. CASE t \in Async
  BY <1>1, Homes DEF Forked
<1>2. CASE Idle(Home(t))
  BY <1>2 DEF Idle, AtWork
<1>3. CASE stage[t] \in AtWork
  BY <1>3 DEF Alone
<1> QED
  BY <1>1, <1>2, <1>3

\* The three ways in which a task patches its process: the environment first, the
\* rest once its file is there, and as much of the rest as a failing setup() gets to.
Patches(t, ls) ==
    \/ /\ stage[t] \notin AtWork /\ ls = {"env"}
       /\ stage' = [stage EXCEPT ![t] = "getting"] /\ botched' = botched
    \/ /\ stage[t] = "getting" /\ ls = All(t) \ {"env"}
       /\ stage' = [stage EXCEPT ![t] = "running"] /\ botched' = botched
    \/ /\ stage[t] = "getting" /\ ls \in SUBSET (All(t) \ {"env"})
       /\ \E s \in {"ending", "over"} : stage' = [stage EXCEPT ![t] = s]
       /\ botched' = botched \cup {t}

\* What a process shows is of a task at work or of a failed setup() after each.
LEMMA Patching ==
    ASSUME LayerTypes, RunTypes, Alone, Shown, Kept, NEW t \in Tasks, NEW ls,
           \A u \in Tasks : Home(u) = Home(t) /\ u # t => stage[u] \notin AtWork,
           Patch(t, ls), Patches(t, ls)
    PROVE  LayerTypes' /\ Alone' /\ Shown' /\ Kept'
<1>1. ls \in SUBSET All(t) /\ ls \in SUBSET Layers
  BY LayersOf DEF Patches
<1>2. PICK h : h = Home(t) /\ h \in Procs
  BY Homes
<1>3. /\ saved' \in [Tasks -> [Layers -> Tasks \cup {Pristine}]]
      /\ value' \in [Procs -> [Layers -> Tasks \cup {Pristine}]]
      /\ \A u \in Tasks : u # t => saved'[u] = saved[u]
      /\ \A p \in Procs : p # h => value'[p] = value[p]
      /\ \A l \in Layers :
           /\ saved'[t][l] = IF l \in ls THEN value[h][l] ELSE saved[t][l]
           /\ value'[h][l] = IF l \in ls THEN t ELSE value[h][l]
  BY <1>1, <1>2, PatchLemma
<1>4. LayerTypes' /\ botched \subseteq botched'
  BY <1>3 DEF LayerTypes, Patches
<1>5. \A u \in Tasks : u # t => stage'[u] = stage[u]
  BY DEF Patches, RunTypes
<1>6. /\ stage[t] \notin AtWork => stage'[t] = "getting" /\ ls = {"env"}
      /\ stage[t] = "getting" =>
           \/ stage'[t] = "running" /\ ls = All(t) \ {"env"}
           \/ /\ stage'[t] \in {"ending", "over"} /\ t \in botched'
              /\ ls \in SUBSET (All(t) \ {"env"})
      /\ stage[t] # "running"
  BY DEF Patches, RunTypes, AtWork
<1>7. Alone'
  <2>1. \A u \in Tasks : Home(u)' = Home(u)
    BY DEF Home
  <2>2. \A u \in Tasks : Home(u) = h /\ u # t => stage'[u] \notin AtWork
    BY <1>2, <1>5
  <2> QED
    BY <1>2, <1>5, <2>1, <2>2 DEF Alone
<1>8. \A l \in Layers : value[h][l] # Pristine => Fits(h, l, value[h][l])
  BY <1>2 DEF Shown
<1>9. \A l \in Layers \ Lasting :
        value[h][l] # Pristine /\ value[h][l] # t => value[h][l] \in botched
  BY <1>2, OthersAreOver
<1>10. Shown'
  <2>1. ASSUME NEW p \in Procs, NEW l \in Layers, value'[p][l] # Pristine
        PROVE  /\ Fits(p, l, value'[p][l])
               /\ \/ l \in Lasting
                  \/ value'[p][l] \in botched'
                  \/ stage'[value'[p][l]] = "running"
                  \/ stage'[value'[p][l]] = "getting" /\ l = "env"
    <3>1. PICK u : u = value'[p][l]
      OBVIOUS
    <3>2. CASE p # h
      <4>1. /\ Fits(p, l, u) /\ u \in Tasks /\ u # t
            /\ \/ l \in Lasting \/ u \in botched
               \/ stage[u] = "running" \/ (stage[u] = "getting" /\ l = "env")
        <5>1. u = value[p][l]
          BY <1>3, <3>1, <3>2
        <5> QED
          BY <1>2, <2>1, <3>1, <3>2, <5>1 DEF Shown, Fits
      <4> QED
        BY <1>4, <1>5, <3>1, <4>1
    <3>3. CASE p = h /\ l \in ls
      <4>1. u = t /\ Fits(p, l, u)
        BY <1>1, <1>2, <1>3, <3>1, <3>3 DEF Fits
      <4>2. t \in botched' \/ stage'[t] = "running" \/ (stage'[t] = "getting" /\ l = "env")
        BY <1>6, <3>3, LayersOf DEF AtWork, RunTypes
      <4> QED
        BY <3>1, <4>1, <4>2
    <3>4. CASE p = h /\ l \notin ls
      <4>1. u = value[h][l]
        BY <1>3, <3>1, <3>4
      <4>2. Fits(h, l, u)
        BY <1>8, <2>1, <3>1, <4>1
      <4>3. u # t /\ l \notin Lasting => u \in botched
        BY <1>9, <2>1, <3>1, <4>1
      <4>4. stage[t] \notin AtWork => t \in botched \/ u # t \/ l \in Lasting
        BY <1>2, <2>1, <3>1, <4>1 DEF Shown, AtWork
      <4> QED
        BY <1>4, <1>6, <3>1, <3>4, <4>2, <4>3, <4>4 DEF AtWork, RunTypes
    <3> QED
      BY <3>2, <3>3, <3>4
  <2> QED
    BY <2>1 DEF Shown, Fits, Home, All
<1>11. Kept'
  <2>1. ASSUME NEW u \in Tasks, NEW l \in Patched(u)' \ Lasting, saved'[u][l] # Pristine
        PROVE  Fits(Home(u), l, saved'[u][l]) /\ saved'[u][l] \in botched'
    <3>1. CASE u # t
      <4>1. l \in Patched(u) /\ saved'[u] = saved[u]
        BY <1>3, <1>5, <2>1, <3>1 DEF Patched, All
      <4> QED
        BY <1>4, <2>1, <4>1 DEF Kept
    <3>2. CASE u = t /\ l \in ls
      <4>1. l \in Layers /\ saved'[u][l] = value[h][l]
        BY <1>1, <1>3, <3>2
      <4>2. value[h][l] = t => t \in botched
        <5>1. value[h][l] = t =>
                t \in botched \/ stage[t] = "running" \/ (stage[t] = "getting" /\ l = "env")
          BY <1>2, <2>1, <3>2, <4>1 DEF Shown
        <5>2. stage[t] = "getting" => l # "env"
          BY <1>6, <3>2, LayersOf
        <5> QED
          BY <1>6, <5>1, <5>2
      <4> QED
        BY <1>2, <1>4, <1>8, <1>9, <2>1, <3>2, <4>1, <4>2
    <3>3. CASE u = t /\ l \notin ls
      <4>1. stage[t] = "getting" /\ l = "env" /\ l \in Layers
        BY <1>6, <2>1, <3>3, LayersOf DEF Patched, AtWork, RunTypes, All
      <4>2. saved'[t][l] = saved[t][l] /\ l \in Patched(t)
        BY <1>3, <3>3, <4>1 DEF Patched
      <4> QED
        BY <1>4, <2>1, <3>3, <4>2 DEF Kept
    <3> QED
      BY <3>1, <3>2, <3>3
  <2> QED
    BY <2>1 DEF Kept, Fits, Home, All
<1> QED
  BY <1>4, <1>7, <1>10, <1>11

\* The end of a module puts back what was there before it.
LEMMA Reverting ==
    ASSUME LayerTypes, RunTypes, Alone, Shown, Kept, NEW t \in Tasks, stage[t] = "running",
           NEW ls \in SUBSET (All(t) \ Lasting), Revert(t, ls), UNCHANGED saved,
           \/ ls = All(t) \ Lasting /\ botched' = botched
           \/ botched' = botched \cup {t},
           NEW s \in {"check", "ending", "over"}, stage' = [stage EXCEPT ![t] = s]
    PROVE  LayerTypes' /\ Alone' /\ Shown' /\ Kept'
<1>1. PICK h : h = Home(t) /\ h \in Procs
  BY Homes
<1>2. \A u \in Tasks : Home(u) = Home(t) /\ u # t => stage[u] \notin AtWork
  BY AloneInProcess DEF AtWork
<1>3. /\ value' \in [Procs -> [Layers -> Tasks \cup {Pristine}]]
      /\ \A p \in Procs : p # h => value'[p] = value[p]
      /\ \A l \in Layers : value'[h][l] = IF l \in ls THEN saved[t][l] ELSE value[h][l]
  <2>1. PICK new : new = [l \in Layers |-> IF l \in ls THEN saved[t][l] ELSE value[h][l]]
    OBVIOUS
  <2>2. value' = [value EXCEPT ![h] = new]
    BY <1>1, <2>1 DEF Revert
  <2>3. new \in [Layers -> Tasks \cup {Pristine}]
    BY <1>1, <2>1 DEF LayerTypes
  <2> QED
    BY <1>1, <2>1, <2>2, <2>3 DEF LayerTypes
<1>4. LayerTypes' /\ botched \subseteq botched'
  BY <1>3 DEF LayerTypes
<1>5. /\ \A u \in Tasks : u # t => stage'[u] = stage[u]
      /\ stage'[t] \notin AtWork
  BY DEF AtWork, RunTypes
<1>6. Alone'
  BY <1>5 DEF Alone, Home
<1>7. Shown'
  <2>1. ASSUME NEW p \in Procs, NEW l \in Layers, value'[p][l] # Pristine
        PROVE  /\ Fits(p, l, value'[p][l])
               /\ \/ l \in Lasting
                  \/ value'[p][l] \in botched'
                  \/ stage'[value'[p][l]] = "running"
                  \/ stage'[value'[p][l]] = "getting" /\ l = "env"
    <3>1. PICK u : u = value'[p][l]
      OBVIOUS
    <3>2. CASE p # h
      <4>1. /\ Fits(p, l, u) /\ u \in Tasks /\ u # t
            /\ \/ l \in Lasting \/ u \in botched
               \/ stage[u] = "running" \/ (stage[u] = "getting" /\ l = "env")
        <5>1. u = value[p][l]
          BY <1>3, <3>1, <3>2
        <5> QED
          BY <1>1, <2>1, <3>1, <3>2, <5>1 DEF Shown, Fits
      <4> QED
        BY <1>4, <1>5, <3>1, <4>1
    <3>3. CASE p = h /\ l \in ls
      <4>1. u = saved[t][l] /\ l \in Patched(t) \ Lasting
        BY <1>3, <3>1, <3>3 DEF Patched
      <4> QED
        BY <1>1, <1>4, <2>1, <3>1, <3>3, <4>1 DEF Kept
    <3>4. CASE p = h /\ l \notin ls
      <4>1. u = value[h][l]
        BY <1>3, <3>1, <3>4
      <4>2. Fits(h, l, u)
        BY <1>1, <2>1, <3>1, <3>4, <4>1 DEF Shown
      <4>3. u # t /\ l \notin Lasting => u \in botched
        BY <1>1, <1>2, <2>1, <3>1, <4>1, <4>2, OthersAreOver
      <4>4. u = t => l \in Lasting \/ t \in botched'
        BY <3>4, <4>2 DEF Fits
      <4> QED
        BY <1>4, <3>1, <3>4, <4>2, <4>3, <4>4
    <3> QED
      BY <3>2, <3>3, <3>4
  <2> QED
    BY <2>1 DEF Shown, Fits, Home, All
<1>8. Kept'
  <2>1. \A u \in Tasks : u # t => Patched(u)' = Patched(u)
    BY <1>5 DEF Patched, All
  <2>2. Patched(t)' = {}
    BY <1>5 DEF Patched, AtWork
  <2> QED
    BY <1>4, <2>1, <2>2 DEF Kept, Fits, Home, All
<1> QED
  BY <1>4, <1>6, <1>7, <1>8

(***************************************************************************)
(* The workers.                                                            *)
(***************************************************************************)

\* Jobs that an action does not concern.
LEMMA JobsElsewhere ==
    ASSUME Jobs, NEW t \in Tasks,
           \A u \in Async : u # t =>
               /\ job'[u] = job[u] /\ tmp'[u] = tmp[u] /\ wr'[u] = wr[u]
               /\ alarm'[u] = alarm[u] /\ timedout'[u] = timedout[u]
               /\ stage'[u] = stage[u] /\ reply'[u] = reply[u] /\ child'[u] = child[u],
           t \in Async => Updating(t)' /\ JobFile(t)'
    PROVE  Jobs'
<1>1. ASSUME NEW u \in Async, u # t PROVE Updating(u)' /\ JobFile(u)'
  BY <1>1 DEF Jobs, Updating, JobFile, Writing, Outcome
<1> QED
  BY <1>1 DEF Jobs

\* spawn_isolated_child()
LEMMA SpawnInv ==
    ASSUME TasksInv, NEW t \in Tasks, SpawnIsolatedChild(t), UNCHANGED plays
    PROVE  TasksInv'
<1>1. /\ t \in Forked /\ ctl[t] = "new"
      /\ ctl' = [ctl EXCEPT ![t] = "forked"] /\ child' = [child EXCEPT ![t] = "alive"]
      /\ UNCHANGED <<pushed, reply, stage, value, saved, botched, job, tmp, wr, alarm, timedout>>
  BY DEF SpawnIsolatedChild, runner, asynch
<1>2. PushesTypeOK' /\ Branches'
  BY <1>1, PushesSame DEF TasksInv
<1>3. RunTypes' /\ JobTypes'
  BY <1>1 DEF TasksInv, RunTypes, JobTypes
<1>4. Uncalled'
  BY <1>1 DEF TasksInv, Uncalled, RunTypes
<1>5. LayerTypes' /\ Alone' /\ Shown' /\ Kept'
  BY <1>1, LayersSame DEF TasksInv
<1>6. Jobs'
  <2>1. \A u \in Async : u # t => child'[u] = child[u]
    BY <1>1 DEF TasksInv, RunTypes, Forked
  <2>2. t \in Async => Updating(t)' /\ JobFile(t)'
    BY <1>1 DEF TasksInv, Jobs, Updating, JobFile, Writing, Outcome, RunTypes
  <2> QED
    BY <1>1, <2>1, <2>2, JobsElsewhere DEF TasksInv
<1> QED
  BY <1>2, <1>3, <1>4, <1>5, <1>6 DEF TasksInv

\* _propagate_deps()
LEMMA PropagateInv ==
    ASSUME TasksInv, NEW t \in Tasks, PropagateDeps(t), UNCHANGED plays
    PROVE  TasksInv'
<1>1. /\ UNCHANGED <<child, reply, stage, value, saved, botched, job, tmp, wr, alarm, timedout>>
      /\ \E s \in {"pushed", "failed"} : ctl' = [ctl EXCEPT ![t] = s]
      /\ ctl[t] \in {"new", "forked"}
  BY DEF PropagateDeps, runner, asynch
<1>2. PushesTypeOK' /\ Branches'
  <2>1. CASE Propagated(PathOf[t], Home(t))
    BY <2>1, PropagatedInv DEF PropagateDeps, TasksInv
  <2>2. CASE UNCHANGED <<cache, forwarding>>
    <3>1. UNCHANGED pushed
      BY <2>2 DEF PropagateDeps, pushed
    <3> QED
      BY <3>1, PushesSame DEF TasksInv
  <2> QED
    BY <2>1, <2>2 DEF PropagateDeps
<1>3. RunTypes' /\ JobTypes'
  BY <1>1 DEF TasksInv, RunTypes, JobTypes, Ended
<1>4. Uncalled'
  BY <1>1 DEF TasksInv, Uncalled, RunTypes
<1>5. LayerTypes' /\ Alone' /\ Shown' /\ Kept'
  BY <1>1, LayersSame DEF TasksInv
<1>6. Jobs'
  BY <1>1 DEF TasksInv, Jobs, Updating, JobFile, Writing, Outcome
<1> QED
  BY <1>2, <1>3, <1>4, <1>5, <1>6 DEF TasksInv

\* The call of run_module() or run_module_async()
LEMMA CallInv ==
    ASSUME TasksInv, NEW t \in Tasks, CallModule(t), UNCHANGED plays
    PROVE  TasksInv'
<1>1. /\ ctl[t] = "pushed" /\ ctl' = [ctl EXCEPT ![t] = "called"]
      /\ stage' = [stage EXCEPT ![t] = "queued"]
      /\ UNCHANGED <<pushed, child, reply, value, saved, botched, job, tmp, wr, alarm, timedout>>
  BY DEF CallModule, asynch
<1>2. PushesTypeOK' /\ Branches'
  BY <1>1, PushesSame DEF TasksInv
<1>3. stage[t] = "new"
  BY <1>1 DEF TasksInv, Uncalled
<1>4. RunTypes' /\ JobTypes'
  BY <1>1 DEF TasksInv, RunTypes, JobTypes
<1>5. \A u \in Tasks : u # t => stage'[u] = stage[u] /\ ctl'[u] = ctl[u]
  BY <1>1 DEF TasksInv, RunTypes
<1>6. stage'[t] = "queued" /\ ctl'[t] = "called"
  BY <1>1 DEF TasksInv, RunTypes
<1>7. Uncalled'
  BY <1>5, <1>6 DEF TasksInv, Uncalled
<1>8. LayerTypes' /\ Alone' /\ Shown' /\ Kept'
  BY <1>1, <1>3, <1>5, <1>6, LayersSame DEF TasksInv, AtWork
<1>9. Jobs'
  <2>1. t \in Async => Updating(t)' /\ JobFile(t)'
    BY <1>1, <1>3, <1>6 DEF TasksInv, Jobs, Updating, JobFile, Writing, Outcome, Past
  <2>2. Async \subseteq Tasks
    BY TasksAssumption DEF Forked
  <2> QED
    BY <1>1, <1>5, <2>1, <2>2, JobsElsewhere DEF TasksInv
<1> QED
  BY <1>2, <1>4, <1>7, <1>8, <1>9 DEF TasksInv

\* The worker has its answer.
LEMMA AnsweredInv ==
    ASSUME TasksInv, NEW t \in Tasks, Answered(t), UNCHANGED plays
    PROVE  TasksInv'
<1>1. /\ UNCHANGED <<pushed, reply, stage, value, saved, botched, job, tmp, wr, alarm, timedout>>
      /\ \E s \in Ended : ctl' = [ctl EXCEPT ![t] = s]
      /\ ctl[t] = "called"
  BY DEF Answered, runner, asynch, Ended
<1>2. child' = child \/ (t \in Isolated /\ \E s \in {"dying", child[t]} : child' = [child EXCEPT ![t] = s])
  BY DEF Answered, ShutDown
<1>3. PushesTypeOK' /\ Branches'
  BY <1>1, PushesSame DEF TasksInv
<1>4. child' \in [Forked -> {"none", "alive", "dying", "gone"}]
  BY <1>2 DEF TasksInv, RunTypes, Forked
<1>5. RunTypes' /\ JobTypes'
  BY <1>1, <1>4 DEF TasksInv, RunTypes, JobTypes, Ended
<1>6. Uncalled'
  BY <1>1 DEF TasksInv, Uncalled, RunTypes, Ended
<1>7. LayerTypes' /\ Alone' /\ Shown' /\ Kept'
  BY <1>1, LayersSame DEF TasksInv
<1>8. Jobs'
  <2>1. \A u \in Async : child'[u] = child[u]
    BY <1>2, TasksAssumption DEF TasksInv, RunTypes, Forked
  <2> QED
    BY <1>1, <2>1 DEF TasksInv, Jobs, Updating, JobFile, Writing, Outcome
<1> QED
  BY <1>3, <1>5, <1>6, <1>7, <1>8 DEF TasksInv

(***************************************************************************)
(* The runners.                                                            *)
(***************************************************************************)

\* What AsyncRunner begins to write.
LEMMA UpdatesType ==
    ASSUME JobTypes, NEW t \in Async, NEW what \in Contents, NEW left \in 0 .. 2,
           wr' = [wr EXCEPT ![t] = [what |-> what, step |-> "open", onto |-> "none", left |-> left]],
           UNCHANGED <<job, tmp, alarm, timedout>>
    PROVE  JobTypes'
<1>1. PICK r : r = [what |-> what, step |-> "open", onto |-> "none", left |-> left]
  OBVIOUS
<1>2. r \in [what : Contents \cup {"none"}, step : {"none", "open", "write", "rename"},
            onto : {"none", "tmp", "job"}, left : 0 .. 2]
  BY <1>1
<1> QED
  BY <1>1, <1>2 DEF JobTypes

\* An error is the answer, or AsyncRunner begins to write it to the job file.
LEMMA RaisesLemma ==
    ASSUME TasksInv, NEW t \in Tasks, Raises(t), stage[t] \in Past \/ t \notin Async,
           stage[t] \notin {"new", "ending", "over"},
           UNCHANGED <<plays, ctl, child, job, tmp, alarm, timedout>>
    PROVE  /\ \E s \in {"ending", "over"} : stage' = [stage EXCEPT ![t] = s]
           /\ RunTypes' /\ JobTypes' /\ Uncalled' /\ Jobs'
<1>1. CASE t \in Async
  <2>1. /\ stage' = [stage EXCEPT ![t] = "ending"]
        /\ wr' = [wr EXCEPT ![t] = [what |-> "crash", step |-> "open", onto |-> "none", left |-> 0]]
        /\ UNCHANGED reply
    BY <1>1 DEF Raises, Updates
  <2>2. RunTypes' /\ JobTypes'
    <3>1. RunTypes'
      BY <2>1 DEF TasksInv, RunTypes
    <3>2. JobTypes'
      <4>1. "crash" \in Contents /\ 0 \in 0 .. 2
        BY DEF Contents
      <4> QED
        BY <1>1, <2>1, <4>1, UpdatesType, Zenon DEF TasksInv
    <3> QED
      BY <3>1, <3>2
  <2>3. Uncalled'
    BY <2>1 DEF TasksInv, Uncalled, RunTypes
  <2>4. /\ stage'[t] = "ending"
        /\ wr'[t] = [what |-> "crash", step |-> "open", onto |-> "none", left |-> 0]
    BY <1>1, <2>1 DEF TasksInv, RunTypes, JobTypes
  <2>5. \A u \in Async : u # t => stage'[u] = stage[u] /\ wr'[u] = wr[u]
    BY <2>1, TasksAssumption DEF TasksInv, RunTypes, JobTypes, Forked
  <2>6. Updating(t)' /\ JobFile(t)'
    BY <1>1, <2>1, <2>4 DEF TasksInv, Jobs, Updating, JobFile, Writing, Outcome, Past
  <2>7. Jobs'
    BY <2>1, <2>5, <2>6, JobsElsewhere DEF TasksInv
  <2> QED
    BY <2>1, <2>2, <2>3, <2>7
<1>2. CASE t \notin Async
  <2>1. /\ stage' = [stage EXCEPT ![t] = "over"] /\ reply' = [reply EXCEPT ![t] = "failed"]
        /\ UNCHANGED wr
    BY <1>2 DEF Raises
  <2>2. RunTypes' /\ JobTypes'
    BY <2>1 DEF TasksInv, RunTypes, JobTypes, Ended
  <2>3. Uncalled'
    BY <2>1 DEF TasksInv, Uncalled, RunTypes
  <2>4. \A u \in Async : u # t => stage'[u] = stage[u] /\ reply'[u] = reply[u]
    BY <2>1, TasksAssumption DEF TasksInv, RunTypes, Forked
  <2>5. Jobs'
    BY <1>2, <2>1, <2>4, JobsElsewhere DEF TasksInv
  <2> QED
    BY <2>1, <2>2, <2>3, <2>5
<1> QED
  BY <1>1, <1>2

\* A task goes on to a later stage of its runner.
LEMMA StageLemma ==
    ASSUME TasksInv, NEW t \in Tasks, NEW s \in {"getting", "running", "check"},
           s = "check" => t \in Async,
           stage[t] \in Past \/ t \notin Async, stage[t] \notin {"new", "ending", "over"},
           stage' = [stage EXCEPT ![t] = s],
           UNCHANGED <<plays, ctl, child, reply, wr, job, tmp, alarm, timedout>>
    PROVE  RunTypes' /\ JobTypes' /\ Uncalled' /\ Jobs'
<1>1. RunTypes' /\ JobTypes'
  BY DEF TasksInv, RunTypes, JobTypes
<1>2. Uncalled'
  BY DEF TasksInv, Uncalled, RunTypes
<1>3. stage'[t] = s /\ \A u \in Async : u # t => stage'[u] = stage[u]
  BY TasksAssumption DEF TasksInv, RunTypes, Forked
<1>4. t \in Async => Updating(t)' /\ JobFile(t)'
  BY <1>3 DEF TasksInv, Jobs, Updating, JobFile, Writing, Outcome, Past
<1> QED
  BY <1>1, <1>2, <1>3, <1>4, JobsElsewhere DEF TasksInv

\* setup(), up to the request for the module's file.
LEMMA SetupInv ==
    ASSUME TasksInv, NEW t \in Tasks, Setup(t), UNCHANGED plays
    PROVE  TasksInv'
<1>1. /\ stage[t] = (IF t \in Async THEN "setup" ELSE "queued")
      /\ t \notin Async => Idle(Home(t))
      /\ UNCHANGED <<cache, waiters, sent, forwarding, adding, inbox, ctl, child, job, tmp,
                     alarm, timedout>>
  BY DEF Setup
<1>2. stage[t] \notin AtWork /\ stage[t] \notin {"new", "ending", "over"}
      /\ (stage[t] \in Past \/ t \notin Async)
  BY <1>1 DEF AtWork, Past
<1>3. CASE /\ Patch(t, {"env"}) /\ Get(Home(t), PathOf[t])
           /\ stage' = [stage EXCEPT ![t] = "getting"] /\ UNCHANGED <<reply, wr, botched>>
  <2>1. PushesTypeOK' /\ Branches'
    BY <1>1, <1>3, GetInv DEF TasksInv
  <2>2. RunTypes' /\ JobTypes' /\ Uncalled' /\ Jobs'
    BY <1>1, <1>2, <1>3, StageLemma
  <2>3. Patches(t, {"env"})
    BY <1>2, <1>3 DEF Patches
  <2>4. \A u \in Tasks : Home(u) = Home(t) /\ u # t => stage[u] \notin AtWork
    BY <1>1, AloneInProcess DEF TasksInv
  <2>5. LayerTypes' /\ Alone' /\ Shown' /\ Kept'
    BY <1>3, <2>3, <2>4, Patching DEF TasksInv
  <2> QED
    BY <2>1, <2>2, <2>5 DEF TasksInv
<1>4. CASE Raises(t) /\ botched' = botched \cup {t} /\ UNCHANGED <<value, saved, asked>>
  <2>1. PushesTypeOK' /\ Branches'
    <3>1. UNCHANGED pushed
      BY <1>1, <1>4 DEF pushed
    <3> QED
      BY <3>1, PushesSame DEF TasksInv
  <2>2. RunTypes' /\ JobTypes' /\ Uncalled' /\ Jobs'
    BY <1>1, <1>2, <1>4, RaisesLemma
  <2>3. PICK s \in {"ending", "over"} : stage' = [stage EXCEPT ![t] = s]
    BY <1>1, <1>2, <1>4, RaisesLemma
  <2>4. /\ \A u \in Tasks : u # t => stage'[u] = stage[u]
        /\ stage'[t] \notin AtWork
    BY <2>3 DEF TasksInv, RunTypes, AtWork
  <2>5. LayerTypes' /\ Alone'
    BY <1>4, <2>4 DEF TasksInv, LayerTypes, Alone, Home
  <2>6. Shown'
    <3>1. ASSUME NEW p \in Procs, NEW l \in Layers, value[p][l] # Pristine
          PROVE  /\ Fits(p, l, value[p][l])
                 /\ \/ l \in Lasting
                    \/ value[p][l] \in botched'
                    \/ stage'[value[p][l]] = "running"
                    \/ stage'[value[p][l]] = "getting" /\ l = "env"
      <4>1. PICK u : u = value[p][l]
        OBVIOUS
      <4>2. /\ Fits(p, l, u)
            /\ \/ l \in Lasting \/ u \in botched
               \/ stage[u] = "running" \/ (stage[u] = "getting" /\ l = "env")
        BY <3>1, <4>1 DEF TasksInv, Shown
      <4>3. u \in Tasks
        BY <4>2 DEF Fits
      <4> QED
        BY <1>4, <2>4, <4>1, <4>2, <4>3
    <3> QED
      BY <1>4, <3>1 DEF Shown, Fits, Home, All
  <2>7. Kept'
    <3>1. \A u \in Tasks : u # t => Patched(u)' = Patched(u)
      BY <2>4 DEF Patched, All
    <3>2. Patched(t)' = {}
      BY <2>4 DEF Patched, AtWork
    <3> QED
      BY <1>4, <3>1, <3>2 DEF TasksInv, Kept, Fits, Home, All
  <2> QED
    BY <2>1, <2>2, <2>5, <2>6, <2>7 DEF TasksInv
<1> QED
  BY <1>3, <1>4 DEF Setup

\* The rest of setup(), or as much of it as there was before it raised.
LEMMA SetupRestInv ==
    ASSUME TasksInv, NEW t \in Tasks, SetupRest(t), UNCHANGED plays
    PROVE  TasksInv'
<1>1. /\ stage[t] = "getting"
      /\ UNCHANGED <<pushed, ctl, child, job, tmp, alarm, timedout>>
  BY DEF SetupRest
<1>2. PushesTypeOK' /\ Branches'
  BY <1>1, PushesSame DEF TasksInv
<1>3. stage[t] \in Past /\ stage[t] \notin {"new", "ending", "over"} /\ stage[t] \in AtWork
  BY <1>1 DEF Past, AtWork
<1>4. \A u \in Tasks : Home(u) = Home(t) /\ u # t => stage[u] \notin AtWork
  BY <1>3, AloneInProcess DEF TasksInv
<1>5. CASE /\ Patch(t, All(t) \ {"env"}) /\ stage' = [stage EXCEPT ![t] = "running"]
           /\ UNCHANGED <<reply, wr, botched>>
  <2>1. RunTypes' /\ JobTypes' /\ Uncalled' /\ Jobs'
    BY <1>1, <1>3, <1>5, StageLemma
  <2>2. Patches(t, All(t) \ {"env"})
    BY <1>1, <1>5 DEF Patches
  <2>3. LayerTypes' /\ Alone' /\ Shown' /\ Kept'
    BY <1>4, <1>5, <2>2, Patching DEF TasksInv
  <2> QED
    BY <1>2, <2>1, <2>3 DEF TasksInv
<1>6. CASE /\ \E ls \in Unfinished(t) : Patch(t, ls)
           /\ Raises(t) /\ botched' = botched \cup {t}
  <2>1. /\ RunTypes' /\ JobTypes' /\ Uncalled' /\ Jobs'
        /\ \E s \in {"ending", "over"} : stage' = [stage EXCEPT ![t] = s]
    BY <1>1, <1>3, <1>6, RaisesLemma
  <2>2. PICK ls : ls \in SUBSET (All(t) \ {"env"}) /\ Patch(t, ls)
    BY <1>6, LayersOf
  <2>3. Patches(t, ls)
    BY <1>1, <1>6, <2>1, <2>2 DEF Patches
  <2>4. LayerTypes' /\ Alone' /\ Shown' /\ Kept'
    BY <1>4, <2>2, <2>3, Patching DEF TasksInv
  <2> QED
    BY <1>2, <2>1, <2>4 DEF TasksInv
<1> QED
  BY <1>5, <1>6 DEF SetupRest

\* The module ends and its runner reverts.
LEMMA ModuleEndsInv ==
    ASSUME TasksInv, NEW t \in Tasks, ModuleEnds(t), UNCHANGED plays
    PROVE  TasksInv'
<1>1. /\ stage[t] = "running"
      /\ UNCHANGED <<pushed, ctl, child, saved, job, tmp, alarm, timedout>>
      /\ \A raised : Reverted(t, raised) = All(t) \ Lasting
  BY DEF ModuleEnds, Reverted
<1>2. PushesTypeOK' /\ Branches'
  BY <1>1, PushesSame DEF TasksInv
<1>3. stage[t] \in Past /\ stage[t] \notin {"new", "ending", "over"}
  BY <1>1 DEF Past
<1>4. ASSUME NEW ls \in SUBSET (All(t) \ Lasting), Revert(t, ls), Raises(t),
             \/ ls = All(t) \ Lasting /\ botched' = botched
             \/ botched' = botched \cup {t}
      PROVE  TasksInv'
  <2>1. /\ RunTypes' /\ JobTypes' /\ Uncalled' /\ Jobs'
        /\ \E s \in {"ending", "over"} : stage' = [stage EXCEPT ![t] = s]
    BY <1>1, <1>3, <1>4, RaisesLemma
  <2>2. LayerTypes' /\ Alone' /\ Shown' /\ Kept'
    BY <1>1, <1>4, <2>1, Reverting DEF TasksInv
  <2> QED
    BY <1>2, <2>1, <2>2 DEF TasksInv
<1>5. CASE /\ Revert(t, All(t) \ Lasting)
           /\ stage' = [stage EXCEPT ![t] = IF t \in Async THEN "check" ELSE "over"]
           /\ reply' = (IF t \in Async THEN reply ELSE [reply EXCEPT ![t] = "ok"])
           /\ UNCHANGED <<wr, botched>>
  <2>1. LayerTypes' /\ Alone' /\ Shown' /\ Kept'
    BY <1>1, <1>5, Reverting DEF TasksInv
  <2>2. RunTypes' /\ JobTypes' /\ Uncalled' /\ Jobs'
    <3>1. CASE t \in Async
      BY <1>1, <1>3, <1>5, <3>1, StageLemma
    <3>2. CASE t \notin Async
      <4>1. stage' = [stage EXCEPT ![t] = "over"] /\ reply' = [reply EXCEPT ![t] = "ok"]
        BY <1>5, <3>2
      <4>2. RunTypes' /\ JobTypes'
        BY <1>1, <1>5, <4>1 DEF TasksInv, RunTypes, JobTypes, Ended
      <4>3. Uncalled'
        BY <1>1, <4>1 DEF TasksInv, Uncalled, RunTypes
      <4>4. \A u \in Async : stage'[u] = stage[u] /\ reply'[u] = reply[u]
        BY <3>2, <4>1, TasksAssumption DEF TasksInv, RunTypes, Forked
      <4>5. Jobs'
        BY <1>1, <1>5, <3>2, <4>4, JobsElsewhere DEF TasksInv
      <4> QED
        BY <4>2, <4>3, <4>5
    <3> QED
      BY <3>1, <3>2
  <2> QED
    BY <1>2, <2>1, <2>2 DEF TasksInv
<1>6. ASSUME NEW ls \in Halfway(t), Revert(t, ls), Raises(t), botched' = botched \cup {t}
      PROVE  TasksInv'
  BY <1>4, <1>6, LayersOf
<1> QED
  BY <1>1, <1>4, <1>5, <1>6 DEF ModuleEnds

(***************************************************************************)
(* Asynchronous tasks.                                                     *)
(***************************************************************************)

\* What the steps of AsyncRunner and its handler leave alone: the pushed files, the
\* layers, and whether a task is at work.
LEMMA AsyncSame ==
    ASSUME TasksInv, NEW t \in Async, UNCHANGED <<pushed, ctl, value, saved, botched>>,
           \/ stage' = stage
           \/ \E s \in Past \cup {"begun", "refused"} :
                /\ stage' = [stage EXCEPT ![t] = s]
                /\ stage[t] \notin AtWork \cup {"new"} /\ s \notin AtWork
    PROVE  /\ PushesTypeOK' /\ Branches' /\ Uncalled'
           /\ LayerTypes' /\ Alone' /\ Shown' /\ Kept'
<1>1. t \in Tasks
  BY TasksAssumption DEF Forked
<1>2. PushesTypeOK' /\ Branches'
  BY PushesSame DEF TasksInv
<1>3. \A u \in Tasks : /\ stage'[u] \in AtWork \/ stage[u] \in AtWork => stage'[u] = stage[u]
                       /\ stage[u] # stage'[u] => u = t /\ stage[t] # "new"
  BY <1>1 DEF TasksInv, RunTypes, AtWork
<1>4. Uncalled'
  BY <1>3 DEF TasksInv, Uncalled
<1>5. LayerTypes' /\ Alone' /\ Shown' /\ Kept'
  BY <1>3, LayersSame DEF TasksInv
<1> QED
  BY <1>2, <1>4, <1>5

\* What the main thread of an asynchronous task is writing.
WrTypes ==
    [what : Contents \cup {"none"}, step : {"none", "open", "write", "rename"},
     onto : {"none", "tmp", "job"}, left : 0 .. 2]

\* A step of AsyncRunner, its handler or its process, by what it leaves in the job's
\* own variables.
Turn(t) ==
    /\ \/ stage'[t] = stage[t]
       \/ /\ stage'[t] \in (Past \cup {"begun", "refused"}) \ AtWork
          /\ stage[t] \notin AtWork \cup {"new"}
    /\ reply'[t] \in {reply[t], "told", "failed"} /\ child'[t] \in {child[t], "dying", "gone"}
    /\ job'[t] \in Contents \cup {NoFile, "torn"} /\ tmp'[t] \in Contents \cup {NoFile, "empty"}
    /\ wr'[t] \in WrTypes /\ alarm'[t] \in {"off", "armed", "fired"}
    /\ timedout'[t] \in {timedout[t], TRUE}
    /\ Updating(t)' /\ JobFile(t)'

Only(f, g, t) == g = [f EXCEPT ![t] = g[t]]

TouchesJob(t) ==
    /\ Only(stage, stage', t) /\ Only(reply, reply', t) /\ Only(child, child', t)
    /\ Only(job, job', t) /\ Only(tmp, tmp', t) /\ Only(wr, wr', t)
    /\ Only(alarm, alarm', t) /\ Only(timedout, timedout', t)
    /\ UNCHANGED <<plays, pushed, ctl, value, saved, botched>>

\* The job keeps the invariant, whichever of its steps it takes: its runner, the
\* alarm handler and its end change what is the task's own, and no other task's.
LEMMA AsyncStep ==
    ASSUME TasksInv, NEW t \in Async, TouchesJob(t), Turn(t)
    PROVE  TasksInv'
<1>1. t \in Tasks /\ t \in Forked
  BY TasksAssumption DEF Forked
<1>2. /\ stage' = [stage EXCEPT ![t] = stage'[t]] /\ reply' = [reply EXCEPT ![t] = reply'[t]]
      /\ child' = [child EXCEPT ![t] = child'[t]] /\ job' = [job EXCEPT ![t] = job'[t]]
      /\ tmp' = [tmp EXCEPT ![t] = tmp'[t]] /\ wr' = [wr EXCEPT ![t] = wr'[t]]
      /\ alarm' = [alarm EXCEPT ![t] = alarm'[t]]
      /\ timedout' = [timedout EXCEPT ![t] = timedout'[t]]
      /\ UNCHANGED <<plays, pushed, ctl, value, saved, botched>>
  BY Zenon DEF TouchesJob, Only
<1>3. \A u \in Async : u # t =>
          /\ job'[u] = job[u] /\ tmp'[u] = tmp[u] /\ wr'[u] = wr[u]
          /\ alarm'[u] = alarm[u] /\ timedout'[u] = timedout[u]
          /\ stage'[u] = stage[u] /\ reply'[u] = reply[u] /\ child'[u] = child[u]
  BY <1>1, <1>2, TasksAssumption DEF TasksInv, RunTypes, JobTypes, Forked
<1>4. RunTypes'
  <2>1. stage'[t] \in {"new", "queued", "refused", "begun", "setup", "getting", "running",
                       "check", "ending", "over"}
    BY <1>1 DEF TasksInv, RunTypes, Past, Turn
  <2>2. reply'[t] \in {"none", "told"} \cup Ended /\ child'[t] \in {"none", "alive", "dying", "gone"}
    BY <1>1 DEF TasksInv, RunTypes, Turn, Ended
  <2> QED
    BY <1>1, <1>2, <2>1, <2>2 DEF TasksInv, RunTypes
<1>5. JobTypes'
  <2>1. wr' \in [Async -> WrTypes]
    BY <1>2 DEF TasksInv, JobTypes, WrTypes, Turn
  <2>2. timedout' \in [Async -> BOOLEAN]
    <3>1. timedout'[t] \in BOOLEAN /\ timedout \in [Async -> BOOLEAN]
      BY DEF TasksInv, JobTypes, Turn
    <3> QED
      BY <1>2, <3>1
  <2>3. job' \in [Async -> Contents \cup {NoFile, "torn"}]
    BY <1>2 DEF TasksInv, JobTypes, Turn
  <2>4. tmp' \in [Async -> Contents \cup {NoFile, "empty"}]
    BY <1>2 DEF TasksInv, JobTypes, Turn
  <2>5. alarm' \in [Async -> {"off", "armed", "fired"}]
    BY <1>2 DEF TasksInv, JobTypes, Turn
  <2> QED
    BY <2>1, <2>2, <2>3, <2>4, <2>5 DEF JobTypes, WrTypes
<1>6. Jobs'
  BY <1>1, <1>3, JobsElsewhere DEF TasksInv, Turn
<1>7. /\ PushesTypeOK' /\ Branches' /\ Uncalled'
      /\ LayerTypes' /\ Alone' /\ Shown' /\ Kept'
  <2>1. CASE stage'[t] = stage[t]
    <3>1. [stage EXCEPT ![t] = stage[t]] = stage
      BY <1>1 DEF TasksInv, RunTypes
    <3>2. stage' = stage
      BY <1>2, <2>1, <3>1, Zenon
    <3> QED
      BY <1>2, <3>2, AsyncSame
  <2>2. CASE /\ stage'[t] \in (Past \cup {"begun", "refused"}) \ AtWork
             /\ stage[t] \notin AtWork \cup {"new"}
    BY <1>2, <2>2, AsyncSame
  <2> QED
    BY <2>1, <2>2 DEF Turn
<1> QED
  BY <1>2, <1>4, <1>5, <1>6, <1>7 DEF TasksInv

\* Leaving a variable alone, and setting it for one task.
LEMMA OnlyLemma ==
    /\ \A S, V, f, t : f \in [S -> V] => Only(f, f, t)
    /\ \A S, V, f, g, t, x : f \in [S -> V] /\ g = [f EXCEPT ![t] = x] => Only(f, g, t)
    /\ \A S, V, f, g, t, x : t \in S /\ f \in [S -> V] /\ g = [f EXCEPT ![t] = x] => g[t] = x
BY DEF Only

\* What is known of a job before a step.
LEMMA JobNow ==
    ASSUME TasksInv, NEW t \in Async
    PROVE  /\ Updating(t) /\ JobFile(t) /\ t \in Tasks /\ t \in Forked
           /\ stage \in [Tasks -> {"new", "queued", "refused", "begun", "setup", "getting",
                                   "running", "check", "ending", "over"}]
           /\ reply \in [Tasks -> {"none", "told"} \cup Ended]
           /\ child \in [Forked -> {"none", "alive", "dying", "gone"}]
           /\ job \in [Async -> Contents \cup {NoFile, "torn"}]
           /\ tmp \in [Async -> Contents \cup {NoFile, "empty"}]
           /\ wr \in [Async -> WrTypes]
           /\ alarm \in [Async -> {"off", "armed", "fired"}]
           /\ timedout \in [Async -> BOOLEAN]
BY TasksAssumption DEF TasksInv, Jobs, RunTypes, JobTypes, WrTypes, Forked

\* run_module_async() begins to write the job file, or has no place for it.
LEMMA BeginJobInv ==
    ASSUME TasksInv, NEW t \in Tasks, BeginJob(t), UNCHANGED plays
    PROVE  TasksInv'
<1>1. PICK r : r = [what |-> "started", step |-> "open", onto |-> "none", left |-> 1]
  OBVIOUS
<1>2. /\ t \in Async /\ stage[t] = "queued"
      /\ UNCHANGED <<pushed, ctl, child, value, saved, botched, job, tmp, alarm, timedout>>
  BY DEF BeginJob
<1>3. CASE /\ stage' = [stage EXCEPT ![t] = "begun"] /\ Updates(t, "started", 1)
           /\ UNCHANGED reply
  <2>1. wr' = [wr EXCEPT ![t] = r]
    BY <1>1, <1>3 DEF Updates
  <2>2. TouchesJob(t)
    BY <1>2, <1>3, <2>1, JobNow, OnlyLemma DEF TouchesJob
  <2>3. stage'[t] = "begun" /\ wr'[t] = r /\ r \in WrTypes
    BY <1>1, <1>2, <1>3, <2>1, JobNow DEF WrTypes, Contents
  <2>4. Turn(t)
    BY <1>1, <1>2, <1>3, <2>3, JobNow DEF Turn, Updating, JobFile, Writing, Outcome, Past, AtWork
  <2> QED
    BY <1>2, <2>2, <2>4, AsyncStep
<1>4. CASE /\ stage' = [stage EXCEPT ![t] = "refused"] /\ reply' = [reply EXCEPT ![t] = "failed"]
           /\ UNCHANGED wr
  <2>1. TouchesJob(t)
    BY <1>2, <1>4, JobNow, OnlyLemma DEF TouchesJob
  <2>2. stage'[t] = "refused" /\ reply'[t] = "failed"
    BY <1>2, <1>4, JobNow
  <2>3. Turn(t)
    BY <1>2, <1>4, <2>2, JobNow DEF Turn, Updating, JobFile, Writing, Outcome, Past, AtWork
  <2> QED
    BY <1>2, <2>1, <2>3, AsyncStep
<1> QED
  BY <1>3, <1>4 DEF BeginJob

\* _update() opens its temporary file.
LEMMA OpenTmpInv ==
    ASSUME TasksInv, NEW t \in Async, OpenTmp(t), UNCHANGED plays
    PROVE  TasksInv'
<1>1. PICK r, r2 : r = wr[t] /\ r2 = [r EXCEPT !.step = "write", !.onto = "tmp"]
  OBVIOUS
<1>2. /\ r.step = "open" /\ tmp' = [tmp EXCEPT ![t] = "empty"] /\ wr' = [wr EXCEPT ![t] = r2]
      /\ UNCHANGED <<pushed, ctl, child, reply, stage, value, saved, botched, job, alarm, timedout>>
  BY <1>1 DEF OpenTmp, started, runner
<1>3. TouchesJob(t)
  BY <1>2, JobNow, OnlyLemma DEF TouchesJob
<1>4. r \in WrTypes
  BY <1>1, JobNow
<1>5. r2 \in WrTypes /\ r2.step = "write" /\ r2.onto = "tmp" /\ r2.what = r.what
  BY <1>1, <1>4 DEF WrTypes
<1>6. wr'[t] = r2 /\ tmp'[t] = "empty"
  BY <1>2, JobNow
<1>7. Turn(t)
  BY <1>1, <1>2, <1>5, <1>6, JobNow DEF Turn, Updating, JobFile, Writing, Outcome, NoFile
<1> QED
  BY <1>3, <1>7, AsyncStep

\* It writes to the file, wherever that is by now.
LEMMA WriteTmpInv ==
    ASSUME TasksInv, NEW t \in Async, WriteTmp(t), UNCHANGED plays
    PROVE  TasksInv'
<1>1. PICK r, r2 : r = wr[t] /\ r2 = [r EXCEPT !.step = "rename", !.onto = "none"]
  OBVIOUS
<1>2. /\ r.step = "write" /\ wr' = [wr EXCEPT ![t] = r2]
      /\ UNCHANGED <<pushed, ctl, child, reply, stage, value, saved, botched, alarm, timedout>>
  BY <1>1 DEF WriteTmp, started, runner
<1>3. \/ r.onto = "tmp" /\ tmp' = [tmp EXCEPT ![t] = r.what] /\ job' = job
      \/ /\ r.onto # "tmp" /\ tmp' = tmp
         /\ \E c \in {r.what, "torn"} : job' = [job EXCEPT ![t] = c]
  BY <1>1 DEF WriteTmp
<1>4. r \in WrTypes
  BY <1>1, JobNow
<1>5. r2 \in WrTypes /\ r2.step = "rename" /\ r2.onto = "none" /\ r2.what = r.what
  BY <1>1, <1>4 DEF WrTypes
<1>6. /\ TouchesJob(t) /\ wr'[t] = r2
      /\ \/ r.onto = "tmp" /\ tmp'[t] = r.what /\ job' = job
         \/ r.onto # "tmp" /\ tmp' = tmp /\ job'[t] \in {r.what, "torn"}
  <2>1. Only(wr, wr', t) /\ wr'[t] = r2
    BY <1>2, JobNow, OnlyLemma
  <2>2. /\ Only(stage, stage', t) /\ Only(reply, reply', t) /\ Only(child, child', t)
        /\ Only(alarm, alarm', t) /\ Only(timedout, timedout', t)
    BY <1>2, JobNow, OnlyLemma
  <2>3. CASE r.onto = "tmp" /\ tmp' = [tmp EXCEPT ![t] = r.what] /\ job' = job
    <3>1. Only(tmp, tmp', t) /\ tmp'[t] = r.what /\ Only(job, job', t)
      BY <2>3, JobNow, OnlyLemma
    <3> QED
      BY <1>2, <2>1, <2>2, <2>3, <3>1 DEF TouchesJob
  <2>4. CASE r.onto # "tmp" /\ tmp' = tmp /\ \E c \in {r.what, "torn"} : job' = [job EXCEPT ![t] = c]
    <3>1. Only(tmp, tmp', t)
      BY <2>4, JobNow, OnlyLemma
    <3>2. PICK c \in {r.what, "torn"} : job' = [job EXCEPT ![t] = c]
      BY <2>4
    <3>3. Only(job, job', t) /\ job'[t] = c
      BY <3>2, JobNow, OnlyLemma
    <3> QED
      BY <1>2, <2>1, <2>2, <2>4, <3>1, <3>3 DEF TouchesJob
  <2> QED
    BY <1>3, <2>3, <2>4
<1>7. /\ r.what \in Contents /\ (stage[t] \in Past => r.what # "started")
      /\ stage[t] \in Past \cup {"begun"}
  BY <1>1, <1>2, JobNow DEF Updating, Writing, Contents, Past
<1>8. r.onto # "tmp" => timedout[t] /\ tmp'[t] = NoFile
  BY <1>1, <1>2, <1>6, JobNow DEF Updating
<1>9. Updating(t)'
  BY <1>1, <1>2, <1>5, <1>6, <1>8, JobNow DEF Updating, Writing
<1>10. JobFile(t)'
  BY <1>1, <1>2, <1>5, <1>6, <1>7, <1>8, JobNow DEF JobFile, Writing, Outcome, NoFile, Contents, Past
<1>11. Turn(t)
  BY <1>2, <1>5, <1>6, <1>7, <1>9, <1>10, JobNow DEF Turn
<1> QED
  BY <1>6, <1>11, AsyncStep

\* It renames the file, or finds that the handler has.
LEMMA RenameTmpInv ==
    ASSUME TasksInv, NEW t \in Async, RenameTmp(t), UNCHANGED plays
    PROVE  TasksInv'
<1>1. PICK r : r = wr[t] /\ r \in WrTypes
  BY JobNow
<1>2. /\ r.step = "rename" /\ r.onto = "none"
      /\ UNCHANGED <<pushed, ctl, child, reply, stage, value, saved, botched, alarm, timedout>>
      /\ r.what \in {"result", "crash", "started"} /\ r.what \in Contents
      /\ \/ r.what = "started" /\ stage[t] = "begun"
         \/ r.what # "started" /\ stage[t] = "ending"
  BY <1>1, JobNow DEF RenameTmp, started, runner, Updating, Writing, Contents
<1>3. /\ Only(stage, stage', t) /\ Only(reply, reply', t) /\ Only(child, child', t)
      /\ Only(alarm, alarm', t) /\ Only(timedout, timedout', t)
  BY <1>2, JobNow, OnlyLemma
<1>4. NotWriting \in WrTypes /\ NotWriting.step = "none" /\ NotWriting.onto = "none"
  BY DEF NotWriting, WrTypes
<1>5. CASE /\ tmp[t] # NoFile /\ job' = [job EXCEPT ![t] = tmp[t]]
           /\ tmp' = [tmp EXCEPT ![t] = NoFile] /\ wr' = [wr EXCEPT ![t] = NotWriting]
  <2>1. tmp[t] = r.what
    BY <1>1, <1>2, <1>5, JobNow DEF Updating
  <2>2. /\ Only(job, job', t) /\ Only(tmp, tmp', t) /\ Only(wr, wr', t)
        /\ job'[t] = r.what /\ tmp'[t] = NoFile /\ wr'[t] = NotWriting
    BY <1>5, <2>1, JobNow, OnlyLemma
  <2>3. TouchesJob(t)
    BY <1>2, <1>3, <2>2 DEF TouchesJob
  <2>4. Updating(t)'
    BY <1>4, <2>2 DEF Updating, Writing
  <2>5. JobFile(t)'
    BY <1>2, <2>2, JobNow DEF JobFile, Writing, Outcome, NoFile, Contents, Past
  <2>6. Turn(t)
    BY <1>2, <1>4, <2>2, <2>4, <2>5, JobNow DEF Turn
  <2> QED
    BY <2>3, <2>6, AsyncStep
<1>6. CASE /\ tmp[t] = NoFile /\ UNCHANGED <<job, tmp>>
           /\ (IF r.left = 0 THEN wr' = [wr EXCEPT ![t] = NotWriting]
               ELSE Updates(t, "crash", r.left - 1))
  <2>1. timedout[t] /\ stage[t] = "ending"
    <3>1. timedout[t]
      BY <1>1, <1>2, <1>6, JobNow DEF Updating, NoFile, Contents
    <3> QED
      BY <1>2, <3>1, JobNow DEF JobFile, Past
  <2>2. PICK r2 : r2 = [what |-> "crash", step |-> "open", onto |-> "none", left |-> r.left - 1]
    OBVIOUS
  <2>3. PICK w \in {NotWriting, r2} : wr' = [wr EXCEPT ![t] = w] /\ (w = r2 => r.left # 0)
    BY <1>6, <2>2, <1>4 DEF Updates
  <2>4. /\ w \in WrTypes /\ w.onto = "none"
        /\ (w.step = "none" \/ (w.step = "open" /\ w.what = "crash"))
    <3>1. CASE w = NotWriting
      BY <1>4, <3>1
    <3>2. CASE w = r2 /\ r.left # 0
      <4>1. r.left \in 0 .. 2
        BY <1>1 DEF WrTypes
      <4>2. r.left - 1 \in 0 .. 2
        BY <3>2, <4>1
      <4> QED
        BY <2>2, <3>2, <4>2 DEF WrTypes, Contents
    <3> QED
      BY <2>3, <3>1, <3>2
  <2>5. Only(job, job', t) /\ Only(tmp, tmp', t) /\ Only(wr, wr', t) /\ wr'[t] = w
    BY <1>6, <2>3, JobNow, OnlyLemma
  <2>6. TouchesJob(t)
    BY <1>2, <1>3, <2>5 DEF TouchesJob
  <2>7. Updating(t)'
    BY <1>2, <2>1, <2>4, <2>5 DEF Updating, Writing
  <2>8. JobFile(t)'
    BY <1>2, <1>6, <2>1, JobNow DEF JobFile, Outcome
  <2>9. Turn(t)
    BY <1>2, <1>6, <2>4, <2>5, <2>7, <2>8, JobNow DEF Turn
  <2> QED
    BY <2>6, <2>9, AsyncStep
<1> QED
  BY <1>1, <1>5, <1>6 DEF RenameTmp

\* The controller is told that the job has started.
LEMMA TellStartedInv ==
    ASSUME TasksInv, NEW t \in Tasks, TellStarted(t), UNCHANGED plays
    PROVE  TasksInv'
<1>1. PICK a \in {"armed", "off"} : alarm' = [alarm EXCEPT ![t] = a]
  BY DEF TellStarted
<1>2. /\ t \in Async /\ stage[t] = "begun" /\ wr[t].step = "none"
      /\ reply' = [reply EXCEPT ![t] = "told"] /\ stage' = [stage EXCEPT ![t] = "setup"]
      /\ UNCHANGED <<pushed, ctl, child, value, saved, botched, job, tmp, wr, timedout>>
  BY DEF TellStarted, MayTell, Writing
<1>3. /\ TouchesJob(t) /\ stage'[t] = "setup" /\ reply'[t] = "told" /\ alarm'[t] = a
  BY <1>1, <1>2, JobNow, OnlyLemma DEF TouchesJob
<1>4. Updating(t)' /\ JobFile(t)'
  BY <1>2, <1>3, JobNow DEF Updating, JobFile, Writing, Outcome, Past
<1>5. Turn(t)
  BY <1>1, <1>2, <1>3, <1>4, JobNow DEF Turn, Past, AtWork
<1> QED
  BY <1>2, <1>3, <1>5, AsyncStep

\* The module has run: its result, or an error, is to be written.
LEMMA WriteResultInv ==
    ASSUME TasksInv, NEW t \in Async, WriteResult(t), UNCHANGED plays
    PROVE  TasksInv'
<1>1. /\ stage[t] = "check" /\ stage' = [stage EXCEPT ![t] = "ending"]
      /\ UNCHANGED <<pushed, ctl, child, reply, value, saved, botched, job, tmp, alarm, timedout>>
  BY DEF WriteResult, started
<1>2. PICK w : /\ \/ w = wr[t] /\ timedout[t]
                  \/ /\ w \in WrTypes /\ w.step = "open" /\ w.onto = "none"
                     /\ w.what \in {"result", "crash"}
               /\ wr' = [wr EXCEPT ![t] = w]
  <2>1. CASE timedout[t] /\ UNCHANGED wr
    <3>1. wr = [wr EXCEPT ![t] = wr[t]]
      BY JobNow
    <3> QED
      BY <2>1, <3>1
  <2>2. ASSUME NEW what \in {"result", "crash"}, NEW left \in {1, 2}, Updates(t, what, left)
        PROVE  \E w : /\ w \in WrTypes /\ w.step = "open" /\ w.onto = "none"
                      /\ w.what \in {"result", "crash"} /\ wr' = [wr EXCEPT ![t] = w]
    <3>1. PICK r : r = [what |-> what, step |-> "open", onto |-> "none", left |-> left]
      OBVIOUS
    <3>2. r \in WrTypes /\ r.step = "open" /\ r.onto = "none" /\ r.what \in {"result", "crash"}
      BY <3>1 DEF WrTypes, Contents
    <3> QED
      BY <2>2, <3>1, <3>2 DEF Updates
  <2> QED
    BY <2>1, <2>2 DEF WriteResult
<1>3. TouchesJob(t) /\ stage'[t] = "ending" /\ wr'[t] = w
  BY <1>1, <1>2, JobNow, OnlyLemma DEF TouchesJob
<1>4. wr[t] \in WrTypes /\ wr[t].step = "none" /\ wr[t].onto = "none"
  BY <1>1, JobNow DEF Updating, Writing, WrTypes
<1>5. Updating(t)' /\ JobFile(t)'
  BY <1>1, <1>2, <1>3, <1>4, JobNow DEF Updating, JobFile, Writing, Outcome, Past
<1>6. Turn(t)
  BY <1>1, <1>2, <1>3, <1>4, <1>5, JobNow DEF Turn, Past, AtWork
<1> QED
  BY <1>3, <1>6, AsyncStep

\* The job tells its own broker to shut down.
LEMMA EndJobInv ==
    ASSUME TasksInv, NEW t \in Tasks, EndJob(t), UNCHANGED plays
    PROVE  TasksInv'
<1>1. /\ t \in Async /\ stage[t] = "ending" /\ wr[t].step = "none"
      /\ stage' = [stage EXCEPT ![t] = "over"] /\ child' = [child EXCEPT ![t] = "dying"]
      /\ UNCHANGED <<pushed, ctl, reply, value, saved, botched, job, tmp, wr, alarm, timedout>>
  BY DEF EndJob, MayEnd, Writing, asynch
<1>2. TouchesJob(t) /\ stage'[t] = "over" /\ child'[t] = "dying"
  BY <1>1, JobNow, OnlyLemma DEF TouchesJob
<1>3. Updating(t)' /\ JobFile(t)'
  BY <1>1, <1>2, JobNow DEF Updating, JobFile, Writing, Outcome, Past
<1>4. Turn(t)
  BY <1>1, <1>2, <1>3, JobNow DEF Turn, Past, AtWork
<1> QED
  BY <1>1, <1>2, <1>4, AsyncStep

\* _on_sigalrm()
LEMMA OnSigalrmInv ==
    ASSUME TasksInv, NEW t \in Tasks, OnSigalrm(t), UNCHANGED plays
    PROVE  TasksInv'
<1>1. PICK r, r2 : r = wr[t] /\ r2 = [r EXCEPT !.onto = IF @ = "tmp" THEN "job" ELSE @]
  OBVIOUS
<1>2. /\ t \in Async /\ alarm[t] = "armed" /\ alarm' = [alarm EXCEPT ![t] = "fired"]
      /\ job' = [job EXCEPT ![t] = "timeout"] /\ tmp' = [tmp EXCEPT ![t] = NoFile]
      /\ wr' = [wr EXCEPT ![t] = r2] /\ timedout' = [timedout EXCEPT ![t] = TRUE]
      /\ child' = [child EXCEPT ![t] = "dying"]
      /\ UNCHANGED <<pushed, ctl, reply, stage, value, saved, botched>>
  BY <1>1 DEF OnSigalrm, runner
<1>3. /\ Only(alarm, alarm', t) /\ Only(job, job', t) /\ Only(tmp, tmp', t) /\ Only(wr, wr', t)
      /\ Only(timedout, timedout', t) /\ Only(child, child', t)
      /\ Only(stage, stage', t) /\ Only(reply, reply', t)
  BY <1>2, JobNow, OnlyLemma
<1>4. /\ alarm'[t] = "fired" /\ job'[t] = "timeout" /\ tmp'[t] = NoFile /\ wr'[t] = r2
      /\ timedout'[t] = TRUE /\ child'[t] = "dying"
  BY <1>2, JobNow
<1>5. TouchesJob(t)
  BY <1>2, <1>3 DEF TouchesJob
<1>6. r \in WrTypes
  BY <1>1, <1>2, JobNow
<1>7. /\ r2 \in WrTypes /\ r2.step = r.step /\ r2.what = r.what
      /\ r2.onto = IF r.onto = "tmp" THEN "job" ELSE r.onto
  BY <1>1, <1>6 DEF WrTypes
<1>8. stage[t] \in Past /\ Updating(t)
  BY <1>2, JobNow DEF JobFile
<1>9. Updating(t)'
  <2>1. timedout'[t]
    BY <1>4
  <2>2. /\ r.step # "none" =>
             \/ r.what = "started" /\ stage[t] = "begun"
             \/ r.what \in {"result", "crash"} /\ stage[t] = "ending"
        /\ r.step = "write" => r.onto \in {"tmp", "job"}
        /\ r.step # "write" => r.onto = "none"
    BY <1>1, <1>8 DEF Updating, Writing
  <2>3. wr'[t].step = r.step /\ wr'[t].what = r.what /\ wr'[t].onto = r2.onto /\ stage'[t] = stage[t]
    BY <1>2, <1>4, <1>7
  <2>4. /\ r.step = "write" => r2.onto = "job"
        /\ r.step # "write" => r2.onto = "none"
    BY <1>7, <2>2
  <2> QED
    BY <1>4, <2>1, <2>2, <2>3, <2>4 DEF Updating, Writing
<1>10. JobFile(t)'
  BY <1>2, <1>4, <1>8 DEF JobFile, Writing, Outcome, NoFile, Past
<1>11. Turn(t)
  BY <1>2, <1>4, <1>7, <1>9, <1>10, JobNow DEF Turn, Contents
<1> QED
  BY <1>2, <1>5, <1>11, AsyncStep

\* A forked process ends.
LEMMA DiesInv ==
    ASSUME TasksInv, NEW t \in Tasks, Dies(t), UNCHANGED plays
    PROVE  TasksInv'
<1>1. /\ t \in Forked /\ (child[t] = "dying" \/ (t \in Mortal /\ child[t] = "alive"))
      /\ child' = [child EXCEPT ![t] = "gone"] /\ Forgotten(t)
      /\ alarm' = (IF t \in Async THEN [alarm EXCEPT ![t] = "off"] ELSE alarm)
      /\ UNCHANGED <<ctl, reply, stage, value, saved, botched, job, tmp, wr, timedout>>
  BY DEF Dies, runner
<1>2. PushesTypeOK' /\ Branches'
  <2>1. t \in Nodes
    BY <1>1, TasksAssumption
  <2> QED
    BY <1>1, <2>1, ForgottenInv DEF TasksInv
<1>3. RunTypes' /\ JobTypes'
  BY <1>1 DEF TasksInv, RunTypes, JobTypes
<1>4. Uncalled'
  BY <1>1 DEF TasksInv, Uncalled
<1>5. LayerTypes' /\ Alone' /\ Shown' /\ Kept'
  BY <1>1, LayersSame DEF TasksInv
<1>6. \A u \in Async : u # t => child'[u] = child[u] /\ alarm'[u] = alarm[u]
  BY <1>1 DEF TasksInv, RunTypes, JobTypes, Forked
<1>7. t \in Async => Updating(t)' /\ JobFile(t)'
  <2>1. CASE t \in Async
    <3>1. child'[t] = "gone" /\ alarm'[t] = "off"
      BY <1>1, <2>1, JobNow
    <3> QED
      BY <1>1, <2>1, <3>1, JobNow DEF Updating, JobFile, Writing, Outcome
  <2> QED
    BY <2>1
<1>8. Jobs'
  BY <1>1, <1>6, <1>7, JobsElsewhere DEF TasksInv
<1> QED
  BY <1>2, <1>3, <1>4, <1>5, <1>8 DEF TasksInv

(***************************************************************************)
(* The theorems.                                                           *)
(***************************************************************************)

\* Initially nothing has been pushed, patched or written.
LEMMA TasksInitInv ==
    ASSUME TasksInit
    PROVE  TasksInv
<1>1. PushesTypeOK /\ Branches
  BY DEF TasksInit, PushesInit, PushesTypeOK, Branches
<1>2. /\ plays \in Playbooks
      /\ ctl = [t \in Tasks |-> "new"] /\ child = [t \in Forked |-> "none"]
      /\ stage = [t \in Tasks |-> "new"] /\ reply = [t \in Tasks |-> "none"]
  BY DEF TasksInit
<1>3. RunTypes /\ Uncalled /\ Alone
  BY <1>2 DEF RunTypes, Uncalled, Alone, AtWork
<1>4. LayerTypes /\ Shown /\ Kept
  <2>1. PICK clean : clean = [l \in Layers |-> Pristine] /\ clean \in [Layers -> Tasks \cup {Pristine}]
    <3>1. [l \in Layers |-> Pristine] \in [Layers -> Tasks \cup {Pristine}]
      OBVIOUS
    <3> QED
      BY <3>1
  <2>2. value = [p \in Procs |-> clean] /\ saved = [t \in Tasks |-> clean] /\ botched = {}
    BY <2>1 DEF TasksInit
  <2>3. \A t \in Tasks : Patched(t) = {}
    BY <1>2 DEF Patched
  <2> QED
    BY <2>1, <2>2, <2>3 DEF LayerTypes, Shown, Kept
<1>5. /\ job = [t \in Async |-> NoFile] /\ tmp = [t \in Async |-> NoFile]
      /\ wr = [t \in Async |-> NotWriting] /\ alarm = [t \in Async |-> "off"]
      /\ timedout = [t \in Async |-> FALSE]
  BY DEF TasksInit
<1>6. JobTypes
  <2>1. NotWriting \in WrTypes
    BY DEF NotWriting, WrTypes
  <2> QED
    BY <1>5, <2>1 DEF JobTypes, WrTypes
<1>7. Jobs
  <2>1. Async \subseteq Tasks /\ Async \subseteq Forked
    BY TasksAssumption DEF Forked
  <2>2. NotWriting.step = "none" /\ NotWriting.onto = "none"
    BY DEF NotWriting
  <2> QED
    BY <1>2, <1>5, <2>1, <2>2 DEF Jobs, Updating, JobFile, Writing, Past, NoFile
<1> QED
  BY <1>1, <1>3, <1>4, <1>6, <1>7 DEF TasksInv

\* Every step preserves the invariant.
LEMMA TasksStepInv ==
    ASSUME TasksInv, [TasksNext]_tasksVars
    PROVE  TasksInv'
<1>1. CASE Push
  <2>1. /\ PushStep
        /\ UNCHANGED <<plays, ctl, child, reply, stage, value, saved, botched, job, tmp, wr, alarm, timedout>>
    BY <1>1 DEF Push, started, runner, asynch
  <2>2. PushesTypeOK' /\ Branches'
    BY <2>1, PushStepInv DEF TasksInv
  <2>3. RunTypes' /\ JobTypes' /\ Uncalled'
    BY <2>1 DEF TasksInv, RunTypes, JobTypes, Uncalled
  <2>4. LayerTypes' /\ Alone' /\ Shown' /\ Kept'
    BY <2>1, LayersSame DEF TasksInv
  <2>5. Jobs'
    BY <2>1 DEF TasksInv, Jobs, Updating, JobFile, Writing, Outcome
  <2> QED
    BY <2>2, <2>3, <2>4, <2>5 DEF TasksInv
<1>2. ASSUME NEW t \in Tasks, Worker(t) PROVE TasksInv'
  BY <1>2, SpawnInv, PropagateInv, CallInv, AnsweredInv DEF Worker
<1>3. ASSUME NEW t \in Tasks, Process(t) PROVE TasksInv'
  BY <1>3, OnSigalrmInv, DiesInv DEF Process
<1>4. ASSUME NEW t \in Tasks, MainThread(t) PROVE TasksInv'
  <2>1. UNCHANGED plays
    BY <1>4 DEF MainThread
  <2>2. CASE Setup(t) \/ SetupRest(t) \/ ModuleEnds(t)
    BY <2>1, <2>2, SetupInv, SetupRestInv, ModuleEndsInv
  <2>3. CASE BeginJob(t) \/ TellStarted(t) \/ EndJob(t)
    BY <2>1, <2>3, BeginJobInv, TellStartedInv, EndJobInv
  <2>4. CASE t \in Async /\ (WriteResult(t) \/ OpenTmp(t) \/ WriteTmp(t) \/ RenameTmp(t))
    BY <2>1, <2>4, WriteResultInv, OpenTmpInv, WriteTmpInv, RenameTmpInv
  <2>5. WriteResult(t) => t \in Async
    BY DEF WriteResult, TasksInv, Uncalled
  <2> QED
    BY <1>4, <2>2, <2>3, <2>4, <2>5 DEF MainThread
<1>5. CASE UNCHANGED tasksVars
  <2>1. UNCHANGED <<plays, pushed, ctl, child, reply, stage, value, saved, botched, job, tmp, wr, alarm, timedout>>
    BY <1>5 DEF tasksVars, started, runner, asynch
  <2>2. PushesTypeOK' /\ Branches'
    BY <2>1, PushesSame DEF TasksInv
  <2>3. RunTypes' /\ JobTypes' /\ Uncalled'
    BY <2>1 DEF TasksInv, RunTypes, JobTypes, Uncalled
  <2>4. LayerTypes' /\ Alone' /\ Shown' /\ Kept'
    BY <2>1, LayersSame DEF TasksInv
  <2>5. Jobs'
    BY <2>1 DEF TasksInv, Jobs, Updating, JobFile, Writing, Outcome
  <2> QED
    BY <2>2, <2>3, <2>4, <2>5 DEF TasksInv
<1> QED
  BY <1>1, <1>2, <1>3, <1>4, <1>5 DEF TasksNext

\* The invariant holds of every execution.
THEOREM TasksInvariance == TasksSpec => []TasksInv
<1>1. TasksInit => TasksInv
  BY TasksInitInv
<1>2. TasksInv /\ [TasksNext]_tasksVars => TasksInv'
  BY TasksStepInv
<1> QED
  BY <1>1, <1>2, PTL DEF TasksSpec

\* Every variable of Tasks and of Pushes keeps its type, for any tree, tasks and
\* playbooks: a file is only ever passed on to a context the sender leads to.
THEOREM TasksTypeCorrect == TasksSpec => []TasksTypeOK
<1>1. TasksInv => TasksTypeOK
  BY DEF TasksInv, RunTypes, LayerTypes, JobTypes, TasksTypeOK
<1> QED
  BY <1>1, TasksInvariance, PTL

\* A process shows, of a task that is over, what its runner never puts back
\* (sys.meta_path and __main__) and what a setup() or a revert() that raised left.
THEOREM TasksLeaveNoTrace == TasksSpec => []OnlyTheBotchedLeak
<1>1. TasksInv => OnlyTheBotchedLeak
  BY DEF TasksInv, Shown, OnlyTheBotchedLeak, Working
<1> QED
  BY <1>1, TasksInvariance, PTL

\* The job file is there before the controller hears of the job, it no longer says that
\* the job has only started when its process is told to end, and it is torn at most
\* where the time limit struck, whenever SIGALRM comes.
THEOREM JobsAreOnFile == TasksSpec => []JobFileIsAhead
<1>1. TasksInv => JobFileIsAhead
  BY DEF TasksInv, Jobs, JobFile, Outcome, JobFileIsAhead
<1> QED
  BY <1>1, TasksInvariance, PTL
=============================================================================
