--------------------------- MODULE RoutingProofs ---------------------------
(***************************************************************************)
(* Theorems about Routing, for any tree of contexts, any requests and any  *)
(* number of deaths: types; that no caller is told falsely that a context  *)
(* is gone; and that routes are exact once traffic has settled.            *)
(***************************************************************************)
EXTENDS Routing, FiniteSetTheorems, SequenceTheorems, TLAPS

(***************************************************************************)
(* What is on a sequence.                                                  *)
(***************************************************************************)
On(s) == {s[n] : n \in 1..Len(s)}

\* What is on a sequence is of its type.
LEMMA OnType == ASSUME NEW S, NEW s \in Seq(S) PROVE On(s) \subseteq S
BY DEF On

\* Nothing is on an empty sequence.
LEMMA OnEmpty == On(<<>>) = {}
BY DEF On

\* The one element of a sequence of one.
LEMMA OnOne == ASSUME NEW S, NEW x \in S PROVE <<x>> \in Seq(S) /\ On(<<x>>) = {x}
BY DEF On

\* The first element and the rest.
LEMMA OnTail ==
    ASSUME NEW S, NEW s \in Seq(S), s # <<>>
    PROVE  Tail(s) \in Seq(S) /\ Head(s) \in S /\ On(s) = {Head(s)} \cup On(Tail(s))
<1>1. PICK t : t = Tail(s)
  OBVIOUS
<1>2. /\ Len(s) \in Nat /\ Len(s) >= 1 /\ Len(t) = Len(s) - 1 /\ \A j \in 1..Len(t) : t[j] = s[j + 1]
      /\ Head(s) = s[1] /\ \A j \in 1..Len(t) : j + 1 \in 1..Len(s)
  BY <1>1
<1>3. \A n \in 1..Len(s) : n = 1 \/ (n - 1 \in 1..Len(t) /\ t[n - 1] = s[n])
  BY <1>2
<1>4. On(s) \subseteq {Head(s)} \cup On(t)
  BY <1>2, <1>3 DEF On
<1>5. {Head(s)} \cup On(t) \subseteq On(s)
  BY <1>2 DEF On
<1> QED
  BY <1>1, <1>2, <1>4, <1>5

\* One sequence after the other.
LEMMA OnConcat ==
    ASSUME NEW S, NEW s \in Seq(S), NEW t \in Seq(S)
    PROVE  s \o t \in Seq(S) /\ On(s \o t) = On(s) \cup On(t)
<1>1. PICK u : u = s \o t
  OBVIOUS
<1>2. /\ Len(s) \in Nat /\ Len(t) \in Nat /\ Len(u) = Len(s) + Len(t)
      /\ \A j \in 1..Len(s) : u[j] = s[j] /\ j \in 1..Len(u)
      /\ \A j \in 1..Len(t) : u[j + Len(s)] = t[j] /\ j + Len(s) \in 1..Len(u)
  BY <1>1
<1>3. \A j \in 1..Len(u) : j \in 1..Len(s) \/ (j - Len(s) \in 1..Len(t) /\ u[j] = t[j - Len(s)])
  BY <1>1, <1>2
<1>4. On(u) \subseteq On(s) \cup On(t)
  BY <1>2, <1>3 DEF On
<1>5. On(s) \cup On(t) \subseteq On(u)
  BY <1>2 DEF On
<1> QED
  BY <1>1, <1>4, <1>5

\* A prefix has nothing new.
LEMMA OnPrefix ==
    ASSUME NEW S, NEW s \in Seq(S), NEW k \in Nat, k <= Len(s)
    PROVE  SubSeq(s, 1, k) \in Seq(S) /\ On(SubSeq(s, 1, k)) \subseteq On(s)
<1>1. PICK u : u = SubSeq(s, 1, k)
  OBVIOUS
<1>2. Len(s) \in Nat /\ Len(u) = k /\ \A j \in 1..k : u[j] = s[j] /\ j \in 1..Len(s)
  BY <1>1
<1>3. u \in Seq(S)
  BY <1>1
<1> QED
  BY <1>1, <1>2, <1>3 DEF On

(***************************************************************************)
(* Induction: a set of naturals has a least element.                       *)
(***************************************************************************)
LEMMA LeastNatural ==
    ASSUME NEW T \in SUBSET Nat, T # {}
    PROVE  \E x \in T : \A y \in T : x <= y
<1> DEFINE R == OpToRel(<, Nat)
<1>1. IsWellFoundedOn(R, Nat)
  BY NatLessThanWellFounded, Zenon
<1>2. \A x, y \in Nat : x < y => <<x, y>> \in R
  BY DEF OpToRel
<1> HIDE DEF R
<1>3. PICK x \in T : \A y \in T : ~(<<y, x>> \in R)
  BY <1>1, WFMin
<1>4. ASSUME NEW y \in T PROVE x <= y
  <2>1. x \in Nat /\ y \in Nat
    OBVIOUS
  <2>2. ~(y < x)
    BY <1>2, <1>3, <2>1
  <2> QED
    BY <2>1, <2>2
<1> QED
  BY <1>4

\* A set that has, with a natural number below n, the next one, has them all.
LEMMA Climb ==
    ASSUME NEW n \in Nat, NEW S, 1 \in S, \A k \in 1..n : k \in S /\ k < n => k + 1 \in S
    PROVE  1..n \subseteq S
<1> DEFINE T == {k \in 1..n : k \notin S}
<1>1. T \in SUBSET Nat
  OBVIOUS
<1>2. ASSUME T # {} PROVE FALSE
  <2>1. PICK x \in T : \A y \in T : x <= y
    BY <1>1, <1>2, LeastNatural
  <2>2. x \in Nat /\ x \in 1..n /\ x \notin S /\ x # 1
    BY <2>1
  <2>3. x - 1 \in 1..n /\ x - 1 < n /\ (x - 1) + 1 = x
    BY <2>2
  <2>4. x - 1 \notin S
    BY <2>2, <2>3
  <2>5. x - 1 \in T
    BY <2>3, <2>4
  <2>6. x <= x - 1
    BY <2>1, <2>5
  <2> QED
    BY <2>2, <2>6
<1> QED
  BY <1>2

\* The function that FlattenSeq() computes with, up to k.
Flattens(f, ss, k) ==
    /\ f = [i \in 1..k |-> f[i]]
    /\ f[1] = ss[1]
    /\ \A i \in 2..k : f[i] = f[i - 1] \o ss[i]

\* It can be continued.
LEMMA FlattenFurther ==
    ASSUME NEW ss, NEW k \in Nat, k >= 1, NEW f, Flattens(f, ss, k)
    PROVE  \E g : Flattens(g, ss, k + 1)
<1>1. PICK g : g = [i \in 1..(k + 1) |-> IF i = k + 1 THEN f[k] \o ss[k + 1] ELSE f[i]]
  OBVIOUS
<1>2. k + 1 \in 1..(k + 1) /\ \A i \in 1..k : i \in 1..(k + 1) /\ i # k + 1
  OBVIOUS
<1>3. g[k + 1] = f[k] \o ss[k + 1] /\ \A i \in 1..k : g[i] = f[i]
  BY <1>1, <1>2
<1>4. ASSUME NEW i \in 2..(k + 1) PROVE g[i] = g[i - 1] \o ss[i]
  <2>1. CASE i = k + 1
    <3>1. i - 1 = k /\ k \in 1..k
      BY <2>1
    <3> QED
      BY <1>3, <2>1, <3>1
  <2>2. CASE i # k + 1
    <3>1. i \in 2..k /\ i \in 1..k /\ i - 1 \in 1..k
      BY <2>2
    <3> QED
      BY <1>3, <3>1 DEF Flattens
  <2> QED
    BY <2>1, <2>2
<1>5. g = [i \in 1..(k + 1) |-> g[i]]
  BY <1>1
<1>6. g[1] = ss[1]
  <2>1. 1 \in 1..k
    OBVIOUS
  <2> QED
    BY <1>3, <2>1 DEF Flattens
<1> QED
  BY <1>4, <1>5, <1>6 DEF Flattens

\* It exists.
LEMMA FlattenExists ==
    ASSUME NEW ss, NEW n \in Nat, n >= 1
    PROVE  \E f : f = [i \in 1..n |-> IF i = 1 THEN ss[i] ELSE f[i - 1] \o ss[i]]
<1> DEFINE T == {k \in 1..n : \E f : Flattens(f, ss, k)}
<1>1. 1 \in T
  <2>1. PICK f : f = [i \in 1..1 |-> ss[1]]
    OBVIOUS
  <2>2. f = [i \in 1..1 |-> f[i]] /\ f[1] = ss[1]
    BY <2>1
  <2>3. Flattens(f, ss, 1)
    BY <2>2 DEF Flattens
  <2>4. 1 \in 1..n
    OBVIOUS
  <2> QED
    BY <2>3, <2>4
<1>2. ASSUME NEW k \in 1..n, k \in T, k < n PROVE k + 1 \in T
  <2>1. PICK f : Flattens(f, ss, k)
    BY <1>2
  <2>2. \E g : Flattens(g, ss, k + 1)
    BY <2>1, FlattenFurther
  <2>3. k + 1 \in 1..n
    BY <1>2
  <2> QED
    BY <2>2, <2>3
<1>3. n \in T
  <2> HIDE DEF T
  <2>1. 1..n \subseteq T
    BY <1>1, <1>2, Climb
  <2> QED
    BY <2>1
<1>4. PICK f : Flattens(f, ss, n)
  BY <1>3
<1>5. \A i \in 1..n : f[i] = IF i = 1 THEN ss[i] ELSE f[i - 1] \o ss[i]
  <2>1. \A i \in 1..n : i = 1 \/ i \in 2..n
    OBVIOUS
  <2> QED
    BY <1>4, <2>1 DEF Flattens
<1>6. f = [i \in 1..n |-> f[i]]
  BY <1>4 DEF Flattens
<1>7. f = [i \in 1..n |-> IF i = 1 THEN ss[i] ELSE f[i - 1] \o ss[i]]
  BY <1>5, <1>6
<1> QED
  BY <1>7

\* A flattened sequence has what the sequences in it have.
LEMMA OnFlat ==
    ASSUME NEW S, NEW n \in Nat, NEW ss \in [1..n -> Seq(S)]
    PROVE  /\ FlattenSeq(ss) \in Seq(S)
           /\ \A x \in On(FlattenSeq(ss)) : \E i \in 1..n : x \in On(ss[i])
           /\ \A i \in 1..n : On(ss[i]) \subseteq On(FlattenSeq(ss))
<1>1. Len(ss) = n
  OBVIOUS
<1>2. CASE n = 0
  <2>1. FlattenSeq(ss) = ss /\ ss = <<>>
    BY <1>1, <1>2 DEF FlattenSeq
  <2> QED
    BY <2>1, OnEmpty
<1>3. CASE n # 0
  <2>1. \E f : f = [i \in 1..n |-> IF i = 1 THEN ss[i] ELSE f[i - 1] \o ss[i]]
    <3>1. n \in Nat /\ n >= 1
      BY <1>3
    <3> QED
      BY <3>1, FlattenExists
  <2>2. PICK f : /\ FlattenSeq(ss) = f[n]
                 /\ f = [i \in 1..n |-> IF i = 1 THEN ss[i] ELSE f[i - 1] \o ss[i]]
    BY <1>1, <1>3, <2>1 DEF FlattenSeq
  <2>3. \A i \in 1..n : f[i] = IF i = 1 THEN ss[i] ELSE f[i - 1] \o ss[i]
    BY <2>2
  <2> DEFINE T == {k \in 1..n : /\ f[k] \in Seq(S)
                                /\ \A x \in On(f[k]) : \E i \in 1..n : x \in On(ss[i])
                                /\ \A i \in 1..k : On(ss[i]) \subseteq On(f[k])}
  <2>4. 1 \in T
    <3>1. 1 \in 1..n /\ f[1] = ss[1] /\ ss[1] \in Seq(S)
      BY <1>3, <2>3
    <3> QED
      BY <3>1
  <2>5. ASSUME NEW k \in 1..n, k \in T, k < n PROVE k + 1 \in T
    <3>1. k + 1 \in 1..n /\ k + 1 # 1 /\ (k + 1) - 1 = k
      BY <2>5
    <3>2. f[k + 1] = f[k] \o ss[k + 1] /\ ss[k + 1] \in Seq(S)
      BY <2>3, <3>1
    <3>3. f[k + 1] \in Seq(S) /\ On(f[k + 1]) = On(f[k]) \cup On(ss[k + 1])
      BY <2>5, <3>2, OnConcat
    <3>4. \A i \in 1..(k + 1) : On(ss[i]) \subseteq On(f[k + 1])
      <4>1. \A i \in 1..(k + 1) : i \in 1..k \/ i = k + 1
        OBVIOUS
      <4> QED
        BY <2>5, <3>3, <4>1
    <3> QED
      BY <2>5, <3>1, <3>3, <3>4
  <2>6. n \in T
    <3> HIDE DEF T
    <3>1. 1..n \subseteq T
      BY <1>3, <2>4, <2>5, Climb
    <3> QED
      BY <1>3, <3>1
  <2> QED
    BY <2>2, <2>6
<1> QED
  BY <1>2, <1>3

\* The elements of a finite set, in some order.
LEMMA OnListed ==
    ASSUME NEW S, IsFiniteSet(S)
    PROVE  /\ SetToSeq(S) \in [1..Cardinality(S) -> S] /\ Cardinality(S) \in Nat
           /\ \A x \in S : \E i \in 1..Cardinality(S) : SetToSeq(S)[i] = x
<1>1. Cardinality(S) \in Nat /\ ExistsBijection(1..Cardinality(S), S)
  BY FS_CardinalityType
<1>2. PICK f \in [1..Cardinality(S) -> S] : IsInjective(f)
  <2>1. PICK f \in Bijection(1..Cardinality(S), S) : TRUE
    BY <1>1 DEF ExistsBijection
  <2>2. f \in [1..Cardinality(S) -> S]
    BY DEF Bijection, Injection
  <2>3. IsInjective(f)
    BY <2>2 DEF Bijection, Injection, IsInjective
  <2> QED
    BY <2>2, <2>3
<1>3. SetToSeq(S) \in [1..Cardinality(S) -> S] /\ IsInjective(SetToSeq(S))
  BY <1>1, <1>2 DEF SetToSeq
<1>4. PICK k, g : k \in Nat /\ g \in [1..k -> S] /\ k = Cardinality(S) /\ g = SetToSeq(S) /\ IsInjective(g)
  BY <1>1, <1>3
<1>5. \A x \in S : \E i \in 1..k : g[i] = x
  <2>1. g \in Injection(1..k, S)
    BY <1>4 DEF Injection, IsInjective
  <2>2. Cardinality(1..k) = k
    BY FS_Interval, <1>4
  <2>3. g \in Surjection(1..k, S)
    BY <1>4, <2>1, <2>2, FS_Injection
  <2> QED
    BY <2>3 DEF Surjection
<1> QED
  BY <1>3, <1>4, <1>5

(***************************************************************************)
(* The tree.                                                               *)
(***************************************************************************)

\* A lineage has the parents of its contexts, and nothing else is needed.
LEMMA LineageLemma ==
    ASSUME NEW t \in Nodes
    PROVE  /\ t \in Lineage(t) /\ Lineage(t) \in SUBSET Nodes /\ Root \in Lineage(t)
           /\ \A x \in Lineage(t) \ {Root} : Parent[x] \in Lineage(t)
           /\ \A S \in SUBSET Nodes :
                t \in S /\ (\A x \in S \ {Root} : Parent[x] \in S) => Lineage(t) \subseteq S
<1>1. Root \in Lineage(t)
  BY TreeAssumption
<1>2. t \in Lineage(t) /\ Lineage(t) \in SUBSET Nodes
  BY DEF Lineage
<1>3. ASSUME NEW x \in Lineage(t) \ {Root} PROVE Parent[x] \in Lineage(t)
  <2>1. Parent[x] \in Nodes
    BY <1>2, RoutingAssumption
  <2>2. \A S \in WithParents : t \in S => Parent[x] \in S
    BY DEF Lineage, WithParents
  <2> QED
    BY <2>1, <2>2 DEF Lineage
<1>4. ASSUME NEW S \in SUBSET Nodes, t \in S, \A x \in S \ {Root} : Parent[x] \in S
      PROVE  Lineage(t) \subseteq S
  <2>1. S \in WithParents
    BY <1>4 DEF WithParents
  <2> QED
    BY <1>4, <2>1 DEF Lineage
<1> QED
  BY <1>1, <1>2, <1>3, <1>4

\* The lineage of an ancestor is part of the lineage.
LEMMA LineageOfAncestor ==
    ASSUME NEW t \in Nodes, NEW x \in Lineage(t)
    PROVE  Lineage(x) \subseteq Lineage(t)
<1>1. x \in Nodes /\ Lineage(t) \in SUBSET Nodes
  BY LineageLemma
<1> QED
  BY <1>1, LineageLemma

\* A context, and the lineage of its parent.
LEMMA LineageOfChild ==
    ASSUME NEW t \in Nodes \ {Root}
    PROVE  Lineage(t) = {t} \cup Lineage(Parent[t]) /\ Parent[t] \in Nodes
<1>1. Parent[t] \in Nodes /\ t \in Nodes
  BY RoutingAssumption
<1>2. {t} \cup Lineage(Parent[t]) \subseteq Lineage(t)
  BY <1>1, LineageLemma, LineageOfAncestor
<1>3. \A x \in ({t} \cup Lineage(Parent[t])) \ {Root} : Parent[x] \in {t} \cup Lineage(Parent[t])
  BY <1>1, LineageLemma
<1>4. {t} \cup Lineage(Parent[t]) \in SUBSET Nodes /\ t \in {t} \cup Lineage(Parent[t])
  BY <1>1, LineageLemma
<1>5. Lineage(t) \subseteq {t} \cup Lineage(Parent[t])
  BY <1>3, <1>4, LineageLemma
<1> QED
  BY <1>1, <1>2, <1>5

\* The master has no other ancestor.
LEMMA LineageOfRoot == Lineage(Root) = {Root}
<1>1. Root \in Nodes /\ {Root} \in SUBSET Nodes
  BY RoutingAssumption
<1>2. \A x \in {Root} \ {Root} : Parent[x] \in {Root}
  OBVIOUS
<1> QED
  BY <1>1, <1>2, LineageLemma

\* Nobody is an ancestor of its parent.
LEMMA NoCycle ==
    ASSUME NEW t \in Nodes \ {Root}
    PROVE  t \notin Lineage(Parent[t])
<1> SUFFICES ASSUME t \in Lineage(Parent[t]) PROVE FALSE
  OBVIOUS
<1> DEFINE C == {x \in Lineage(t) : t \in Lineage(x)}
<1>1. C \in SUBSET Nodes /\ t \in C
  BY LineageLemma
<1>2. ASSUME NEW x \in C \ {Root} PROVE Parent[x] \in C
  <2>1. x \in Nodes \ {Root} /\ Parent[x] \in Lineage(t)
    BY <1>1, LineageLemma
  <2>2. t \in Lineage(Parent[x])
    BY <2>1, LineageOfChild
  <2> QED
    BY <2>1, <2>2
<1>3. Root \in C
  <2> HIDE DEF C
  <2>1. Lineage(t) \subseteq C
    BY <1>1, <1>2, LineageLemma
  <2> QED
    BY <2>1, LineageLemma
<1> QED
  BY <1>3, LineageOfRoot

\* A child of n leads to t: then n does, t is not n nor above n, and the child is the only one.
LEMMA Below ==
    ASSUME NEW n \in Nodes, NEW s \in Nodes, IsParent(n, s), NEW t \in Nodes, s \in Lineage(t)
    PROVE  /\ n \in Lineage(t) /\ t # n /\ t \notin Lineage(n)
           /\ \A u \in Nodes : IsParent(n, u) /\ u \in Lineage(t) => u = s
<1>1. s \in Nodes \ {Root} /\ Parent[s] = n
  BY DEF IsParent
<1>2. n \in Lineage(t)
  BY <1>1, LineageLemma
<1>3. t \notin Lineage(n)
  <2>1. ASSUME t \in Lineage(n) PROVE FALSE
    <3>1. s \in Lineage(n)
      BY <2>1, LineageOfAncestor
    <3> QED
      BY <1>1, <3>1, NoCycle
  <2> QED
    BY <2>1
<1>4. t # n
  BY <1>3, LineageLemma
<1>5. ASSUME NEW u \in Nodes, IsParent(n, u), u \in Lineage(t) PROVE u = s
  <2> DEFINE C == {x \in Lineage(t) : u \in Lineage(x) \/ x \in Lineage(u)}
  <2>1. u \in Nodes \ {Root} /\ Parent[u] = n
    BY <1>5 DEF IsParent
  <2>2. C \in SUBSET Nodes /\ t \in C
    BY <1>5, LineageLemma
  <2>3. ASSUME NEW x \in C \ {Root} PROVE Parent[x] \in C
    <3>1. x \in Nodes \ {Root} /\ Parent[x] \in Lineage(t)
      BY <2>2, LineageLemma
    <3>2. CASE u \in Lineage(x)
      <4>1. u = x \/ u \in Lineage(Parent[x])
        BY <3>1, <3>2, LineageOfChild
      <4>2. Parent[u] \in Lineage(u)
        BY <2>1, LineageLemma
      <4> QED
        BY <3>1, <4>1, <4>2
    <3>3. CASE x \in Lineage(u)
      BY <2>1, <3>1, <3>3, LineageLemma
    <3> QED
      BY <2>3, <3>2, <3>3
  <2>4. s \in C
    <3> HIDE DEF C
    <3>1. Lineage(t) \subseteq C
      BY <2>2, <2>3, LineageLemma
    <3> QED
      BY <3>1
  <2>5. u \in Lineage(s) \/ s \in Lineage(u)
    BY <2>4
  <2>6. Lineage(s) = {s} \cup Lineage(n) /\ Lineage(u) = {u} \cup Lineage(n)
    BY <1>1, <2>1, LineageOfChild
  <2>7. u \notin Lineage(n) /\ s \notin Lineage(n)
    BY <1>1, <2>1, NoCycle
  <2> QED
    BY <2>5, <2>6, <2>7
<1> QED
  BY <1>2, <1>3, <1>4, <1>5

(***************************************************************************)
(* What handlers read and write.                                           *)
(***************************************************************************)

\* A link, each way, between a context and its parent.
LEMMA LinkLemma ==
    /\ \A a, b \in Nodes : b \in Neighbours(a) <=> <<a, b>> \in Links
    /\ \A e \in Links : /\ e = <<e[1], e[2]>> /\ e[1] \in Nodes /\ e[2] \in Nodes
                        /\ e[2] \in Neighbours(e[1])
    /\ \A a, b \in Nodes : b \in Neighbours(a) <=> IsParent(a, b) \/ IsParent(b, a)
    /\ \A a, b \in Nodes : b \in Neighbours(a) => a \in Neighbours(b)
    /\ \A a, b \in Nodes : ~(IsParent(a, b) /\ IsParent(b, a))
<1>1. ASSUME NEW a \in Nodes, NEW b \in Nodes, IsParent(a, b), IsParent(b, a) PROVE FALSE
  <2>1. a \in Nodes \ {Root} /\ b \in Nodes \ {Root} /\ Parent[a] = b /\ Parent[b] = a
    BY <1>1 DEF IsParent
  <2>2. a \in Lineage(Parent[a])
    BY <2>1, LineageLemma
  <2> QED
    BY <2>1, <2>2, NoCycle
<1> QED
  BY <1>1 DEF Links, Neighbours

Channels == [Links -> Seq(Message)]

\* What a handler of n writes reaches the neighbours that live.
LEMMA WriteLemma ==
    ASSUME NEW c \in Channels, NEW n \in Nodes, NEW out,
           \A s \in Nodes : out[s] \in Seq(Message)
    PROVE  /\ Write(c, n, out) \in Channels
           /\ \A a, b \in Nodes : b \in Neighbours(a) =>
                \A x \in On(Write(c, n, out)[<<a, b>>]) :
                    \/ x \in On(c[<<a, b>>])
                    \/ a = n /\ b \in alive /\ x \in On(out[b])
<1>1. PICK w : w = Write(c, n, out)
  OBVIOUS
<1>2. w = [e \in Links |-> IF e[1] = n /\ e[2] \in alive THEN c[e] \o out[e[2]] ELSE c[e]]
  BY <1>1 DEF Write
<1>3. ASSUME NEW e \in Links
      PROVE  /\ w[e] \in Seq(Message)
             /\ \A x \in On(w[e]) : \/ x \in On(c[e])
                                    \/ e[1] = n /\ e[2] \in alive /\ x \in On(out[e[2]])
  <2>1. c[e] \in Seq(Message) /\ out[e[2]] \in Seq(Message)
    BY LinkLemma DEF Channels
  <2>2. c[e] \o out[e[2]] \in Seq(Message) /\ On(c[e] \o out[e[2]]) = On(c[e]) \cup On(out[e[2]])
    BY <2>1, OnConcat
  <2>3. CASE e[1] = n /\ e[2] \in alive
    BY <1>2, <2>2, <2>3
  <2>4. CASE ~(e[1] = n /\ e[2] \in alive)
    BY <1>2, <2>1, <2>4
  <2> QED
    BY <2>3, <2>4
<1>4. w \in Channels
  BY <1>2, <1>3 DEF Channels
<1>5. ASSUME NEW a \in Nodes, NEW b \in Nodes, b \in Neighbours(a), NEW x \in On(w[<<a, b>>])
      PROVE  x \in On(c[<<a, b>>]) \/ (a = n /\ b \in alive /\ x \in On(out[b]))
  <2>1. PICK e \in Links : e = <<a, b>> /\ e[1] = a /\ e[2] = b
    BY <1>5, LinkLemma
  <2> QED
    BY <1>3, <1>5, <2>1
<1> QED
  BY <1>1, <1>4, <1>5

\* One message, to those of a set that are streams.
LEMMA ToLemma ==
    ASSUME NEW S, NEW msg \in Message
    PROVE  \A s \in Nodes : /\ To(S, msg)[s] \in Seq(Message)
                            /\ \A x \in On(To(S, msg)[s]) : x = msg /\ s \in S
<1> TAKE s \in Nodes
<1>1. <<msg>> \in Seq(Message) /\ On(<<msg>>) = {msg}
  BY OnOne
<1>2. <<>> \in Seq(Message) /\ On(<<>>) = {}
  BY OnEmpty
<1>3. CASE s \in S \ {None}
  BY <1>1, <1>3 DEF To
<1>4. CASE s \notin S \ {None}
  BY <1>2, <1>4 DEF To
<1> QED
  BY <1>3, <1>4

\* Nothing written.
LEMMA NothingLemma ==
    \A s \in Nodes : Nothing[s] \in Seq(Message) /\ On(Nothing[s]) = {}
<1>1. <<>> \in Seq(Message) /\ On(<<>>) = {}
  BY OnEmpty
<1> QED
  BY <1>1 DEF Nothing

\* _propagate_down() and _propagate_up(): DEL_ROUTE to the parent's stream, and
\* to the others that sent something to t.
LEMMA WithdrawalLemma ==
    ASSUME TypeOK, NEW n \in Nodes, NEW tab, NEW t \in Nodes, NEW up
    PROVE  \A s \in Nodes :
             /\ Withdrawal(n, tab, t, up)[s] \in Seq(Message)
             /\ \A x \in On(Withdrawal(n, tab, t, up)[s]) :
                  x = Routing("DEL_ROUTE", t, n) /\ (s = up \/ s # ParentStream(n))
<1> TAKE s \in Nodes
<1>1. PICK k \in Nat : k = Copies(n, tab, t, s) + IF s = up THEN 1 ELSE 0
  <2>1. Copies(n, tab, t, s) \in Nat
    <3>1. {x \in Nodes : tab[n][x] = s} \in SUBSET Nodes /\ IsFiniteSet(Nodes)
      BY RoutingAssumption
    <3>2. Cardinality({x \in Nodes : tab[n][x] = s}) \in Nat
      BY <3>1, FS_Subset, FS_CardinalityType
    <3> QED
      BY <3>2 DEF Copies
  <2> QED
    BY <2>1
<1>2. s # up /\ s = ParentStream(n) => k = 0
  BY <1>1 DEF Copies
<1>3. PICK msg \in Message : msg = Routing("DEL_ROUTE", t, n)
  BY DEF Message, Routing
<1>4. PICK q : q = [i \in 1..k |-> msg]
  OBVIOUS
<1>5. Withdrawal(n, tab, t, up)[s] = q
  BY <1>1, <1>3, <1>4 DEF Withdrawal
<1>6. q \in Seq(Message) /\ Len(q) = k /\ \A i \in 1..k : q[i] = msg
  BY <1>4
<1>7. \A x \in On(q) : x = msg /\ k # 0
  BY <1>6 DEF On
<1> QED
  BY <1>2, <1>3, <1>5, <1>6, <1>7

\* One message less.
LEMMA ReadLemma ==
    ASSUME TypeOK, NEW n \in Nodes, NEW m \in Nodes, m \in Neighbours(n), chan[<<m, n>>] # <<>>
    PROVE  /\ Read(n, m) \in Channels
           /\ Head(chan[<<m, n>>]) \in Message
           /\ Head(chan[<<m, n>>]) \in On(chan[<<m, n>>])
           /\ \A a, b \in Nodes : b \in Neighbours(a) => On(Read(n, m)[<<a, b>>]) \subseteq On(chan[<<a, b>>])
<1>1. PICK e \in Links : e = <<m, n>>
  BY LinkLemma
<1>2. chan[e] \in Seq(Message) /\ chan \in Channels
  BY DEF TypeOK, Channels
<1>3. Tail(chan[e]) \in Seq(Message) /\ Head(chan[e]) \in Message /\ On(chan[e]) = {Head(chan[e])} \cup On(Tail(chan[e]))
  BY <1>1, <1>2, OnTail
<1>4. Read(n, m) = [chan EXCEPT ![e] = Tail(chan[e])]
  BY <1>1 DEF Read
<1>5. \A f \in Links : On(Read(n, m)[f]) \subseteq On(chan[f])
  BY <1>2, <1>3, <1>4 DEF Channels
<1>6. Read(n, m) \in Channels
  BY <1>2, <1>3, <1>4 DEF Channels
<1>7. \A a, b \in Nodes : b \in Neighbours(a) => <<a, b>> \in Links
  BY LinkLemma
<1> QED
  BY <1>1, <1>3, <1>5, <1>6, <1>7

\* What a process wrote is lost from some point on.
LEMMA GoneLemma ==
    ASSUME TypeOK, NEW n \in Nodes, Gone(n)
    PROVE  /\ chan' \in Channels
           /\ \A a, b \in Nodes : b \in Neighbours(a) => On(chan'[<<a, b>>]) \subseteq On(chan[<<a, b>>])
           /\ life' = [life EXCEPT ![n] = "dead"]
           /\ UNCHANGED <<table, learned, egress, status, serving, announced>>
<1> DEFINE M == Max({Len(chan[<<n, x>>]) : x \in Neighbours(n)})
<1>1. PICK kept \in [Neighbours(n) -> 0..M] :
        /\ \A x \in Neighbours(n) : kept[x] <= Len(chan[<<n, x>>])
        /\ chan' = [e \in Links |-> CASE e[2] = n -> <<>>
                                      [] e[1] = n -> SubSeq(chan[e], 1, kept[e[2]])
                                      [] OTHER -> chan[e]]
  BY DEF Gone
<1>2. \A x \in Neighbours(n) : kept[x] \in Nat
  <2> HIDE DEF M
  <2>1. \A k \in 0..M : k \in Nat
    OBVIOUS
  <2> QED
    BY <2>1
<1>3. \A e \in Links : chan[e] \in Seq(Message) /\ chan[e] = chan[<<e[1], e[2]>>]
  BY LinkLemma DEF TypeOK
<1>4. ASSUME NEW e \in Links
      PROVE  chan'[e] \in Seq(Message) /\ On(chan'[e]) \subseteq On(chan[e])
  <2>1. CASE e[2] = n
    <3>0. e[1] # n
      BY <2>1, LinkLemma
    <3>1. chan'[e] = <<>> /\ <<>> \in Seq(Message)
      BY <1>1, <2>1, <3>0
    <3> QED
      BY <3>1, OnEmpty
  <2>2. CASE e[2] # n /\ e[1] = n
    <3>1. PICK k \in Nat : k = kept[e[2]] /\ k <= Len(chan[e])
      BY <1>1, <1>2, <1>3, <2>2, LinkLemma
    <3>2. chan'[e] = SubSeq(chan[e], 1, k)
      BY <1>1, <2>2, <3>1
    <3> QED
      BY <1>3, <3>1, <3>2, OnPrefix
  <2>3. CASE e[2] # n /\ e[1] # n
    BY <1>1, <1>3, <2>3
  <2> QED
    BY <2>1, <2>2, <2>3
<1>5. chan' \in Channels
  BY <1>1, <1>4 DEF Channels
<1> QED
  BY <1>4, <1>5, LinkLemma DEF Gone

\* DEL_ROUTE is written to the stream up.
LEMMA WithdrawalUp ==
    ASSUME TypeOK, NEW n \in Nodes, NEW tab, NEW t \in Nodes, NEW up \in Nodes
    PROVE  Routing("DEL_ROUTE", t, n) \in On(Withdrawal(n, tab, t, up)[up])
<1>1. PICK k \in Nat : k = Copies(n, tab, t, up)
  <2>1. {x \in Nodes : tab[n][x] = up} \in SUBSET Nodes /\ IsFiniteSet(Nodes)
    BY RoutingAssumption
  <2>2. Cardinality({x \in Nodes : tab[n][x] = up}) \in Nat
    BY <2>1, FS_Subset, FS_CardinalityType
  <2> QED
    BY <2>2 DEF Copies
<1>2. PICK msg : msg = Routing("DEL_ROUTE", t, n)
  OBVIOUS
<1>3. Withdrawal(n, tab, t, up)[up] = [i \in 1..(k + 1) |-> msg]
  BY <1>1, <1>2 DEF Withdrawal
<1>4. PICK q : q = [i \in 1..(k + 1) |-> msg]
  OBVIOUS
<1>5. Len(q) = k + 1 /\ 1 \in 1..(k + 1) /\ q[1] = msg
  BY <1>4
<1> QED
  BY <1>2, <1>3, <1>4, <1>5 DEF On

\* Each route that is lost with the stream of n is reported, to p's parent for one.
Reports(p, n, out) ==
    /\ chan' = Write(chan, p, out)
    /\ \A s \in Nodes : /\ out[s] \in Seq(Message)
                        /\ \A x \in On(out[s]) : \E t \in learned[p][n] : x = Routing("DEL_ROUTE", t, p)
    /\ \A t \in learned[p][n] : ParentStream(p) \in Nodes =>
          Routing("DEL_ROUTE", t, p) \in On(out[ParentStream(p)])

\* What a child's disconnection writes is that.
LEMMA ChildReports ==
    ASSUME TypeOK, NEW p \in Nodes, NEW n \in Nodes, ChildDisconnects(p, n)
    PROVE  \E out : Reports(p, n, out)
<1> DEFINE lost == learned[p][n]
           tab == [table EXCEPT ![p] = [t \in Nodes |->
                    IF table[p][t] = n \/ t \in lost THEN None ELSE table[p][t]]]
           reports == [i \in 1..Cardinality(lost) |->
                        Withdrawal(p, tab, SetToSeq(lost)[i], ParentStream(p))]
           out == [s \in Nodes |-> FlattenSeq([i \in DOMAIN reports |-> reports[i][s]])]
<1>1. lost \in SUBSET Nodes
  BY DEF TypeOK
<1>2. IsFiniteSet(lost)
  BY <1>1, RoutingAssumption, FS_Subset
<1>3. /\ SetToSeq(lost) \in [1..Cardinality(lost) -> lost] /\ Cardinality(lost) \in Nat
      /\ \A x \in lost : \E i \in 1..Cardinality(lost) : SetToSeq(lost)[i] = x
  BY <1>2, OnListed
<1>4. ASSUME NEW s \in Nodes
      PROVE  /\ out[s] \in Seq(Message)
             /\ \A x \in On(out[s]) : \E t \in lost : x = Routing("DEL_ROUTE", t, p)
             /\ \A t \in lost : s = ParentStream(p) => Routing("DEL_ROUTE", t, p) \in On(out[s])
  <2>1. PICK k \in Nat : k = Cardinality(lost)
    BY <1>3
  <2>2. PICK ss : ss = [i \in 1..k |-> Withdrawal(p, tab, SetToSeq(lost)[i], ParentStream(p))[s]]
    OBVIOUS
  <2>3. out[s] = FlattenSeq(ss)
    BY <2>1, <2>2
  <2>4. ASSUME NEW i \in 1..k, NEW t \in lost, t = SetToSeq(lost)[i]
        PROVE  /\ ss[i] \in Seq(Message)
               /\ \A x \in On(ss[i]) : x = Routing("DEL_ROUTE", t, p)
               /\ s = ParentStream(p) => Routing("DEL_ROUTE", t, p) \in On(ss[i])
    <3>1. ss[i] = Withdrawal(p, tab, t, ParentStream(p))[s]
      BY <2>2, <2>4
    <3> HIDE DEF lost, tab
    <3>2. t \in Nodes
      BY <1>1
    <3>3. PICK up, tb : up = ParentStream(p) /\ tb = tab
      OBVIOUS
    <3>4. /\ Withdrawal(p, tab, t, up)[s] \in Seq(Message)
          /\ \A x \in On(Withdrawal(p, tab, t, up)[s]) : x = Routing("DEL_ROUTE", t, p)
      <4>1. \A u \in Nodes :
             /\ Withdrawal(p, tb, t, up)[u] \in Seq(Message)
             /\ \A x \in On(Withdrawal(p, tb, t, up)[u]) :
                  x = Routing("DEL_ROUTE", t, p) /\ (u = up \/ u # ParentStream(p))
        BY <3>2, WithdrawalLemma
      <4> QED
        BY <3>3, <4>1
    <3>5. s = up => Routing("DEL_ROUTE", t, p) \in On(Withdrawal(p, tb, t, up)[s])
      BY <3>2, WithdrawalUp
    <3> QED
      BY <3>1, <3>3, <3>4, <3>5
  <2> HIDE DEF lost, tab, reports, out
  <2>5. \A i \in 1..k : SetToSeq(lost)[i] \in lost
    BY <1>3, <2>1
  <2>6. ss \in [1..k -> Seq(Message)]
    BY <2>2, <2>4, <2>5
  <2>7. /\ FlattenSeq(ss) \in Seq(Message)
        /\ \A x \in On(FlattenSeq(ss)) : \E i \in 1..k : x \in On(ss[i])
        /\ \A i \in 1..k : On(ss[i]) \subseteq On(FlattenSeq(ss))
    BY <2>6, OnFlat
  <2>8. \A x \in On(out[s]) : \E t \in lost : x = Routing("DEL_ROUTE", t, p)
    BY <2>3, <2>4, <2>5, <2>7
  <2>9. ASSUME NEW t \in lost, s = ParentStream(p) PROVE Routing("DEL_ROUTE", t, p) \in On(out[s])
    <3>1. PICK i \in 1..k : SetToSeq(lost)[i] = t
      BY <1>3, <2>1
    <3> QED
      BY <2>3, <2>4, <2>7, <2>9, <3>1
  <2> QED
    BY <2>3, <2>7, <2>8, <2>9
<1>5. chan' = Write(chan, p, out)
  BY DEF ChildDisconnects
<1>6. PICK o : o = out
  OBVIOUS
<1>7. Reports(p, n, o)
  <2> HIDE DEF out
  <2> QED
    BY <1>4, <1>5, <1>6 DEF Reports
<1> QED
  BY <1>7

\* Of the routes that are lost each is reported.
LEMMA ChildDisconnectsLemma ==
    ASSUME TypeOK, NEW p \in Nodes, NEW n \in Nodes, ChildDisconnects(p, n)
    PROVE  /\ IsParent(p, n) /\ p \in alive /\ n \notin alive /\ table[p][n] = n
           /\ learned[p][n] \in SUBSET Nodes
           /\ table' = [table EXCEPT ![p] = [t \in Nodes |->
                          IF table[p][t] = n \/ t \in learned[p][n] THEN None ELSE table[p][t]]]
           /\ learned' = [learned EXCEPT ![p][n] = {}]
           /\ status' = Fired(p, learned[p][n])
           /\ chan' \in Channels
           /\ \A a, b \in Nodes : b \in Neighbours(a) =>
                \A x \in On(chan'[<<a, b>>]) :
                    \/ x \in On(chan[<<a, b>>])
                    \/ /\ a = p /\ b \in alive
                       /\ \E t \in learned[p][n] : x = Routing("DEL_ROUTE", t, p)
           /\ UNCHANGED <<life, egress, serving, announced, deaths>>
<1>1. PICK out : Reports(p, n, out)
  BY ChildReports
<1>2. chan' = Write(chan, p, out) /\ \A s \in Nodes : out[s] \in Seq(Message)
  BY <1>1 DEF Reports
<1>3. \A s \in Nodes : \A x \in On(out[s]) : \E t \in learned[p][n] : x = Routing("DEL_ROUTE", t, p)
  BY <1>1 DEF Reports
<1>4. chan \in Channels
  BY DEF TypeOK, Channels
<1>5. chan' \in Channels
  BY <1>2, <1>4, WriteLemma
<1>6. ASSUME NEW a \in Nodes, NEW b \in Nodes, b \in Neighbours(a), NEW x \in On(chan'[<<a, b>>])
      PROVE  \/ x \in On(chan[<<a, b>>])
             \/ /\ a = p /\ b \in alive
                /\ \E t \in learned[p][n] : x = Routing("DEL_ROUTE", t, p)
  <2>1. x \in On(chan[<<a, b>>]) \/ (a = p /\ b \in alive /\ x \in On(out[b]))
    BY <1>2, <1>4, <1>6, WriteLemma
  <2> QED
    BY <1>3, <2>1
<1>7. IsParent(p, n) /\ p \in alive /\ n \notin alive /\ table[p][n] = n
  BY DEF ChildDisconnects, EndOfFile
<1>8. /\ table' = [table EXCEPT ![p] = [t \in Nodes |->
                     IF table[p][t] = n \/ t \in learned[p][n] THEN None ELSE table[p][t]]]
      /\ learned' = [learned EXCEPT ![p][n] = {}]
      /\ status' = Fired(p, learned[p][n])
      /\ UNCHANGED <<life, egress, serving, announced, deaths>>
  BY DEF ChildDisconnects
<1>9. learned[p][n] \in SUBSET Nodes
  BY DEF TypeOK
<1> QED
  BY <1>5, <1>6, <1>7, <1>8, <1>9

(***************************************************************************)
(* Types.                                                                  *)
(***************************************************************************)
Tables ==
    /\ table \in [Nodes -> [Nodes -> Nodes \cup {None}]]
    /\ \A n, t \in Nodes : table[n][t] \in Neighbours(n) \cup {None}

\* One entry of a table is set.
LEMMA TableSet ==
    ASSUME Tables, NEW n \in Nodes, NEW t \in Nodes, NEW v \in Neighbours(n) \cup {None},
           table' = [table EXCEPT ![n][t] = v]
    PROVE  /\ Tables'
           /\ \A a, b \in Nodes : table'[a][b] = IF a = n /\ b = t THEN v ELSE table[a][b]
<1>1. v \in Nodes \cup {None}
  BY DEF Neighbours
<1>2. \A a, b \in Nodes : table'[a][b] = IF a = n /\ b = t THEN v ELSE table[a][b]
  BY DEF Tables
<1>3. table' \in [Nodes -> [Nodes -> Nodes \cup {None}]]
  BY <1>1 DEF Tables
<1> QED
  BY <1>2, <1>3 DEF Tables

\* Router.register() on both ends.
LEMMA TableConnect ==
    ASSUME Tables, NEW p \in Nodes, NEW n \in Nodes, IsParent(p, n), table' = Registered(p, n)
    PROVE  /\ Tables'
           /\ \A a, b \in Nodes : table'[a][b] = IF a = p /\ b = n THEN n
                                                ELSE IF a = n /\ b = p THEN p ELSE table[a][b]
<1>1. p # n
  BY LinkLemma
<1>2. table' = [table EXCEPT ![p][n] = n, ![n][p] = p]
  BY DEF Registered
<1>3. \A a, b \in Nodes : table'[a][b] = IF a = p /\ b = n THEN n
                                        ELSE IF a = n /\ b = p THEN p ELSE table[a][b]
  BY <1>1, <1>2 DEF Tables
<1>4. table' \in [Nodes -> [Nodes -> Nodes \cup {None}]]
  <2>1. PICK one : one = [table EXCEPT ![p][n] = n]
    OBVIOUS
  <2>2. one \in [Nodes -> [Nodes -> Nodes \cup {None}]]
    BY <2>1 DEF Tables
  <2>3. table' = [one EXCEPT ![n][p] = p]
    BY <1>2, <2>1
  <2> QED
    BY <2>2, <2>3
<1>5. n \in Neighbours(p) /\ p \in Neighbours(n)
  BY LinkLemma
<1> QED
  BY <1>3, <1>4, <1>5 DEF Tables

\* A stream is a neighbour's.
LEMMA StreamLemma ==
    ASSUME Tables, NEW n \in Nodes
    PROVE  /\ ParentStream(n) \in Neighbours(n) \cup {None}
           /\ \A t \in Nodes : StreamById(n, t) \in Neighbours(n) \cup {None}
<1>1. ParentStream(n) \in Neighbours(n) \cup {None}
  BY RoutingAssumption DEF ParentStream, Tables
<1> QED
  BY <1>1 DEF StreamById, Tables

\* The kinds of message.
LEMMA KindLemma ==
    ASSUME NEW x \in Message
    PROVE  /\ x.kind \in {"ADD_ROUTE", "DEL_ROUTE"} => x.id \in Nodes /\ x.src \in Nodes
           /\ x.kind \in {"request", "reply", "dead"} =>
                x.req \in Requests /\ x.src \in Nodes /\ x.dst \in Nodes
           /\ x.kind \in {"ADD_ROUTE", "DEL_ROUTE", "request", "reply", "dead"}
BY DEF Message

\* Forwarding writes the message, or a dead message to its sender.
LEMMA ForwardLemma ==
    ASSUME NEW n \in Nodes, NEW m, NEW msg \in Message, msg.kind \in {"request", "reply", "dead"}
    PROVE  \A s \in Nodes :
             /\ Forward(n, msg, m)[s] \in Seq(Message)
             /\ \A x \in On(Forward(n, msg, m)[s]) :
                  \/ x = msg /\ s = OutStream(n, msg, m)
                  \/ /\ OutStream(n, msg, m) = None /\ msg.kind = "request"
                     /\ x = Msg("dead", msg.req, n, msg.src)
<1>1. PICK dead \in Message : dead = Msg("dead", msg.req, n, msg.src)
  BY KindLemma DEF Msg, Message
<1>2. CASE OutStream(n, msg, m) # None
  <2>1. Forward(n, msg, m) = To({OutStream(n, msg, m)}, msg)
    BY <1>2 DEF Forward
  <2> QED
    BY <2>1, ToLemma
<1>3. CASE OutStream(n, msg, m) = None /\ msg.kind = "request"
  <2>1. Forward(n, msg, m) = To({OutStream(n, dead, None)}, dead)
    BY <1>1, <1>3 DEF Forward
  <2>2. PICK S : S = {OutStream(n, dead, None)}
    OBVIOUS
  <2>3. \A s \in Nodes : /\ To(S, dead)[s] \in Seq(Message)
                         /\ \A x \in On(To(S, dead)[s]) : x = dead
    BY ToLemma
  <2> QED
    BY <1>1, <1>3, <2>1, <2>2, <2>3
<1>4. CASE OutStream(n, msg, m) = None /\ msg.kind # "request"
  <2>1. Forward(n, msg, m) = Nothing
    BY <1>4 DEF Forward
  <2> QED
    BY <2>1, NothingLemma
<1> QED
  BY <1>2, <1>3, <1>4

\* Every step keeps the types.
LEMMA TypesStep == ASSUME TypeOK, [Next]_vars PROVE TypeOK'
<1>0. Tables /\ chan \in Channels
  BY DEF TypeOK, Tables, Channels
<1>1. ASSUME NEW p \in Nodes, NEW n \in Nodes, Connect(p, n) PROVE TypeOK'
  <2>1. IsParent(p, n) /\ table' = Registered(p, n)
    BY <1>1 DEF Connect, IsParent
  <2>2. Tables'
    BY <1>0, <2>1, TableConnect
  <2>3. Routing("ADD_ROUTE", n, p) \in Message
    BY DEF Routing, Message
  <2>4. PICK out : out = Announcement(p, n)
    OBVIOUS
  <2>5. \A s \in Nodes : out[s] \in Seq(Message)
    BY <2>3, <2>4, ToLemma DEF Announcement
  <2>6. chan' \in Channels
    BY <1>0, <1>1, <2>4, <2>5, WriteLemma DEF Connect
  <2>7. /\ life' \in [Nodes -> {"unborn", "alive", "dead"}]
        /\ learned' \in [Nodes -> [Nodes -> SUBSET Nodes]]
        /\ announced' \subseteq Nodes
        /\ UNCHANGED <<egress, status, serving, deaths>>
    BY <1>1 DEF Connect, TypeOK
  <2> QED
    BY <2>2, <2>6, <2>7 DEF TypeOK, Tables, Channels
<1>2. ASSUME NEW n \in Nodes, Gone(n), deaths' \in 0..MaxDeaths PROVE TypeOK'
  <2>1. /\ chan' \in Channels /\ life' = [life EXCEPT ![n] = "dead"]
        /\ UNCHANGED <<table, learned, egress, status, serving, announced>>
    BY <1>2, GoneLemma
  <2> QED
    BY <1>2, <2>1 DEF TypeOK, Channels
<1>3. ASSUME NEW n \in Nodes, Die(n) PROVE TypeOK'
  <2>1. deaths' \in 0..MaxDeaths
    BY <1>3, RoutingAssumption DEF Die, TypeOK
  <2> QED
    BY <1>2, <1>3, <2>1 DEF Die
<1>4. ASSUME NEW n \in Nodes, NEW m \in Nodes, OrphanDies(n, m) PROVE TypeOK'
  BY <1>2, <1>4 DEF OrphanDies, TypeOK
<1>5. ASSUME NEW n \in Nodes, NEW m \in Nodes, ChildDisconnects(n, m) PROVE TypeOK'
  <2>1. /\ learned[n][m] \in SUBSET Nodes
        /\ table' = [table EXCEPT ![n] = [t \in Nodes |->
                          IF table[n][t] = m \/ t \in learned[n][m] THEN None ELSE table[n][t]]]
        /\ learned' = [learned EXCEPT ![n][m] = {}]
        /\ status' = Fired(n, learned[n][m])
        /\ chan' \in Channels
        /\ UNCHANGED <<life, egress, serving, announced, deaths>>
    BY <1>5, ChildDisconnectsLemma
  <2>2. Tables'
    BY <2>1, <1>0 DEF Tables
  <2>3. status' \in [Requests -> {"new", "sent", "reply", "dead"}]
    BY <2>1 DEF Fired, TypeOK
  <2>4. learned' \in [Nodes -> [Nodes -> SUBSET Nodes]]
    BY <2>1 DEF TypeOK
  <2> QED
    BY <2>1, <2>2, <2>3, <2>4 DEF TypeOK, Tables, Channels
<1>6. ASSUME NEW n \in Nodes, NEW m \in Nodes, OnAddRoute(n, m) PROVE TypeOK'
  <2>1. m \in Neighbours(n) /\ chan[<<m, n>>] # <<>> /\ Head(chan[<<m, n>>]).kind = "ADD_ROUTE"
    BY <1>6 DEF OnAddRoute, Incoming
  <2>2. PICK x \in Message : x = Head(chan[<<m, n>>]) /\ Read(n, m) \in Channels
    BY <2>1, ReadLemma
  <2>3. PICK t \in Nodes : t = x.id
    BY <2>1, <2>2, KindLemma
  <2>4. UNCHANGED <<life, egress, status, serving, deaths>>
    BY <1>6 DEF OnAddRoute
  <2>5. CASE chan' = Read(n, m) /\ UNCHANGED <<table, learned, announced>>
    BY <2>2, <2>4, <2>5 DEF TypeOK, Channels
  <2>6. CASE /\ learned' = [learned EXCEPT ![n][m] = @ \cup {t}]
             /\ table' = [table EXCEPT ![n][t] = m]
             /\ announced' = IF n = Root THEN announced \cup {t} ELSE announced
             /\ chan' = Write(Read(n, m), n, To({ParentStream(n)}, Routing("ADD_ROUTE", t, n)))
    <3>1. Tables'
      BY <1>0, <2>1, <2>6, TableSet
    <3>2. Routing("ADD_ROUTE", t, n) \in Message
      BY DEF Routing, Message
    <3>3. PICK out : out = To({ParentStream(n)}, Routing("ADD_ROUTE", t, n))
      OBVIOUS
    <3>4. \A s \in Nodes : out[s] \in Seq(Message)
      BY <3>2, <3>3, ToLemma
    <3>5. chan' \in Channels
      <4>1. chan' = Write(Read(n, m), n, out)
        BY <2>6, <3>3
      <4> QED
        BY <2>2, <3>4, <4>1, WriteLemma
    <3>6. learned' \in [Nodes -> [Nodes -> SUBSET Nodes]] /\ announced' \subseteq Nodes
      BY <2>6 DEF TypeOK
    <3> QED
      BY <2>4, <3>1, <3>5, <3>6 DEF TypeOK, Tables, Channels
  <2> QED
    BY <1>6, <2>2, <2>3, <2>5, <2>6 DEF OnAddRoute
<1>7. ASSUME NEW n \in Nodes, NEW m \in Nodes, OnDelRoute(n, m) PROVE TypeOK'
  <2>1. m \in Neighbours(n) /\ chan[<<m, n>>] # <<>> /\ Head(chan[<<m, n>>]).kind = "DEL_ROUTE"
    BY <1>7 DEF OnDelRoute, Incoming
  <2>2. PICK x \in Message : x = Head(chan[<<m, n>>]) /\ Read(n, m) \in Channels
    BY <2>1, ReadLemma
  <2>3. PICK t \in Nodes : t = x.id
    BY <2>1, <2>2, KindLemma
  <2>4. UNCHANGED <<life, egress, serving, announced, deaths>>
    BY <1>7 DEF OnDelRoute
  <2>5. CASE chan' = Read(n, m) /\ UNCHANGED <<table, learned, status>>
    BY <2>2, <2>4, <2>5 DEF TypeOK, Channels
  <2>6. CASE \E up, tab : /\ status' = Fired(n, {t})
                          /\ learned' = [learned EXCEPT ![n][m] = @ \ {t}]
                          /\ table' = [table EXCEPT ![n][t] = None]
                          /\ chan' = Write(Read(n, m), n, Withdrawal(n, tab, t, up))
    <3>1. PICK up, tab, out : /\ out = Withdrawal(n, tab, t, up)
                              /\ chan' = Write(Read(n, m), n, out)
      BY <2>6
    <3>2. \A s \in Nodes : out[s] \in Seq(Message)
      BY <3>1, WithdrawalLemma
    <3>3. chan' \in Channels
      BY <2>2, <3>1, <3>2, WriteLemma
    <3>4. Tables'
      BY <1>0, <2>6, TableSet
    <3>5. /\ learned' \in [Nodes -> [Nodes -> SUBSET Nodes]]
          /\ status' \in [Requests -> {"new", "sent", "reply", "dead"}]
      BY <2>6 DEF TypeOK, Fired
    <3> QED
      BY <2>4, <3>3, <3>4, <3>5 DEF TypeOK, Tables, Channels
  <2> QED
    BY <1>7, <2>2, <2>3, <2>5, <2>6 DEF OnDelRoute
<1>8. ASSUME NEW n \in Nodes, NEW m \in Nodes, OnMessage(n, m) PROVE TypeOK'
  <2>1. m \in Neighbours(n) /\ chan[<<m, n>>] # <<>> /\ Head(chan[<<m, n>>]).kind \in {"request", "reply", "dead"}
    BY <1>8 DEF OnMessage, Incoming
  <2>2. PICK x \in Message : x = Head(chan[<<m, n>>]) /\ Read(n, m) \in Channels
    BY <2>1, ReadLemma
  <2>3. x.req \in Requests /\ x.src \in Nodes /\ x.dst \in Nodes
    BY <2>1, <2>2, KindLemma
  <2>4. UNCHANGED <<life, table, learned, announced, deaths>>
    BY <1>8 DEF OnMessage
  <2>5. chan' \in {Read(n, m), Write(Read(n, m), n, Forward(n, x, m))}
    BY <1>8, <2>2 DEF OnMessage
  <2>6. PICK out : out = Forward(n, x, m)
    OBVIOUS
  <2>7. \A s \in Nodes : out[s] \in Seq(Message)
    BY <2>1, <2>2, <2>6, ForwardLemma
  <2>8. chan' \in Channels
    BY <2>2, <2>5, <2>6, <2>7, WriteLemma
  <2>9. egress' \in [Nodes -> [Nodes -> SUBSET Nodes]]
    <3>1. egress' = egress \/ egress' = [egress EXCEPT ![n][m] = @ \cup {x.dst}]
      BY <1>8, <2>2 DEF OnMessage
    <3>2. PICK d \in Nodes : d = x.dst
      BY <2>3
    <3>3. CASE egress' = egress
      BY <3>3 DEF TypeOK
    <3>4. CASE egress' = [egress EXCEPT ![n][m] = @ \cup {d}]
      BY <3>4 DEF TypeOK
    <3> QED
      BY <3>1, <3>2, <3>3, <3>4
  <2>10. serving' \subseteq Requests
    <3>1. serving' = serving \/ serving' = serving \cup {x.req}
      BY <1>8, <2>2 DEF OnMessage
    <3> QED
      BY <2>3, <3>1 DEF TypeOK
  <2>11. status' \in [Requests -> {"new", "sent", "reply", "dead"}]
    BY <1>8, <2>1, <2>2, <2>3 DEF OnMessage, TypeOK, Answered
  <2> QED
    BY <2>4, <2>8, <2>9, <2>10, <2>11 DEF TypeOK, Channels
<1>9. ASSUME NEW r \in Requests, Send(r) PROVE TypeOK'
  <2>1. Src[r] \in Nodes /\ Dst[r] \in Nodes
    BY RoutingAssumption
  <2>2. PICK msg \in Message : msg = Msg("request", r, Src[r], Dst[r])
    BY <2>1 DEF Msg, Message
  <2>3. PICK out : out = To({OutStream(Src[r], msg, None)}, msg)
    OBVIOUS
  <2>4. \A s \in Nodes : out[s] \in Seq(Message)
    BY <2>3, ToLemma
  <2>5. chan' = Write(chan, Src[r], out)
    BY <1>9, <2>2, <2>3 DEF Send
  <2>6. chan' \in Channels
    BY <1>0, <2>1, <2>4, <2>5, WriteLemma
  <2>7. /\ status' \in [Requests -> {"new", "sent", "reply", "dead"}]
        /\ UNCHANGED <<life, table, learned, egress, serving, announced, deaths>>
    BY <1>9 DEF Send, TypeOK
  <2> QED
    BY <2>6, <2>7 DEF TypeOK, Channels
<1>10. ASSUME NEW r \in Requests, Reply(r) PROVE TypeOK'
  <2>1. Src[r] \in Nodes /\ Dst[r] \in Nodes
    BY RoutingAssumption
  <2>2. PICK msg \in Message : msg = Msg("reply", r, Dst[r], Src[r]) /\ msg.kind = "reply"
    <3>1. Msg("reply", r, Dst[r], Src[r]) \in Message
      BY <2>1 DEF Msg, Message
    <3>2. Msg("reply", r, Dst[r], Src[r]).kind = "reply"
      BY DEF Msg
    <3> QED
      BY <3>1, <3>2
  <2>3. PICK out : out = Forward(Dst[r], msg, None)
    OBVIOUS
  <2>4. \A s \in Nodes : out[s] \in Seq(Message)
    BY <2>1, <2>2, <2>3, ForwardLemma
  <2>5. chan' = Write(chan, Dst[r], out)
    BY <1>10, <2>2, <2>3 DEF Reply
  <2>6. chan' \in Channels
    BY <1>0, <2>1, <2>4, <2>5, WriteLemma
  <2>7. /\ serving' \subseteq Requests
        /\ UNCHANGED <<life, table, learned, egress, status, announced, deaths>>
    BY <1>10 DEF Reply, TypeOK
  <2> QED
    BY <2>6, <2>7 DEF TypeOK, Channels
<1>11. CASE UNCHANGED vars
  BY <1>11 DEF vars, TypeOK
<1> QED
  BY <1>1, <1>3, <1>4, <1>5, <1>6, <1>7, <1>8, <1>9, <1>10, <1>11 DEF Next

\* The initial types.
LEMMA TypesInit == Init => TypeOK
<1>1. /\ \A S : <<>> \in Seq(S)
      /\ \A n \in Nodes : None \in Neighbours(n) \cup {None}
  OBVIOUS
<1> QED
  BY <1>1, RoutingAssumption DEF Init, TypeOK

\* Routes lead to neighbours, and every other variable keeps its type, whoever
\* connects, dies or sends, and however late it is noticed.
THEOREM TypeCorrect == Spec => []TypeOK
BY TypesInit, TypesStep, PTL DEF Spec

(***************************************************************************)
(* No false alarm.  A route that is gone, or reported gone, is one to a    *)
(* context that lost an ancestor or died.                                  *)
(***************************************************************************)
Lost(t) == \E x \in Lineage(t) : life[x] = "dead"

\* Context n is d, knows a route to it, or d is lost.
Routed(n, d) == d = n \/ table[n][d] # None \/ Lost(d)

\* A route leads to the parent, for the parent only, or to a child on the way, which knows
\* how to go on.
Leads(n, s, t) ==
    /\ life[s] # "unborn"
    /\ \/ s = t /\ IsParent(t, n)
       \/ IsParent(n, s) /\ s \in Lineage(t) /\ Routed(s, t)
RoutesLead == \A n, s, t \in Nodes : table[n][t] = s => Leads(n, s, t)

\* What a stream brought is below its other end.
LearnedBelow ==
    \A n, s \in Nodes : \A t \in learned[n][s] : IsParent(n, s) /\ s \in Lineage(t)

\* A context that lives knows its parent, which knows it.
Linked ==
    \A n \in alive \ {Root} : table[n][Parent[n]] = Parent[n] /\ table[Parent[n]][n] = n

\* The master has a route to whom it once had one to, unless they are lost.
AnnouncedRouted == \A d \in announced : Routed(Root, d)

\* What a message from n to m says is true.  Towards the master go routes to contexts below,
\* and requests for contexts it knew; away from it, reports of contexts elsewhere, and
\* requests for contexts the child has a route to.
Truthful(n, m, x) ==
    /\ x.kind = "ADD_ROUTE" => IsParent(m, n) /\ n \in Lineage(x.id) /\ x.id # n /\ Routed(n, x.id)
    /\ x.kind = "DEL_ROUTE" => /\ Lost(x.id)
                               /\ IsParent(m, n) => n \in Lineage(x.id) /\ x.id # n
                               /\ IsParent(n, m) => x.id \notin Lineage(m)
    /\ x.kind = "request" => /\ x.dst = Dst[x.req]
                             /\ IsParent(m, n) => x.dst \in announced \/ x.dst = m
                             /\ IsParent(n, m) => Routed(m, x.dst)
    /\ x.kind = "dead" => Lost(Dst[x.req])

MessagesTruthful ==
    \A n, m \in Nodes : m \in Neighbours(n) =>
        \A x \in On(chan[<<n, m>>]) : Truthful(n, m, x)

RoutesInv ==
    /\ RoutesLead /\ LearnedBelow /\ Linked /\ AnnouncedRouted /\ MessagesTruthful
    /\ NoFalseAlarm

\* What no step takes back.
Steady ==
    /\ \A x \in Nodes : /\ life[x] = "dead" => life'[x] = "dead"
                        /\ life[x] # "unborn" => life'[x] # "unborn"
    /\ announced \subseteq announced'
    /\ \A n, t \in Nodes : table[n][t] # None /\ table'[n][t] = None => Lost(t)'

\* A route is lost only with the context it leads to: what was true stays true.
LEMMA SteadyLemma ==
    ASSUME TypeOK, Steady
    PROVE  /\ \A t \in Nodes : Lost(t) => Lost(t)'
           /\ \A n, d \in Nodes : Routed(n, d) => Routed(n, d)'
           /\ \A n, m \in Nodes : \A x \in Message : Truthful(n, m, x) => Truthful(n, m, x)'
<1>1. \A t \in Nodes : Lost(t) => Lost(t)'
  BY LineageLemma DEF Lost, Steady
<1>2. \A n, d \in Nodes : Routed(n, d) => Routed(n, d)'
  BY <1>1 DEF Routed, Steady
<1>3. ASSUME NEW n \in Nodes, NEW m \in Nodes, NEW x \in Message, Truthful(n, m, x)
      PROVE  Truthful(n, m, x)'
  <2>1. CASE x.kind = "ADD_ROUTE"
    <3>1. x.id \in Nodes
      BY <2>1, KindLemma
    <3>2. IsParent(m, n) /\ n \in Lineage(x.id) /\ x.id # n /\ Routed(n, x.id)
      BY <1>3, <2>1 DEF Truthful
    <3>3. Routed(n, x.id)'
      BY <1>2, <3>1, <3>2
    <3> QED
      BY <2>1, <3>2, <3>3 DEF Truthful
  <2>2. CASE x.kind = "DEL_ROUTE"
    <3>1. x.id \in Nodes
      BY <2>2, KindLemma
    <3>2. Lost(x.id)'
      BY <1>1, <1>3, <2>2, <3>1 DEF Truthful
    <3> QED
      BY <1>3, <2>2, <3>2 DEF Truthful
  <2>3. CASE x.kind = "request"
    <3>1. x.dst \in Nodes
      BY <2>3, KindLemma
    <3>2. IsParent(n, m) => Routed(m, x.dst)'
      BY <1>2, <1>3, <2>3, <3>1 DEF Truthful
    <3> QED
      BY <1>3, <2>3, <3>2 DEF Truthful, Steady
  <2>4. CASE x.kind = "dead"
    <3>1. Dst[x.req] \in Nodes
      BY <2>4, KindLemma, RoutingAssumption
    <3>2. Lost(Dst[x.req])'
      BY <1>1, <1>3, <2>4, <3>1 DEF Truthful
    <3> QED
      BY <2>4, <3>2 DEF Truthful
  <2>5. CASE x.kind = "reply"
    BY <2>5 DEF Truthful
  <2> QED
    BY <2>1, <2>2, <2>3, <2>4, <2>5, KindLemma
<1> QED
  BY <1>1, <1>2, <1>3

\* A step that writes what is true.
WritesTruth ==
    \A n, m \in Nodes : m \in Neighbours(n) =>
        \A x \in On(chan'[<<n, m>>]) : x \in On(chan[<<n, m>>]) \/ Truthful(n, m, x)'

\* A message in flight is one.
LEMMA InFlight ==
    ASSUME TypeOK, NEW n \in Nodes, NEW m \in Nodes, m \in Neighbours(n)
    PROVE  On(chan[<<n, m>>]) \subseteq Message
<1>1. chan[<<n, m>>] \in Seq(Message)
  BY LinkLemma DEF TypeOK
<1> QED
  BY <1>1, OnType

\* Such a step leaves true messages in flight.
LEMMA TruthKept == ASSUME TypeOK, MessagesTruthful, Steady, WritesTruth PROVE MessagesTruthful'
<1> SUFFICES ASSUME NEW n \in Nodes, NEW m \in Nodes, m \in Neighbours(n), NEW x \in On(chan'[<<n, m>>])
             PROVE  Truthful(n, m, x)'
  BY DEF MessagesTruthful
<1>1. CASE x \in On(chan[<<n, m>>])
  <2>1. x \in Message /\ Truthful(n, m, x)
    BY <1>1, InFlight DEF MessagesTruthful
  <2> QED
    BY <2>1, SteadyLemma
<1>2. CASE x \notin On(chan[<<n, m>>])
  BY <1>2 DEF WritesTruth
<1> QED
  BY <1>1, <1>2

\* A route still leads where it did.
LEMMA LeadsKept ==
    ASSUME TypeOK, Steady
    PROVE  \A n, s, t \in Nodes : Leads(n, s, t) => Leads(n, s, t)'
BY SteadyLemma DEF Leads, Steady

\* A step that changes no route.
LEMMA SameRoutes ==
    ASSUME TypeOK, RoutesInv, Steady, UNCHANGED <<table, learned, announced>>, alive' \subseteq alive
    PROVE  RoutesLead' /\ LearnedBelow' /\ Linked' /\ AnnouncedRouted'
<1>1. RoutesLead'
  BY LeadsKept DEF RoutesInv, RoutesLead
<1>2. LearnedBelow'
  BY DEF RoutesInv, LearnedBelow
<1>3. Linked'
  BY DEF RoutesInv, Linked
<1>4. AnnouncedRouted'
  <2>1. announced \subseteq Nodes /\ Root \in Nodes
    BY RoutingAssumption DEF TypeOK
  <2> QED
    BY <2>1, SteadyLemma DEF RoutesInv, AnnouncedRouted
<1> QED
  BY <1>1, <1>2, <1>3, <1>4

\* Callers that are told now, and those that were.
LEMMA AlarmKept ==
    ASSUME TypeOK, NoFalseAlarm, Steady,
           \A r \in Requests : status'[r] = "dead" => status[r] = "dead" \/ Lost(Dst[r])'
    PROVE  NoFalseAlarm'
<1>1. \A r \in Requests : Dst[r] \in Nodes
  BY RoutingAssumption
<1>2. \A r \in Requests : status[r] = "dead" => Lost(Dst[r])
  BY DEF NoFalseAlarm, Lost
<1>3. \A r \in Requests : status'[r] = "dead" => Lost(Dst[r])'
  BY <1>1, <1>2, SteadyLemma
<1> QED
  BY <1>3 DEF NoFalseAlarm, Lost

\* A process that goes away takes nothing back.
LEMMA GoneKeeps == ASSUME TypeOK, RoutesInv, NEW n \in Nodes, n \in alive, Gone(n) PROVE RoutesInv'
<1>1. /\ \A a, b \in Nodes : b \in Neighbours(a) => On(chan'[<<a, b>>]) \subseteq On(chan[<<a, b>>])
      /\ life' = [life EXCEPT ![n] = "dead"]
      /\ UNCHANGED <<table, learned, egress, status, serving, announced>>
  BY GoneLemma
<1>2. \A x \in Nodes : life'[x] = IF x = n THEN "dead" ELSE life[x]
  BY <1>1 DEF TypeOK
<1>3. Steady
  BY <1>1, <1>2 DEF Steady, TypeOK
<1>4. alive' \subseteq alive
  BY <1>2 DEF alive
<1>5. WritesTruth
  BY <1>1 DEF WritesTruth
<1> QED
  BY <1>1, <1>3, <1>4, <1>5, SameRoutes, TruthKept, AlarmKept DEF RoutesInv

\* What a context that lives takes for its parent's stream.
LEMMA UpLemma ==
    ASSUME TypeOK, RoutesInv, NEW n \in alive
    PROVE  /\ n \in Nodes
           /\ ParentStream(n) = None <=> n = Root
           /\ n # Root => ParentStream(n) = Parent[n] /\ Parent[n] \in Nodes
           /\ \A s \in Nodes : IsParent(s, n) <=> s = ParentStream(n)
<1>1. n \in Nodes
  BY DEF alive
<1>2. n # Root => Parent[n] \in Nodes /\ Parent[n] # None
  BY <1>1, RoutingAssumption, NoneAssumption
<1>3. n # Root => ParentStream(n) = Parent[n]
  BY <1>1 DEF ParentStream, RoutesInv, Linked
<1>4. n = Root => ParentStream(n) = None
  BY DEF ParentStream
<1> QED
  BY <1>1, <1>2, <1>3, <1>4, NoneAssumption DEF IsParent

\* What a new report says.
LEMMA ReportLemma ==
    ASSUME NEW n \in Nodes, NEW m \in Nodes, NEW t \in Nodes
    PROVE  /\ Routing("ADD_ROUTE", t, n) \in Message /\ Routing("DEL_ROUTE", t, n) \in Message
           /\ IsParent(m, n) /\ n \in Lineage(t) /\ t # n /\ Routed(n, t)' =>
                Truthful(n, m, Routing("ADD_ROUTE", t, n))'
           /\ /\ Lost(t)'
              /\ IsParent(m, n) => n \in Lineage(t) /\ t # n
              /\ IsParent(n, m) => t \notin Lineage(m)
              => Truthful(n, m, Routing("DEL_ROUTE", t, n))'
<1>1. /\ Routing("ADD_ROUTE", t, n).kind = "ADD_ROUTE" /\ Routing("ADD_ROUTE", t, n).id = t
      /\ Routing("DEL_ROUTE", t, n).kind = "DEL_ROUTE" /\ Routing("DEL_ROUTE", t, n).id = t
  BY DEF Routing
<1>2. Routing("ADD_ROUTE", t, n) \in Message /\ Routing("DEL_ROUTE", t, n) \in Message
  BY DEF Routing, Message
<1> QED
  BY <1>1, <1>2 DEF Truthful

\* A new context.
LEMMA ConnectKeeps ==
    ASSUME TypeOK, RoutesInv, NEW p \in Nodes, NEW n \in Nodes, Connect(p, n)
    PROVE  RoutesInv'
<1>1. /\ n # Root /\ Parent[n] = p /\ IsParent(p, n) /\ p \in alive /\ life[n] = "unborn"
      /\ life' = [life EXCEPT ![n] = "alive"]
      /\ table' = Registered(p, n)
      /\ learned' = [learned EXCEPT ![p][n] = {n}]
      /\ announced' = IF p = Root THEN announced \cup {n} ELSE announced
      /\ UNCHANGED status
  BY DEF Connect, IsParent
<1>2. \A a, b \in Nodes : table'[a][b] = IF a = p /\ b = n THEN n
                                        ELSE IF a = n /\ b = p THEN p ELSE table[a][b]
  BY <1>1, TableConnect DEF TypeOK, Tables
<1>3. \A x \in Nodes : life'[x] = IF x = n THEN "alive" ELSE life[x]
  BY <1>1 DEF TypeOK
<1>4. p # n /\ n \in Lineage(n) /\ p \in Lineage(n) /\ p # None /\ n # None
  BY <1>1, LinkLemma, LineageLemma, Below, NoneAssumption
<1>5. Steady
  BY <1>1, <1>2, <1>3, <1>4 DEF Steady
<1>6. life'[p] # "unborn" /\ life'[n] # "unborn"
  BY <1>1, <1>3 DEF alive
<1>7. \A x \in Nodes : Routed(x, x)'
  BY DEF Routed
<1>8. RoutesLead'
  <2> SUFFICES ASSUME NEW a \in Nodes, NEW s \in Nodes, NEW t \in Nodes, table'[a][t] = s
               PROVE  Leads(a, s, t)'
    BY DEF RoutesLead
  <2>1. CASE a = p /\ t = n
    BY <1>1, <1>2, <1>4, <1>6, <1>7, <2>1 DEF Leads
  <2>2. CASE a = n /\ t = p
    BY <1>1, <1>2, <1>4, <1>6, <2>2 DEF Leads
  <2>3. CASE ~(a = p /\ t = n) /\ ~(a = n /\ t = p)
    <3>1. table[a][t] = s
      BY <1>2, <2>3
    <3> QED
      BY <1>5, <3>1, LeadsKept DEF RoutesInv, RoutesLead
  <2> QED
    BY <2>1, <2>2, <2>3
<1>9. LearnedBelow'
  <2> SUFFICES ASSUME NEW a \in Nodes, NEW s \in Nodes, NEW t \in learned'[a][s]
               PROVE  IsParent(a, s) /\ s \in Lineage(t)
    BY DEF LearnedBelow
  <2>1. CASE a = p /\ s = n
    BY <1>1, <1>4, <2>1 DEF TypeOK
  <2>2. CASE ~(a = p /\ s = n)
    <3>1. t \in learned[a][s]
      BY <1>1, <2>2 DEF TypeOK
    <3> QED
      BY <3>1 DEF RoutesInv, LearnedBelow
  <2> QED
    BY <2>1, <2>2
<1>10. Linked'
  <2> SUFFICES ASSUME NEW x \in Nodes \ {Root}, life'[x] = "alive"
               PROVE  table'[x][Parent[x]] = Parent[x] /\ table'[Parent[x]][x] = x
    BY DEF Linked, alive
  <2>1. CASE x = n
    BY <1>1, <1>2, <1>4, <2>1
  <2>2. CASE x # n
    <3>1. x \in alive /\ Parent[x] \in Nodes
      BY <1>3, <2>2, RoutingAssumption DEF alive
    <3>2. table[x][Parent[x]] = Parent[x] /\ table[Parent[x]][x] = x
      BY <3>1 DEF RoutesInv, Linked
    <3> QED
      BY <1>2, <3>1, <3>2
  <2> QED
    BY <2>1, <2>2
<1>11. AnnouncedRouted'
  <2>1. announced \subseteq Nodes /\ Root \in Nodes
    BY RoutingAssumption DEF TypeOK
  <2>2. \A d \in announced : Routed(Root, d)'
    BY <1>5, <2>1, SteadyLemma DEF RoutesInv, AnnouncedRouted
  <2>3. p = Root => Routed(Root, n)'
    BY <1>2, <1>4 DEF Routed
  <2> QED
    BY <1>1, <2>2, <2>3 DEF AnnouncedRouted
<1>12. WritesTruth
  <2>1. PICK out : out = Announcement(p, n) /\ chan' = Write(chan, p, out)
    BY DEF Connect
  <2>2. PICK msg \in Message : msg = Routing("ADD_ROUTE", n, p)
    BY ReportLemma
  <2>3. \A s \in Nodes : out[s] \in Seq(Message) /\ \A x \in On(out[s]) : x = msg /\ s = ParentStream(p)
    BY <2>1, <2>2, ToLemma DEF Announcement
  <2>4. chan \in Channels
    BY DEF TypeOK, Channels
  <2>5. ASSUME NEW a \in Nodes, NEW b \in Nodes, b \in Neighbours(a), NEW x \in On(chan'[<<a, b>>]),
               x \notin On(chan[<<a, b>>])
        PROVE  Truthful(a, b, x)'
    <3>0. \A s \in Nodes : out[s] \in Seq(Message)
      BY <2>3
    <3>1. a = p /\ b = ParentStream(p) /\ x = msg
      <4>1. a = p /\ x \in On(out[b])
        BY <2>1, <2>4, <2>5, <3>0, WriteLemma, ZenonT(60)
      <4> QED
        BY <2>3, <4>1
    <3>2. IsParent(b, p)
      BY <1>1, <3>1, UpLemma
    <3>3. Routed(p, n)'
      BY <1>2, <1>4 DEF Routed
    <3> QED
      BY <1>4, <2>2, <3>1, <3>2, <3>3, ReportLemma
  <2> QED
    BY <2>5 DEF WritesTruth
<1>13. MessagesTruthful'
  BY <1>5, <1>12, TruthKept DEF RoutesInv
<1>14. NoFalseAlarm'
  BY <1>1, <1>5, AlarmKept DEF RoutesInv
<1> QED
  BY <1>8, <1>9, <1>10, <1>11, <1>13, <1>14 DEF RoutesInv

\* A child's stream disconnects.
LEMMA ChildDisconnectsKeeps ==
    ASSUME TypeOK, RoutesInv, NEW p \in Nodes, NEW n \in Nodes, ChildDisconnects(p, n)
    PROVE  RoutesInv'
<1>1. /\ IsParent(p, n) /\ p \in alive /\ n \notin alive /\ table[p][n] = n
      /\ learned[p][n] \in SUBSET Nodes
      /\ table' = [table EXCEPT ![p] = [t \in Nodes |->
                     IF table[p][t] = n \/ t \in learned[p][n] THEN None ELSE table[p][t]]]
      /\ learned' = [learned EXCEPT ![p][n] = {}]
      /\ status' = Fired(p, learned[p][n])
      /\ UNCHANGED <<life, announced>>
  BY ChildDisconnectsLemma
<1>2. \A a, b \in Nodes : table'[a][b] = IF a = p /\ (table[p][b] = n \/ b \in learned[p][n])
                                        THEN None ELSE table[a][b]
  BY <1>1 DEF TypeOK
<1>3. life[n] = "dead" /\ Lost(n)
  <2>1. life[n] # "unborn" /\ life[n] # "alive"
    BY <1>1 DEF RoutesInv, RoutesLead, Leads, alive
  <2> QED
    BY <2>1, LineageLemma DEF TypeOK, Lost
<1>4. \A t \in Nodes : n \in Lineage(t) => Lost(t) /\ Lost(t)'
  BY <1>1, <1>3 DEF Lost
<1>5. \A t \in Nodes : table[p][t] = n \/ t \in learned[p][n] => n \in Lineage(t)
  <2>1. ASSUME NEW t \in Nodes, table[p][t] = n PROVE n \in Lineage(t)
    <3>1. (n = t /\ IsParent(t, p)) \/ n \in Lineage(t)
      BY <2>1 DEF RoutesInv, RoutesLead, Leads
    <3> QED
      BY <3>1, LineageLemma
  <2> QED
    BY <2>1 DEF RoutesInv, LearnedBelow
<1>6. Steady
  <2>1. \A a, t \in Nodes : table[a][t] # None /\ table'[a][t] = None => Lost(t)'
    BY <1>2, <1>4, <1>5
  <2> QED
    BY <1>1, <2>1 DEF Steady
<1>7. RoutesLead'
  <2> SUFFICES ASSUME NEW a \in Nodes, NEW s \in Nodes, NEW t \in Nodes, table'[a][t] = s
               PROVE  Leads(a, s, t)'
    BY DEF RoutesLead
  <2>1. table[a][t] = s
    BY <1>2, NoneAssumption
  <2> QED
    BY <1>6, <2>1, LeadsKept DEF RoutesInv, RoutesLead
<1>8. LearnedBelow'
  <2>1. \A a, s \in Nodes : learned'[a][s] \subseteq learned[a][s]
    BY <1>1 DEF TypeOK
  <2> QED
    BY <2>1 DEF RoutesInv, LearnedBelow
<1>9. Linked'
  <2> SUFFICES ASSUME NEW x \in Nodes \ {Root}, life[x] = "alive"
               PROVE  table'[x][Parent[x]] = Parent[x] /\ table'[Parent[x]][x] = x
    BY <1>1 DEF Linked, alive
  <2>1. /\ table[x][Parent[x]] = Parent[x] /\ table[Parent[x]][x] = x
        /\ Parent[x] \in Nodes /\ IsParent(Parent[x], x)
    BY RoutingAssumption DEF RoutesInv, Linked, alive, IsParent
  <2>2. ~(x = p /\ n \in Lineage(Parent[x]))
    <3>1. CASE x = p
      <4>1. p \in Lineage(n)
        BY <1>1, Below, LineageLemma
      <4>2. n \in Lineage(Parent[x]) => x \in Lineage(Parent[x])
        BY <2>1, <3>1, <4>1, LineageOfAncestor
      <4> QED
        BY <4>2, NoCycle
    <3> QED
      BY <3>1
  <2>3. ~(Parent[x] = p /\ n \in Lineage(x))
    <3>1. ASSUME Parent[x] = p, n \in Lineage(x) PROVE FALSE
      <4>1. x = n
        BY <1>1, <2>1, <3>1, Below, LineageLemma
      <4> QED
        BY <1>3, <4>1
    <3> QED
      BY <3>1
  <2> QED
    BY <1>2, <1>5, <2>1, <2>2, <2>3
<1>10. AnnouncedRouted'
  <2>1. announced \subseteq Nodes /\ Root \in Nodes
    BY RoutingAssumption DEF TypeOK
  <2> QED
    BY <1>1, <1>6, <2>1, SteadyLemma DEF RoutesInv, AnnouncedRouted
<1>11. WritesTruth
  <2> SUFFICES ASSUME NEW a \in Nodes, NEW b \in Nodes, b \in Neighbours(a), NEW x \in On(chan'[<<a, b>>]),
                      x \notin On(chan[<<a, b>>])
               PROVE  Truthful(a, b, x)'
    BY DEF WritesTruth
  <2>1. PICK t \in learned[p][n] : a = p /\ b \in alive /\ x = Routing("DEL_ROUTE", t, p)
    BY ChildDisconnectsLemma
  <2>2. t \in Nodes /\ n \in Lineage(t)
    BY <1>1, <1>5, <2>1
  <2>3. p \in Lineage(t) /\ t # p /\ t \notin Lineage(p)
    BY <1>1, <2>2, Below
  <2>4. IsParent(p, b) => t \notin Lineage(b)
    <3>1. ASSUME IsParent(p, b), t \in Lineage(b) PROVE FALSE
      <4>1. b \in Nodes \ {Root} /\ Parent[b] = p
        BY <3>1 DEF IsParent
      <4>2. t = b
        BY <2>3, <3>1, <4>1, LineageOfChild
      <4>3. b = n
        BY <1>1, <2>2, <3>1, <4>2, Below, LineageLemma
      <4> QED
        BY <1>1, <2>1, <4>3
    <3> QED
      BY <3>1
  <2> QED
    BY <1>4, <2>1, <2>2, <2>3, <2>4, ReportLemma
<1>12. MessagesTruthful'
  BY <1>6, <1>11, TruthKept DEF RoutesInv
<1>13. NoFalseAlarm'
  <2>1. \A r \in Requests : status'[r] = "dead" => status[r] = "dead" \/ Lost(Dst[r])'
    BY <1>1, <1>4, <1>5, RoutingAssumption DEF Fired
  <2> QED
    BY <1>6, <2>1, AlarmKept DEF RoutesInv
<1> QED
  BY <1>7, <1>8, <1>9, <1>10, <1>12, <1>13 DEF RoutesInv

\* A route is learned from a child.
LEMMA AddRouteKeeps ==
    ASSUME TypeOK, RoutesInv, NEW n \in Nodes, NEW m \in Nodes, OnAddRoute(n, m)
    PROVE  RoutesInv'
<1>1. /\ m \in Neighbours(n) /\ n \in alive /\ table[n][m] = m /\ chan[<<m, n>>] # <<>>
      /\ Head(chan[<<m, n>>]).kind = "ADD_ROUTE"
      /\ UNCHANGED <<life, status>>
  BY DEF OnAddRoute, Incoming
<1>2. PICK y \in Message : /\ y = Head(chan[<<m, n>>]) /\ y \in On(chan[<<m, n>>]) /\ y.kind = "ADD_ROUTE"
                           /\ Read(n, m) \in Channels
  BY <1>1, ReadLemma
<1>3. PICK t \in Nodes : t = y.id
  BY <1>2, KindLemma
<1>4. Truthful(m, n, y) /\ n \in Neighbours(m)
  BY <1>1, <1>2, LinkLemma DEF RoutesInv, MessagesTruthful
<1>5. IsParent(n, m) /\ m \in Lineage(t) /\ t # m /\ Routed(m, t)
  BY <1>2, <1>3, <1>4 DEF Truthful
<1>6. /\ n \in Lineage(t) /\ t # n /\ t \notin Lineage(n)
      /\ \A u \in Nodes : IsParent(n, u) /\ u \in Lineage(t) => u = m
  BY <1>5, Below
<1>7. m # None
  BY NoneAssumption
<1>8. CASE chan' = Read(n, m) /\ UNCHANGED <<table, learned, announced>>
  <2>1. Steady
    BY <1>1, <1>8 DEF Steady
  <2>2. WritesTruth
    BY <1>1, <1>8, ReadLemma DEF WritesTruth
  <2>3. alive' \subseteq alive
    BY <1>1 DEF alive
  <2>4. NoFalseAlarm'
    BY <1>1, <2>1, AlarmKept DEF RoutesInv
  <2> QED
    BY <1>8, <2>1, <2>2, <2>3, <2>4, SameRoutes, TruthKept DEF RoutesInv
<1>9. CASE /\ learned' = [learned EXCEPT ![n][m] = @ \cup {t}]
           /\ table' = [table EXCEPT ![n][t] = m]
           /\ announced' = IF n = Root THEN announced \cup {t} ELSE announced
           /\ chan' = Write(Read(n, m), n, To({ParentStream(n)}, Routing("ADD_ROUTE", t, n)))
  <2>1. \A a, b \in Nodes : table'[a][b] = IF a = n /\ b = t THEN m ELSE table[a][b]
    BY <1>1, <1>9, TableSet DEF TypeOK, Tables
  <2>2. Steady
    BY <1>1, <1>7, <1>9, <2>1 DEF Steady
  <2>3. life'[m] # "unborn"
    BY <1>1 DEF RoutesInv, RoutesLead, Leads
  <2>4. Routed(m, t)' /\ Routed(n, t)'
    <3>1. Routed(m, t)'
      BY <1>5, <2>2, SteadyLemma
    <3>2. Routed(n, t)'
      BY <1>7, <2>1 DEF Routed
    <3> QED
      BY <3>1, <3>2
  <2>5. RoutesLead'
    <3> SUFFICES ASSUME NEW a \in Nodes, NEW s \in Nodes, NEW d \in Nodes, table'[a][d] = s
                 PROVE  Leads(a, s, d)'
      BY DEF RoutesLead
    <3>1. CASE a = n /\ d = t
      BY <1>5, <2>1, <2>3, <2>4, <3>1 DEF Leads
    <3>2. CASE ~(a = n /\ d = t)
      BY <2>1, <2>2, <3>2, LeadsKept DEF RoutesInv, RoutesLead
    <3> QED
      BY <3>1, <3>2
  <2>6. LearnedBelow'
    <3> SUFFICES ASSUME NEW a \in Nodes, NEW s \in Nodes, NEW d \in learned'[a][s]
                 PROVE  IsParent(a, s) /\ s \in Lineage(d)
      BY DEF LearnedBelow
    <3>1. d \in learned[a][s] \/ (a = n /\ s = m /\ d = t)
      BY <1>9 DEF TypeOK
    <3> QED
      BY <1>5, <3>1 DEF RoutesInv, LearnedBelow
  <2>7. Linked'
    <3> SUFFICES ASSUME NEW x \in Nodes \ {Root}, life[x] = "alive"
                 PROVE  table'[x][Parent[x]] = Parent[x] /\ table'[Parent[x]][x] = x
      BY <1>1 DEF Linked, alive
    <3>1. /\ table[x][Parent[x]] = Parent[x] /\ table[Parent[x]][x] = x
          /\ Parent[x] \in Nodes /\ IsParent(Parent[x], x)
      BY RoutingAssumption DEF RoutesInv, Linked, alive, IsParent
    <3>2. ~(x = n /\ Parent[x] = t)
      BY <1>6, LineageLemma
    <3>3. ~(Parent[x] = n /\ x = t)
      BY <1>5, <1>6, <3>1, LineageLemma
    <3> QED
      BY <2>1, <3>1, <3>2, <3>3
  <2>8. AnnouncedRouted'
    <3>1. announced \subseteq Nodes /\ Root \in Nodes
      BY RoutingAssumption DEF TypeOK
    <3>2. \A d \in announced : Routed(Root, d)'
      BY <2>2, <3>1, SteadyLemma DEF RoutesInv, AnnouncedRouted
    <3> QED
      BY <1>9, <2>4, <3>2 DEF AnnouncedRouted
  <2>9. WritesTruth
    <3>1. PICK msg \in Message : msg = Routing("ADD_ROUTE", t, n)
      BY ReportLemma
    <3>2. PICK out : out = To({ParentStream(n)}, msg) /\ chan' = Write(Read(n, m), n, out)
      BY <1>9, <3>1
    <3>3. \A s \in Nodes : out[s] \in Seq(Message) /\ \A x \in On(out[s]) : x = msg /\ s = ParentStream(n)
      BY <3>2, ToLemma
    <3>4. \A s \in Nodes : out[s] \in Seq(Message)
      BY <3>3
    <3>5. ASSUME NEW a \in Nodes, NEW b \in Nodes, b \in Neighbours(a), NEW x \in On(chan'[<<a, b>>]),
                 x \notin On(chan[<<a, b>>])
          PROVE  Truthful(a, b, x)'
      <4>1. x \notin On(Read(n, m)[<<a, b>>])
        BY <1>1, <3>5, ReadLemma
      <4>2. a = n /\ x \in On(out[b])
        <5>1. PICK c \in Channels : c = Read(n, m)
          BY <1>2
        <5>2. x \in On(Write(c, n, out)[<<a, b>>]) /\ x \notin On(c[<<a, b>>])
          BY <3>2, <3>5, <4>1, <5>1
        <5> QED
          BY <3>4, <3>5, <5>2, WriteLemma
      <4>3. b = ParentStream(n) /\ x = msg
        BY <3>3, <4>2
      <4>4. IsParent(b, n)
        BY <1>1, <4>3, UpLemma
      <4> QED
        BY <1>6, <2>4, <3>1, <4>2, <4>3, <4>4, ReportLemma
    <3> QED
      BY <3>5 DEF WritesTruth
  <2>10. MessagesTruthful'
    BY <2>2, <2>9, TruthKept DEF RoutesInv
  <2>11. NoFalseAlarm'
    BY <1>1, <2>2, AlarmKept DEF RoutesInv
  <2> QED
    BY <2>5, <2>6, <2>7, <2>8, <2>10, <2>11 DEF RoutesInv
<1> QED
  BY <1>2, <1>3, <1>8, <1>9 DEF OnAddRoute

\* A context is reported gone, by a child or by the parent.
LEMMA DelRouteKeeps ==
    ASSUME TypeOK, RoutesInv, NEW n \in Nodes, NEW m \in Nodes, OnDelRoute(n, m)
    PROVE  RoutesInv'
<1>1. /\ m \in Neighbours(n) /\ n \in alive /\ table[n][m] = m /\ chan[<<m, n>>] # <<>>
      /\ Head(chan[<<m, n>>]).kind = "DEL_ROUTE"
      /\ UNCHANGED <<life, announced>>
  BY DEF OnDelRoute, Incoming
<1>2. PICK y \in Message : /\ y = Head(chan[<<m, n>>]) /\ y \in On(chan[<<m, n>>]) /\ y.kind = "DEL_ROUTE"
                           /\ Read(n, m) \in Channels
  BY <1>1, ReadLemma
<1>3. PICK t \in Nodes : t = y.id
  BY <1>2, KindLemma
<1>4. Truthful(m, n, y) /\ n \in Neighbours(m)
  BY <1>1, <1>2, LinkLemma DEF RoutesInv, MessagesTruthful
<1>5. /\ Lost(t)
      /\ IsParent(n, m) => m \in Lineage(t) /\ t # m
      /\ IsParent(m, n) => t \notin Lineage(n)
  BY <1>2, <1>3, <1>4 DEF Truthful
<1>6. IsParent(n, m) \/ IsParent(m, n)
  BY <1>1, LinkLemma
<1>7. t \notin Lineage(n)
  BY <1>5, <1>6, Below
<1>8. CASE chan' = Read(n, m) /\ UNCHANGED <<table, learned, status>>
  <2>1. Steady
    BY <1>1, <1>8 DEF Steady
  <2>2. WritesTruth
    BY <1>1, <1>8, ReadLemma DEF WritesTruth
  <2>3. alive' \subseteq alive
    BY <1>1 DEF alive
  <2>4. NoFalseAlarm'
    BY <1>8, <2>1, AlarmKept DEF RoutesInv
  <2> QED
    BY <1>1, <1>8, <2>1, <2>2, <2>3, <2>4, SameRoutes, TruthKept DEF RoutesInv
<1>9. CASE /\ StreamById(n, t) = m
           /\ status' = Fired(n, {t})
           /\ learned' = [learned EXCEPT ![n][m] = @ \ {t}]
           /\ table' = [table EXCEPT ![n][t] = None]
           /\ chan' = Write(Read(n, m), n,
                            Withdrawal(n, [table EXCEPT ![n][t] = None], t,
                                       IF m = ParentStream(n) THEN None ELSE ParentStream(n)))
  <2>1. \A a, b \in Nodes : table'[a][b] = IF a = n /\ b = t THEN None ELSE table[a][b]
    <3>1. None \in Neighbours(n) \cup {None}
      OBVIOUS
    <3> QED
      BY <1>9, <3>1, TableSet DEF TypeOK, Tables
  <2>2. Lost(t)'
    BY <1>1, <1>5 DEF Lost
  <2>3. Steady
    BY <1>1, <2>1, <2>2 DEF Steady
  <2>4. ASSUME NEW x \in alive, IsParent(n, x) PROVE x # t
    <3>1. table[n][x] = x
      BY <2>4 DEF RoutesInv, Linked, IsParent, alive
    <3>2. x = t => StreamById(n, t) = t
      BY <3>1, NoneAssumption DEF StreamById, alive
    <3>3. x = t => m = t
      BY <1>9, <3>2
    <3>4. x = t => IsParent(n, m)
      BY <2>4, <3>3
    <3> QED
      BY <1>5, <3>3, <3>4
  <2>5. RoutesLead'
    <3> SUFFICES ASSUME NEW a \in Nodes, NEW s \in Nodes, NEW d \in Nodes, table'[a][d] = s
                 PROVE  Leads(a, s, d)'
      BY DEF RoutesLead
    <3>1. table[a][d] = s
      BY <2>1, NoneAssumption
    <3> QED
      BY <2>3, <3>1, LeadsKept DEF RoutesInv, RoutesLead
  <2>6. LearnedBelow'
    <3>1. \A a, s \in Nodes : learned'[a][s] \subseteq learned[a][s]
      BY <1>9 DEF TypeOK
    <3> QED
      BY <3>1 DEF RoutesInv, LearnedBelow
  <2>7. Linked'
    <3> SUFFICES ASSUME NEW x \in Nodes \ {Root}, x \in alive
                 PROVE  table'[x][Parent[x]] = Parent[x] /\ table'[Parent[x]][x] = x
      BY <1>1 DEF Linked, alive
    <3>1. /\ table[x][Parent[x]] = Parent[x] /\ table[Parent[x]][x] = x
          /\ Parent[x] \in Nodes /\ IsParent(Parent[x], x)
      BY RoutingAssumption DEF RoutesInv, Linked, IsParent
    <3>2. ~(x = n /\ Parent[x] = t)
      BY <1>7, LineageLemma
    <3>3. ~(Parent[x] = n /\ x = t)
      BY <2>4, <3>1
    <3> QED
      BY <2>1, <3>1, <3>2, <3>3
  <2>8. AnnouncedRouted'
    <3>1. announced \subseteq Nodes /\ Root \in Nodes
      BY RoutingAssumption DEF TypeOK
    <3> QED
      BY <1>1, <2>3, <3>1, SteadyLemma DEF RoutesInv, AnnouncedRouted
  <2>9. WritesTruth
    <3>1. PICK up, tab, out : /\ up = IF m = ParentStream(n) THEN None ELSE ParentStream(n)
                              /\ out = Withdrawal(n, tab, t, up) /\ chan' = Write(Read(n, m), n, out)
      BY <1>9
    <3>2. \A s \in Nodes : /\ out[s] \in Seq(Message)
                           /\ \A x \in On(out[s]) : /\ x = Routing("DEL_ROUTE", t, n)
                                                    /\ s = up \/ s # ParentStream(n)
      <4>1. \A s \in Nodes :
             /\ Withdrawal(n, tab, t, up)[s] \in Seq(Message)
             /\ \A x \in On(Withdrawal(n, tab, t, up)[s]) :
                  x = Routing("DEL_ROUTE", t, n) /\ (s = up \/ s # ParentStream(n))
        BY WithdrawalLemma
      <4> QED
        BY <3>1, <4>1
    <3>3. \A s \in Nodes : out[s] \in Seq(Message)
      BY <3>2
    <3>4. ASSUME NEW a \in Nodes, NEW b \in Nodes, b \in Neighbours(a), NEW x \in On(chan'[<<a, b>>]),
                 x \notin On(chan[<<a, b>>])
          PROVE  Truthful(a, b, x)'
      <4>1. x \notin On(Read(n, m)[<<a, b>>])
        BY <1>1, <3>4, ReadLemma
      <4>2. a = n /\ b \in alive /\ x \in On(out[b])
        <5>1. PICK c \in Channels : c = Read(n, m)
          BY <1>2
        <5>2. x \in On(Write(c, n, out)[<<a, b>>]) /\ x \notin On(c[<<a, b>>])
          BY <3>1, <3>4, <4>1, <5>1
        <5> QED
          BY <3>3, <3>4, <5>2, WriteLemma
      <4>3. x = Routing("DEL_ROUTE", t, n) /\ (b = up \/ b # ParentStream(n))
        BY <3>2, <4>2
      <4>4. IsParent(b, n) => n \in Lineage(t) /\ t # n
        <5>1. ASSUME IsParent(b, n) PROVE n \in Lineage(t) /\ t # n
          <6>1. b = ParentStream(n) /\ b = up
            BY <1>1, <4>3, <5>1, UpLemma
          <6>2. m # ParentStream(n)
            BY <3>1, <6>1, NoneAssumption
          <6>3. IsParent(n, m)
            BY <1>1, <1>6, <6>2, UpLemma
          <6> QED
            BY <1>5, <6>3, Below
        <5> QED
          BY <5>1
      <4>5. IsParent(n, b) => t \notin Lineage(b)
        <5>1. ASSUME IsParent(n, b), t \in Lineage(b) PROVE FALSE
          <6>1. b \in Nodes \ {Root} /\ Parent[b] = n
            BY <5>1 DEF IsParent
          <6>2. t = b
            BY <1>7, <5>1, <6>1, LineageOfChild
          <6> QED
            BY <2>4, <4>2, <5>1, <6>2
        <5> QED
          BY <5>1
      <4> QED
        BY <2>2, <4>2, <4>3, <4>4, <4>5, ReportLemma
    <3> QED
      BY <3>4 DEF WritesTruth
  <2>10. MessagesTruthful'
    BY <2>3, <2>9, TruthKept DEF RoutesInv
  <2>11. NoFalseAlarm'
    <3>1. \A r \in Requests : status'[r] = "dead" => status[r] = "dead" \/ Lost(Dst[r])'
      BY <1>9, <2>2, RoutingAssumption DEF Fired
    <3> QED
      BY <2>3, <3>1, AlarmKept DEF RoutesInv
  <2> QED
    BY <2>5, <2>6, <2>7, <2>8, <2>10, <2>11 DEF RoutesInv
<1> QED
  BY <1>2, <1>3, <1>8, <1>9 DEF OnDelRoute

\* A message names what it was made of.
LEMMA MsgLemma ==
    ASSUME NEW kind \in {"request", "reply", "dead"}, NEW r \in Requests, NEW from \in Nodes, NEW to \in Nodes
    PROVE  /\ Msg(kind, r, from, to) \in Message
           /\ Msg(kind, r, from, to).kind = kind /\ Msg(kind, r, from, to).req = r
           /\ Msg(kind, r, from, to).src = from /\ Msg(kind, r, from, to).dst = to
BY DEF Msg, Message

\* How n may have come by a request.
Deliverable(n, msg, m) ==
    \/ m = None /\ (msg.dst \in announced \/ table[n][msg.dst] # None)
    \/ IsParent(n, m) /\ m \in Nodes /\ Verified(n, msg, m) /\ msg.dst \in announced
    \/ IsParent(m, n) /\ Verified(n, msg, m) /\ Routed(n, msg.dst)

\* A request is turned away only if its destination is lost, and goes on truthfully.
LEMMA OutRequest ==
    ASSUME TypeOK, RoutesInv, NEW n \in alive, NEW msg \in Message, msg.kind = "request",
           msg.dst = Dst[msg.req], msg.dst # n, NEW m, Deliverable(n, msg, m)
    PROVE  /\ OutStream(n, msg, m) = None => Lost(msg.dst)
           /\ \A b \in Nodes : b = OutStream(n, msg, m) => Truthful(n, b, msg)
<1>1. PICK d \in Nodes : d = msg.dst
  BY KindLemma
<1>2. n \in Nodes
  BY DEF alive
<1>3. CASE table[n][d] # None
  <2>1. PICK b \in Nodes : b = table[n][d] /\ OutStream(n, msg, m) = b /\ b # None
    BY <1>1, <1>2, <1>3, NoneAssumption DEF OutStream, TypeOK
  <2>2. Leads(n, b, d)
    BY <1>1, <1>2, <2>1 DEF RoutesInv, RoutesLead
  <2>3. Truthful(n, b, msg)
    <3>1. IsParent(b, n) => d = b
      BY <1>2, <2>2, LinkLemma DEF Leads
    <3>2. IsParent(n, b) => Routed(b, d)
      BY <1>2, <2>2, LinkLemma DEF Leads
    <3> QED
      BY <1>1, <3>1, <3>2 DEF Truthful
  <2> QED
    BY <2>1, <2>3
<1>4. CASE table[n][d] = None /\ IsParent(m, n)
  <2>1. m = ParentStream(n) /\ m \in Nodes
    <3>1. n # Root /\ m = Parent[n]
      BY <1>4 DEF IsParent
    <3> QED
      BY <3>1, UpLemma
  <2>2. ~IsParent(n, m) /\ m # None
    BY <1>2, <1>4, <2>1, LinkLemma, NoneAssumption
  <2>3. Verified(n, msg, m) /\ Routed(n, d)
    BY <1>1, <2>2 DEF Deliverable
  <2>4. OutStream(n, msg, m) = None
    BY <1>1, <1>4, <2>1, <2>2, <2>3 DEF OutStream, Verified
  <2>5. Lost(d)
    BY <1>1, <1>4, <2>3 DEF Routed
  <2> QED
    BY <1>1, <2>4, <2>5, NoneAssumption
<1>5. CASE table[n][d] = None /\ ~IsParent(m, n)
  <2>1. d \in announced
    BY <1>1, <1>5 DEF Deliverable
  <2>2. OutStream(n, msg, m) = ParentStream(n)
    <3>1. CASE m = None
      BY <1>1, <1>5, <3>1 DEF OutStream
    <3>2. CASE m # None
      <4>1. IsParent(n, m) /\ m \in Nodes /\ m = StreamById(n, msg.src)
        BY <1>1, <1>5, <3>2 DEF Deliverable, Verified
      <4>2. ~IsParent(m, n)
        BY <1>5
      <4>3. m # ParentStream(n)
        BY <4>1, <4>2, UpLemma
      <4> QED
        BY <1>1, <1>5, <3>2, <4>1, <4>3 DEF OutStream
    <3> QED
      BY <3>1, <3>2
  <2>3. ParentStream(n) = None => Lost(d)
    <3>1. ASSUME ParentStream(n) = None PROVE Lost(d)
      <4>1. n = Root
        BY <3>1, UpLemma
      <4>2. Routed(Root, d)
        BY <2>1 DEF RoutesInv, AnnouncedRouted
      <4> QED
        BY <1>1, <1>5, <4>1, <4>2 DEF Routed
    <3> QED
      BY <3>1
  <2>4. ASSUME NEW b \in Nodes, b = ParentStream(n) PROVE Truthful(n, b, msg)
    <3>1. IsParent(b, n) /\ ~IsParent(n, b)
      BY <1>2, <2>4, UpLemma, LinkLemma
    <3> QED
      BY <1>1, <2>1, <3>1 DEF Truthful
  <2> QED
    BY <1>1, <2>2, <2>3, <2>4
<1> QED
  BY <1>3, <1>4, <1>5

\* A request is sent, or is known at once to reach nobody.
LEMMA SendKeeps == ASSUME TypeOK, RoutesInv, NEW r \in Requests, Send(r) PROVE RoutesInv'
<1>1. PICK n \in Nodes, d \in Nodes : n = Src[r] /\ d = Dst[r] /\ n # d
  BY RoutingAssumption
<1>2. PICK msg \in Message : /\ msg = Msg("request", r, n, d)
                             /\ msg.kind = "request" /\ msg.req = r /\ msg.dst = d
  BY <1>1, MsgLemma
<1>3. PICK out : out = To({OutStream(n, msg, None)}, msg)
  OBVIOUS
<1>4. /\ n \in alive /\ (d \in announced \/ table[n][d] # None)
      /\ status' = [status EXCEPT ![r] = IF OutStream(n, msg, None) = None THEN "dead" ELSE "sent"]
      /\ chan' = Write(chan, n, out)
      /\ UNCHANGED <<life, table, learned, announced>>
  BY <1>1, <1>2, <1>3 DEF Send
<1>5. Deliverable(n, msg, None)
  BY <1>2, <1>4 DEF Deliverable
<1>6. /\ OutStream(n, msg, None) = None => Lost(d)
      /\ \A b \in Nodes : b = OutStream(n, msg, None) => Truthful(n, b, msg)
  BY <1>1, <1>2, <1>4, <1>5, OutRequest
<1>7. Steady
  BY <1>4 DEF Steady
<1>8. WritesTruth
  <2>1. \A s \in Nodes : /\ out[s] \in Seq(Message)
                         /\ \A x \in On(out[s]) : x = msg /\ s \in {OutStream(n, msg, None)}
    BY <1>3, ToLemma
  <2>2. \A s \in Nodes : out[s] \in Seq(Message)
    BY <2>1
  <2>3. ASSUME NEW a \in Nodes, NEW b \in Nodes, b \in Neighbours(a), NEW x \in On(chan'[<<a, b>>]),
               x \notin On(chan[<<a, b>>])
        PROVE  Truthful(a, b, x)'
    <3>1. chan \in Channels
      BY DEF TypeOK, Channels
    <3>2. a = n /\ x \in On(out[b])
      BY <1>4, <2>2, <2>3, <3>1, WriteLemma
    <3>3. x = msg /\ b = OutStream(n, msg, None)
      BY <2>1, <3>2
    <3>4. Truthful(a, b, x)
      BY <1>6, <3>2, <3>3
    <3>5. x \in Message
      BY <3>3
    <3> QED
      BY <1>7, <3>4, <3>5, SteadyLemma
  <2> QED
    BY <2>3 DEF WritesTruth
<1>9. NoFalseAlarm'
  <2>1. Lost(d) => Lost(d)'
    BY <1>7, SteadyLemma
  <2>2. \A q \in Requests : status'[q] = "dead" => status[q] = "dead" \/ Lost(Dst[q])'
    BY <1>1, <1>4, <1>6, <2>1 DEF TypeOK
  <2> QED
    BY <1>7, <2>2, AlarmKept DEF RoutesInv
<1>10. alive' \subseteq alive
  BY <1>4 DEF alive
<1> QED
  BY <1>4, <1>7, <1>8, <1>9, <1>10, SameRoutes, TruthKept DEF RoutesInv

\* What a context forwards is true, and so is a dead message of its own.
LEMMA ForwardsTruth ==
    ASSUME TypeOK, RoutesInv, Steady, NEW n \in alive, NEW m, NEW msg \in Message,
           msg.kind \in {"request", "reply", "dead"}, msg.dst # n,
           msg.kind = "request" => msg.dst = Dst[msg.req] /\ Deliverable(n, msg, m),
           msg.kind = "dead" => Lost(Dst[msg.req])
    PROVE  \A s \in Nodes : \A x \in On(Forward(n, msg, m)[s]) : Truthful(n, s, x)'
<1> SUFFICES ASSUME NEW s \in Nodes, NEW x \in On(Forward(n, msg, m)[s]) PROVE Truthful(n, s, x)'
  OBVIOUS
<1>1. n \in Nodes
  BY DEF alive
<1>2. \/ x = msg /\ s = OutStream(n, msg, m)
      \/ /\ OutStream(n, msg, m) = None /\ msg.kind = "request"
         /\ x = Msg("dead", msg.req, n, msg.src)
  BY <1>1, ForwardLemma
<1>3. CASE x = msg /\ s = OutStream(n, msg, m)
  <2>1. Truthful(n, s, x)
    <3>1. CASE msg.kind = "request"
      BY <1>3, <3>1, OutRequest
    <3>2. CASE msg.kind = "reply"
      BY <1>3, <3>2 DEF Truthful
    <3>3. CASE msg.kind = "dead"
      BY <1>3, <3>3 DEF Truthful
    <3> QED
      BY <3>1, <3>2, <3>3
  <2>2. x \in Message
    BY <1>3
  <2> QED
    BY <1>1, <2>1, <2>2, SteadyLemma
<1>4. CASE /\ OutStream(n, msg, m) = None /\ msg.kind = "request"
           /\ x = Msg("dead", msg.req, n, msg.src)
  <2>1. Lost(Dst[msg.req])
    BY <1>4, OutRequest
  <2>2. msg.req \in Requests /\ msg.src \in Nodes
    BY KindLemma
  <2>3. x \in Message /\ x.kind = "dead" /\ x.req = msg.req
    BY <1>1, <1>4, <2>2, MsgLemma
  <2>4. Truthful(n, s, x)
    BY <2>1, <2>3 DEF Truthful
  <2> QED
    BY <1>1, <2>3, <2>4, SteadyLemma
<1> QED
  BY <1>2, <1>3, <1>4

\* The handler of a request answers.
LEMMA ReplyKeeps == ASSUME TypeOK, RoutesInv, NEW r \in Requests, Reply(r) PROVE RoutesInv'
<1>1. PICK n \in Nodes, d \in Nodes : n = Dst[r] /\ d = Src[r] /\ n # d
  BY RoutingAssumption
<1>2. PICK msg \in Message : /\ msg = Msg("reply", r, n, d)
                             /\ msg.kind = "reply" /\ msg.dst = d
  BY <1>1, MsgLemma
<1>3. PICK out : out = Forward(n, msg, None)
  OBVIOUS
<1>4. /\ n \in alive /\ chan' = Write(chan, n, out)
      /\ UNCHANGED <<life, table, learned, status, announced>>
  BY <1>1, <1>2, <1>3 DEF Reply
<1>5. Steady
  BY <1>4 DEF Steady
<1>6. WritesTruth
  <2>1. \A s \in Nodes : out[s] \in Seq(Message)
    BY <1>2, <1>3, ForwardLemma
  <2>2. \A s \in Nodes : \A x \in On(out[s]) : Truthful(n, s, x)'
    BY <1>1, <1>2, <1>3, <1>4, <1>5, ForwardsTruth
  <2>3. ASSUME NEW a \in Nodes, NEW b \in Nodes, b \in Neighbours(a), NEW x \in On(chan'[<<a, b>>]),
               x \notin On(chan[<<a, b>>])
        PROVE  Truthful(a, b, x)'
    <3>1. chan \in Channels
      BY DEF TypeOK, Channels
    <3>2. a = n /\ x \in On(out[b])
      BY <1>4, <2>1, <2>3, <3>1, WriteLemma
    <3> QED
      BY <2>2, <3>2
  <2> QED
    BY <2>3 DEF WritesTruth
<1>7. NoFalseAlarm'
  BY <1>4, <1>5, AlarmKept DEF RoutesInv
<1>8. alive' \subseteq alive
  BY <1>4 DEF alive
<1> QED
  BY <1>4, <1>5, <1>6, <1>7, <1>8, SameRoutes, TruthKept DEF RoutesInv

\* A message is delivered, forwarded, answered by a dead message, or dropped.
LEMMA OnMessageKeeps ==
    ASSUME TypeOK, RoutesInv, NEW n \in Nodes, NEW m \in Nodes, OnMessage(n, m)
    PROVE  RoutesInv'
<1>1. /\ m \in Neighbours(n) /\ n \in alive /\ table[n][m] = m /\ chan[<<m, n>>] # <<>>
      /\ Head(chan[<<m, n>>]).kind \in {"request", "reply", "dead"}
      /\ UNCHANGED <<life, table, learned, announced>>
  BY DEF OnMessage, Incoming
<1>2. PICK msg \in Message : /\ msg = Head(chan[<<m, n>>]) /\ msg \in On(chan[<<m, n>>])
                             /\ msg.kind \in {"request", "reply", "dead"}
                             /\ Read(n, m) \in Channels
  BY <1>1, ReadLemma
<1>3. Truthful(m, n, msg)
  BY <1>1, <1>2, LinkLemma DEF RoutesInv, MessagesTruthful
<1>4. Steady
  BY <1>1 DEF Steady
<1>5. msg.req \in Requests
  BY <1>2, KindLemma
<1>6. WritesTruth
  <2>1. CASE chan' = Read(n, m)
    BY <1>1, <2>1, ReadLemma DEF WritesTruth
  <2>2. CASE Verified(n, msg, m) /\ msg.dst # n /\ chan' = Write(Read(n, m), n, Forward(n, msg, m))
    <3>1. msg.kind = "request" => msg.dst = Dst[msg.req] /\ Deliverable(n, msg, m)
      <4>1. ASSUME msg.kind = "request" PROVE msg.dst = Dst[msg.req] /\ Deliverable(n, msg, m)
        <5>1. /\ msg.dst = Dst[msg.req]
              /\ IsParent(n, m) => msg.dst \in announced
              /\ IsParent(m, n) => Routed(n, msg.dst)
          BY <1>3, <2>2, <4>1 DEF Truthful
        <5>2. IsParent(n, m) \/ IsParent(m, n)
          BY <1>1, LinkLemma
        <5> QED
          BY <2>2, <5>1, <5>2 DEF Deliverable
      <4> QED
        BY <4>1
    <3>2. msg.kind = "dead" => Lost(Dst[msg.req])
      BY <1>3 DEF Truthful
    <3>3. PICK out : out = Forward(n, msg, m)
      OBVIOUS
    <3>4. \A s \in Nodes : out[s] \in Seq(Message)
      BY <1>2, <3>3, ForwardLemma
    <3>5. \A s \in Nodes : \A x \in On(out[s]) : Truthful(n, s, x)'
      BY <1>1, <1>2, <1>4, <2>2, <3>1, <3>2, <3>3, ForwardsTruth
    <3>6. ASSUME NEW a \in Nodes, NEW b \in Nodes, b \in Neighbours(a), NEW x \in On(chan'[<<a, b>>]),
                 x \notin On(chan[<<a, b>>])
          PROVE  Truthful(a, b, x)'
      <4>1. x \notin On(Read(n, m)[<<a, b>>])
        BY <1>1, <3>6, ReadLemma
      <4>2. a = n /\ x \in On(out[b])
        <5>1. PICK c \in Channels : c = Read(n, m)
          BY <1>2
        <5>2. x \in On(Write(c, n, out)[<<a, b>>]) /\ x \notin On(c[<<a, b>>])
          BY <2>2, <3>3, <3>6, <4>1, <5>1
        <5> QED
          BY <3>4, <3>6, <5>2, WriteLemma
      <4> QED
        BY <3>5, <4>2
    <3> QED
      BY <3>6 DEF WritesTruth
  <2> QED
    BY <1>2, <2>1, <2>2 DEF OnMessage
<1>7. NoFalseAlarm'
  <2>1. status' = status \/ (msg.kind # "request" /\ status' = Answered(msg.req, msg.kind))
    BY <1>2 DEF OnMessage
  <2>2. msg.kind = "dead" => Lost(Dst[msg.req])'
    <3>1. Dst[msg.req] \in Nodes
      BY <1>5, RoutingAssumption
    <3> QED
      BY <1>3, <1>4, <3>1, SteadyLemma DEF Truthful
  <2>3. \A q \in Requests : status'[q] = "dead" => status[q] = "dead" \/ Lost(Dst[q])'
    BY <1>5, <2>1, <2>2 DEF Answered, TypeOK
  <2> QED
    BY <1>4, <2>3, AlarmKept DEF RoutesInv
<1>8. alive' \subseteq alive
  BY <1>1 DEF alive
<1> QED
  BY <1>1, <1>4, <1>6, <1>7, <1>8, SameRoutes, TruthKept DEF RoutesInv

\* The master knows nobody.
LEMMA RoutesInit == Init => RoutesInv
<1> SUFFICES ASSUME Init PROVE RoutesInv
  OBVIOUS
<1>1. /\ \A n, t \in Nodes : table[n][t] = None /\ learned[n][t] = {}
      /\ \A e \in Links : chan[e] = <<>>
      /\ \A r \in Requests : status[r] = "new"
      /\ alive \subseteq {Root} /\ announced = {}
  BY DEF Init, alive
<1>2. RoutesLead /\ LearnedBelow /\ Linked /\ AnnouncedRouted /\ NoFalseAlarm
  BY <1>1, NoneAssumption DEF RoutesLead, LearnedBelow, Linked, AnnouncedRouted, NoFalseAlarm
<1>3. MessagesTruthful
  BY <1>1, LinkLemma, OnEmpty DEF MessagesTruthful
<1> QED
  BY <1>2, <1>3 DEF RoutesInv

\* Every step keeps routes leading where they lead.
LEMMA RoutesStep == ASSUME TypeOK, RoutesInv, [Next]_vars PROVE RoutesInv'
<1>1. ASSUME NEW n \in Nodes, Die(n) PROVE RoutesInv'
  BY <1>1, GoneKeeps DEF Die
<1>2. ASSUME NEW n \in Nodes, NEW m \in Nodes, Connect(m, n) PROVE RoutesInv'
  BY <1>2, ConnectKeeps
<1>3. ASSUME NEW n \in Nodes, NEW m \in Nodes, OrphanDies(n, m) PROVE RoutesInv'
  BY <1>3, GoneKeeps DEF OrphanDies, EndOfFile
<1>4. ASSUME NEW n \in Nodes, NEW m \in Nodes, ChildDisconnects(n, m) PROVE RoutesInv'
  BY <1>4, ChildDisconnectsKeeps
<1>5. ASSUME NEW n \in Nodes, NEW m \in Nodes, OnAddRoute(n, m) PROVE RoutesInv'
  BY <1>5, AddRouteKeeps
<1>6. ASSUME NEW n \in Nodes, NEW m \in Nodes, OnDelRoute(n, m) PROVE RoutesInv'
  BY <1>6, DelRouteKeeps
<1>7. ASSUME NEW n \in Nodes, NEW m \in Nodes, OnMessage(n, m) PROVE RoutesInv'
  BY <1>7, OnMessageKeeps
<1>8. ASSUME NEW r \in Requests, Send(r) \/ Reply(r) PROVE RoutesInv'
  BY <1>8, SendKeeps, ReplyKeeps
<1>9. CASE UNCHANGED vars
  <2>1. Steady /\ WritesTruth
    BY <1>9 DEF vars, Steady, WritesTruth
  <2>2. alive' \subseteq alive
    BY <1>9 DEF vars, alive
  <2>3. UNCHANGED <<table, learned, announced>> /\ NoFalseAlarm'
    BY <1>9 DEF vars, RoutesInv, NoFalseAlarm
  <2> QED
    BY <2>1, <2>2, <2>3, SameRoutes, TruthKept DEF RoutesInv
<1> QED
  BY <1>1, <1>2, <1>3, <1>4, <1>5, <1>6, <1>7, <1>8, <1>9 DEF Next

\* In every tree, whoever connects, dies, and whatever is in flight or lost when it
\* happens: a caller told that no reply will come (Context 'disconnect' through
\* _propagate_down(), or a dead message from Router._maybe_send_dead()) wanted one
\* from a context that died, or that lost a context its messages pass through.
THEOREM AlarmsAreTrue == Spec => []NoFalseAlarm
<1>1. Init => TypeOK /\ RoutesInv
  BY TypesInit, RoutesInit
<1>2. TypeOK /\ RoutesInv /\ [Next]_vars => TypeOK' /\ RoutesInv'
  BY TypesStep, RoutesStep
<1>3. RoutesInv => NoFalseAlarm
  BY DEF RoutesInv
<1> QED
  BY <1>1, <1>2, <1>3, PTL DEF Spec

\* A route never leads astray: it is the parent's own, or one to a child that is an
\* ancestor of its destination (or the destination) and itself has a route on,
\* unless the destination is lost; a context that lives and its parent know each
\* other.  RouteMonitor's tables alone do not say so: messages in flight matter.
THEOREM RoutesLeadHome == Spec => [](RoutesLead /\ Linked /\ MessagesTruthful)
<1>1. Init => TypeOK /\ RoutesInv
  BY TypesInit, RoutesInit
<1>2. TypeOK /\ RoutesInv /\ [Next]_vars => TypeOK' /\ RoutesInv'
  BY TypesStep, RoutesStep
<1>3. RoutesInv => RoutesLead /\ Linked /\ MessagesTruthful
  BY DEF RoutesInv
<1> QED
  BY <1>1, <1>2, <1>3, PTL DEF Spec

(***************************************************************************)
(* Routes are exact once traffic has settled.  What is not settled yet is  *)
(* on its way: an announcement that a parent has not read, a withdrawal    *)
(* behind the announcement it takes back.                                  *)
(***************************************************************************)
IsAdd(x, t) == x.kind = "ADD_ROUTE" /\ x.id = t
IsDel(x, t) == x.kind = "DEL_ROUTE" /\ x.id = t

\* Children begin after their parents, and are not spoken of before.
Born ==
    /\ \A n \in Nodes \ {Root} : life[n] # "unborn" => life[Parent[n]] # "unborn"
    /\ \A n, t \in Nodes : table[n][t] # None => life[t] # "unborn"
    /\ \A n, m \in Nodes : m \in Neighbours(n) =>
         /\ life[n] = "unborn" => chan[<<n, m>>] = <<>>
         /\ \A x \in On(chan[<<n, m>>]) : x.kind = "ADD_ROUTE" => life[x.id] # "unborn"

\* RouteMonitor's record of a stream is the routes over it.
Recorded ==
    \A n, s, t \in Nodes : t \in learned[n][s] <=> table[n][t] = s /\ IsParent(n, s)

\* Over a child's stream goes the route to the child first of all.
FirstHand == \A n, s, t \in Nodes : table[n][t] = s /\ IsParent(n, s) => table[n][s] = s

\* Context c is t, or has a route to it.
Told(c, t) == c = t \/ table[c][t] # None

\* What a context knows its parent knows, or will read.
TellsUp ==
    \A t \in Nodes : life[t] # "unborn" /\ ~Lost(t) =>
        \A c \in Lineage(t) \ {Root} : Told(c, t) =>
            \/ table[Parent[c]][t] # None
            \/ \E x \in On(chan[<<c, Parent[c]>>]) : IsAdd(x, t)

\* On a channel to one that believes to know of t, or will, a withdrawal comes last.
Withdrawn(known, q, t) ==
    /\ known => \E j \in 1..Len(q) : IsDel(q[j], t)
    /\ \A i \in 1..Len(q) : IsAdd(q[i], t) => \E j \in 1..Len(q) : j > i /\ IsDel(q[j], t)

\* What a context does not know its parent does not, or will learn so.
Withdraws ==
    \A p, s \in alive : IsParent(p, s) =>
        \A t \in Nodes : t # s /\ table[s][t] = None =>
            Withdrawn(table[p][t] = s, chan[<<s, p>>], t)

ExactInv == Born /\ Recorded /\ FirstHand /\ TellsUp /\ Withdraws

\* Nothing is withdrawn on an empty channel.
LEMMA WithdrawnEmpty == ASSUME NEW t PROVE Withdrawn(FALSE, <<>>, t)
BY DEF Withdrawn

\* It matters less if nothing is known.
LEMMA WithdrawnLess ==
    ASSUME NEW known \in BOOLEAN, NEW less \in BOOLEAN, less => known, NEW q, NEW t, Withdrawn(known, q, t)
    PROVE  Withdrawn(less, q, t)
BY DEF Withdrawn

\* What is appended announces nothing, and withdraws or leaves as it is.
LEMMA WithdrawnAppend ==
    ASSUME NEW known \in BOOLEAN, NEW q \in Seq(Message), NEW o \in Seq(Message), NEW t,
           \A x \in On(o) : ~IsAdd(x, t),
           Withdrawn(known, q, t) \/ \E x \in On(o) : IsDel(x, t)
    PROVE  Withdrawn(known, q \o o, t)
<1>1. PICK a \in Nat, b \in Nat : a = Len(q) /\ b = Len(o)
  OBVIOUS
<1>2. PICK w : w = q \o o
  OBVIOUS
<1>3. /\ Len(w) = a + b
      /\ \A i \in 1..a : w[i] = q[i]
      /\ \A i \in 1..b : w[a + i] = o[i]
  BY <1>1, <1>2
<1>4. \A i \in 1..(a + b) : i \in 1..a \/ (i > a /\ i - a \in 1..b /\ w[i] = o[i - a])
  <2>1. ASSUME NEW i \in 1..(a + b), i \notin 1..a PROVE i > a /\ i - a \in 1..b /\ w[i] = o[i - a]
    <3>1. i > a /\ i - a \in 1..b /\ a + (i - a) = i
      BY <2>1
    <3> QED
      BY <1>3, <3>1
  <2> QED
    BY <2>1
<1>5. \A i \in 1..b : ~IsAdd(o[i], t)
  BY <1>1 DEF On
<1>6. ASSUME NEW i \in 1..Len(w), IsAdd(w[i], t) PROVE i \in 1..a /\ IsAdd(q[i], t)
  <2>1. i \in 1..(a + b)
    BY <1>3
  <2> QED
    BY <1>3, <1>4, <1>5, <1>6, <2>1
<1>7. CASE Withdrawn(known, q, t)
  <2>1. \A j \in 1..a : IsDel(q[j], t) => j \in 1..Len(w) /\ IsDel(w[j], t)
    BY <1>3
  <2>2. known => \E j \in 1..Len(w) : IsDel(w[j], t)
    BY <1>1, <1>7, <2>1 DEF Withdrawn
  <2>3. ASSUME NEW i \in 1..Len(w), IsAdd(w[i], t)
        PROVE  \E j \in 1..Len(w) : j > i /\ IsDel(w[j], t)
    <3>1. i \in 1..a /\ IsAdd(q[i], t)
      BY <1>6, <2>3
    <3>2. PICK j \in 1..a : j > i /\ IsDel(q[j], t)
      BY <1>1, <1>7, <3>1 DEF Withdrawn
    <3> QED
      BY <2>1, <3>2
  <2> QED
    BY <1>2, <2>2, <2>3 DEF Withdrawn
<1>8. CASE \E x \in On(o) : IsDel(x, t)
  <2>1. PICK k \in 1..b : IsDel(o[k], t)
    BY <1>1, <1>8 DEF On
  <2>2. a + k \in 1..Len(w) /\ IsDel(w[a + k], t) /\ \A i \in 1..a : a + k > i
    BY <1>3, <2>1
  <2> QED
    BY <1>2, <1>6, <2>2 DEF Withdrawn
<1> QED
  BY <1>7, <1>8

\* An announcement is read, a withdrawal, or something else.
LEMMA WithdrawnTail ==
    ASSUME NEW known \in BOOLEAN, NEW now \in BOOLEAN, NEW q \in Seq(Message), q # <<>>, NEW t,
           Withdrawn(known, q, t),
           now => (known \/ IsAdd(Head(q), t)) /\ ~IsDel(Head(q), t)
    PROVE  Withdrawn(now, Tail(q), t)
<1>1. PICK a \in Nat : a = Len(q) /\ a > 0
  OBVIOUS
<1>2. PICK w : w = Tail(q)
  OBVIOUS
<1>3. Len(w) = a - 1 /\ \A i \in 1..(a - 1) : w[i] = q[i + 1]
  BY <1>1, <1>2
<1>4. Head(q) = q[1] /\ 1 \in 1..a
  BY <1>1
<1>5. ASSUME NEW j \in 1..a, j > 1 PROVE j - 1 \in 1..Len(w) /\ w[j - 1] = q[j]
  <2>1. j - 1 \in 1..(a - 1) /\ (j - 1) + 1 = j
    BY <1>5
  <2> QED
    BY <1>3, <2>1
<1>6. now => \E j \in 1..Len(w) : IsDel(w[j], t)
  <2>1. ASSUME now PROVE \E j \in 1..a : j > 1 /\ IsDel(q[j], t)
    <3>1. CASE known
      <4>1. PICK j \in 1..a : IsDel(q[j], t)
        BY <1>1, <3>1 DEF Withdrawn
      <4>2. j # 1
        BY <1>4, <2>1, <4>1
      <4> QED
        BY <4>1, <4>2
    <3>2. CASE IsAdd(q[1], t)
      BY <1>1, <1>4, <3>2 DEF Withdrawn
    <3> QED
      BY <1>4, <2>1, <3>1, <3>2
  <2> QED
    BY <1>5, <2>1
<1>7. ASSUME NEW i \in 1..Len(w), IsAdd(w[i], t)
      PROVE  \E j \in 1..Len(w) : j > i /\ IsDel(w[j], t)
  <2>1. i \in 1..(a - 1) /\ i + 1 \in 1..a /\ IsAdd(q[i + 1], t)
    BY <1>3, <1>7
  <2>2. PICK j \in 1..a : j > i + 1 /\ IsDel(q[j], t)
    BY <1>1, <2>1 DEF Withdrawn
  <2>3. j - 1 \in 1..Len(w) /\ w[j - 1] = q[j] /\ j - 1 > i
    BY <1>5, <2>1, <2>2
  <2> QED
    BY <2>2, <2>3
<1> QED
  BY <1>2, <1>6, <1>7 DEF Withdrawn

\* Context n reads a message from m, or none, and writes.
Writes(n, m, out) ==
    /\ m # None => m \in Neighbours(n) /\ chan[<<m, n>>] # <<>>
    /\ \A s \in Nodes : out[s] \in Seq(Message)
    /\ chan' = Write(IF m # None THEN Read(n, m) ELSE chan, n, out)

\* A handler does that; the tables of others stay.
Handler(n, m, out) ==
    /\ n \in alive /\ UNCHANGED life
    /\ Writes(n, m, out)
    /\ \A a, t \in Nodes : a # n => table'[a][t] = table[a][t]

\* What is on the channels afterwards.
Delivered(n, m, out) ==
    \A a, b \in Nodes : b \in Neighbours(a) =>
        /\ chan[<<a, b>>] \in Seq(Message)
        /\ a = n /\ b \in alive => chan'[<<a, b>>] = chan[<<a, b>>] \o out[b]
        /\ a = n /\ b \notin alive => chan'[<<a, b>>] = chan[<<a, b>>]
        /\ a = m /\ b = n => chan'[<<a, b>>] = Tail(chan[<<a, b>>])
        /\ a # n /\ ~(a = m /\ b = n) => chan'[<<a, b>>] = chan[<<a, b>>]

\* It does that.
LEMMA WritesDeliver ==
    ASSUME TypeOK, NEW n \in Nodes, NEW m \in Nodes \cup {None}, NEW out, Writes(n, m, out)
    PROVE  Delivered(n, m, out)
<1> SUFFICES ASSUME NEW a \in Nodes, NEW b \in Nodes, b \in Neighbours(a)
             PROVE  /\ chan[<<a, b>>] \in Seq(Message)
                    /\ a = n /\ b \in alive => chan'[<<a, b>>] = chan[<<a, b>>] \o out[b]
                    /\ a = n /\ b \notin alive => chan'[<<a, b>>] = chan[<<a, b>>]
                    /\ a = m /\ b = n => chan'[<<a, b>>] = Tail(chan[<<a, b>>])
                    /\ a # n /\ ~(a = m /\ b = n) => chan'[<<a, b>>] = chan[<<a, b>>]
  BY DEF Delivered
<1>1. PICK e \in Links : e = <<a, b>> /\ e[1] = a /\ e[2] = b
  BY LinkLemma
<1>2. chan \in Channels /\ chan[e] \in Seq(Message)
  BY DEF TypeOK, Channels
<1>3. PICK c : c = IF m # None THEN Read(n, m) ELSE chan
  OBVIOUS
<1>4. c[e] = IF a = m /\ b = n THEN Tail(chan[e]) ELSE chan[e]
  BY <1>1, <1>2, <1>3, NoneAssumption DEF Read, Channels
<1>5. chan'[e] = IF a = n /\ b \in alive THEN c[e] \o out[b] ELSE c[e]
  BY <1>1, <1>3 DEF Writes, Write
<1>6. m # n
  BY LinkLemma, NoneAssumption DEF Writes
<1> QED
  BY <1>1, <1>2, <1>4, <1>5, <1>6

\* Routes come from announcements by children and are announced, those that go are
\* withdrawn, and what is read is acted upon.
Follows(n, m, out) ==
    /\ \A t \in Nodes : table'[n][t] # None /\ table'[n][t] # table[n][t] =>
         /\ table'[n][t] = m /\ IsParent(n, m) /\ IsAdd(Head(chan[<<m, n>>]), t)
         /\ \A p \in Nodes : IsParent(p, n) => \E x \in On(out[p]) : IsAdd(x, t)
    /\ \A t \in Nodes : table'[n][t] = None /\ table[n][t] # None =>
         \A p \in Nodes : IsParent(p, n) => \E x \in On(out[p]) : IsDel(x, t)
    /\ \A b \in Nodes : \A x \in On(out[b]) : x.kind = "ADD_ROUTE" =>
         table'[n][x.id] # None /\ life[x.id] # "unborn"
    /\ m # None /\ IsParent(n, m) => \A t \in Nodes :
         /\ IsAdd(Head(chan[<<m, n>>]), t) => table'[n][t] # None
         /\ IsDel(Head(chan[<<m, n>>]), t) => table'[n][t] # m

\* What such a handler knows its parent knows or will read.
LEMMA HandlerTellsUp ==
    ASSUME TypeOK, RoutesInv, ExactInv, Steady, NEW n \in Nodes, NEW m \in Nodes \cup {None}, NEW out,
           Handler(n, m, out), Follows(n, m, out)
    PROVE  TellsUp'
<1> SUFFICES ASSUME NEW t \in Nodes, life'[t] # "unborn", ~Lost(t)', NEW c \in Lineage(t) \ {Root}, Told(c, t)'
             PROVE  \/ table'[Parent[c]][t] # None
                    \/ \E x \in On(chan'[<<c, Parent[c]>>]) : IsAdd(x, t)
  BY DEF TellsUp
<1>0. Delivered(n, m, out)
  BY WritesDeliver DEF Handler
<1>1. PICK p \in Nodes : p = Parent[c] /\ p \in Lineage(t)
  <2>1. c \in Nodes
    BY LineageLemma
  <2> QED
    BY <2>1, LineageLemma, RoutingAssumption
<1>2. c \in Nodes /\ c # Root /\ IsParent(p, c) /\ p \in Neighbours(c) /\ c # p
  BY <1>1, LineageLemma, LinkLemma DEF IsParent
<1>3. ~Lost(t) /\ life[t] # "unborn"
  BY SteadyLemma DEF Handler
<1>4. table[p][t] # None => table'[p][t] # None
  BY DEF Steady
<1>5. life[c] # "dead" /\ life[p] # "dead"
  BY <1>1, <1>3 DEF Lost
<1>6. CASE Told(c, t)
  <2>1. table[p][t] # None \/ \E x \in On(chan[<<c, p>>]) : IsAdd(x, t)
    BY <1>1, <1>3, <1>6 DEF ExactInv, TellsUp
  <2>2. CASE \E x \in On(chan[<<c, p>>]) : IsAdd(x, t)
    <3>1. PICK x \in On(chan[<<c, p>>]) : IsAdd(x, t)
      BY <2>2
    <3>2. PICK q \in Seq(Message) : q = chan[<<c, p>>]
      BY <1>1, <1>2, <1>0 DEF Delivered
    <3>3. CASE c = n
      <4>1. chan'[<<c, p>>] = q \/ chan'[<<c, p>>] = q \o out[p]
        BY <1>2, <3>2, <3>3, <1>0 DEF Delivered
      <4>2. out[p] \in Seq(Message)
        BY DEF Handler, Writes
      <4>3. On(q \o out[p]) = On(q) \cup On(out[p])
        BY <3>2, <4>2, OnConcat
      <4>4. x \in On(chan'[<<c, p>>])
        BY <3>1, <3>2, <4>1, <4>3
      <4> QED
        BY <1>1, <3>1, <4>4
    <3>4. CASE c = m /\ p = n
      <4>1. chan'[<<c, p>>] = Tail(q) /\ q # <<>>
        BY <1>2, <3>2, <3>4, <1>0, NoneAssumption DEF Delivered, Handler, Writes
      <4>2. On(q) = {Head(q)} \cup On(Tail(q))
        BY <4>1, OnTail
      <4>3. CASE x \in On(Tail(q))
        BY <1>1, <3>1, <4>1, <4>3
      <4>4. CASE x = Head(q)
        BY <1>1, <1>2, <3>1, <3>2, <3>4, <4>4, NoneAssumption DEF Follows
      <4> QED
        BY <3>1, <3>2, <4>2, <4>3, <4>4
    <3>5. CASE c # n /\ ~(c = m /\ p = n)
      <4>1. chan'[<<c, p>>] = q
        BY <1>2, <3>2, <3>5, <1>0 DEF Delivered
      <4> QED
        BY <1>1, <3>1, <3>2, <4>1
    <3> QED
      BY <3>3, <3>4, <3>5
  <2> QED
    BY <1>1, <1>4, <2>1, <2>2
<1>7. CASE ~Told(c, t)
  <2>1. c = n /\ table[n][t] = None /\ table'[n][t] # None
    BY <1>2, <1>7 DEF Told, Handler
  <2>2. PICK x \in On(out[p]) : IsAdd(x, t)
    BY <1>2, <2>1 DEF Follows
  <2>3. p \in alive
    <3>1. life[c] # "unborn"
      BY <2>1 DEF Handler, alive
    <3>2. life[p] # "unborn"
      BY <1>1, <1>2, <3>1 DEF ExactInv, Born
    <3> QED
      BY <1>5, <3>2 DEF TypeOK, alive
  <2>4. PICK q \in Seq(Message) : q = chan[<<c, p>>] /\ chan'[<<c, p>>] = q \o out[p]
    BY <1>2, <2>1, <2>3, <1>0 DEF Delivered
  <2>5. out[p] \in Seq(Message)
    BY DEF Handler, Writes
  <2>6. x \in On(chan'[<<c, p>>])
    BY <2>2, <2>4, <2>5, OnConcat
  <2> QED
    BY <1>1, <2>2, <2>6
<1> QED
  BY <1>6, <1>7

\* What it does not know its parent does not, or will learn so.
LEMMA HandlerWithdraws ==
    ASSUME TypeOK, RoutesInv, ExactInv, NEW n \in Nodes, NEW m \in Nodes \cup {None}, NEW out,
           Handler(n, m, out), Follows(n, m, out)
    PROVE  Withdraws'
<1> SUFFICES ASSUME NEW p \in Nodes, NEW s \in Nodes, p \in alive, s \in alive, IsParent(p, s),
                    NEW t \in Nodes, t # s, table'[s][t] = None
             PROVE  Withdrawn(table'[p][t] = s, chan'[<<s, p>>], t)
  BY DEF Withdraws, Handler, alive
<1>0. Delivered(n, m, out)
  BY WritesDeliver DEF Handler
<1>1. s # p /\ p \in Neighbours(s)
  BY LinkLemma
<1>2. PICK q \in Seq(Message) : q = chan[<<s, p>>]
  BY <1>1, <1>0 DEF Delivered
<1>3. table[s][t] = None => Withdrawn(table[p][t] = s, q, t)
  BY <1>2 DEF ExactInv, Withdraws
<1>4. PICK known \in BOOLEAN, now \in BOOLEAN : known = (table[p][t] = s) /\ now = (table'[p][t] = s)
  OBVIOUS
<1>5. CASE s = n
  <2>1. table'[p][t] = table[p][t]
    BY <1>1, <1>5 DEF Handler
  <2>2. chan'[<<s, p>>] = q \o out[p] /\ out[p] \in Seq(Message)
    BY <1>1, <1>2, <1>5, <1>0 DEF Delivered, Handler, Writes
  <2>3. \A x \in On(out[p]) : ~IsAdd(x, t)
    BY <1>5 DEF Follows, IsAdd
  <2>4. Withdrawn(known, q, t) \/ \E x \in On(out[p]) : IsDel(x, t)
    <3>1. CASE table[s][t] = None
      BY <1>3, <1>4, <3>1
    <3>2. CASE table[s][t] # None
      BY <1>5, <3>2 DEF Follows
    <3> QED
      BY <3>1, <3>2
  <2>5. Withdrawn(known, q \o out[p], t)
    BY <2>2, <2>3, <2>4, WithdrawnAppend
  <2> QED
    BY <1>4, <2>1, <2>2, <2>5
<1>6. CASE s # n
  <2>1. table[s][t] = None /\ Withdrawn(known, q, t)
    BY <1>3, <1>4, <1>6 DEF Handler
  <2>2. CASE s = m /\ p = n
    <3>1. chan'[<<s, p>>] = Tail(q) /\ q # <<>>
      BY <1>1, <1>2, <1>6, <2>2, <1>0, NoneAssumption DEF Delivered, Handler, Writes
    <3>2. now => (known \/ IsAdd(Head(q), t)) /\ ~IsDel(Head(q), t)
      <4>1. s # None
        BY NoneAssumption
      <4> QED
        BY <1>2, <1>4, <2>2, <4>1 DEF Follows
    <3>3. Withdrawn(now, Tail(q), t)
      BY <2>1, <3>1, <3>2, WithdrawnTail
    <3> QED
      BY <1>4, <3>1, <3>3
  <2>3. CASE ~(s = m /\ p = n)
    <3>1. chan'[<<s, p>>] = q
      BY <1>1, <1>2, <1>6, <2>3, <1>0 DEF Delivered
    <3>2. now => known
      <4>1. s # None
        BY NoneAssumption
      <4>2. table'[p][t] = s => table[p][t] = s
        BY <2>3, <4>1 DEF Follows, Handler
      <4> QED
        BY <1>4, <4>2
    <3>3. Withdrawn(now, q, t)
      BY <2>1, <3>2, WithdrawnLess
    <3> QED
      BY <1>4, <3>1, <3>3
  <2> QED
    BY <2>2, <2>3
<1> QED
  BY <1>5, <1>6

\* Nobody is spoken of who has not begun.
LEMMA HandlerBorn ==
    ASSUME TypeOK, RoutesInv, ExactInv, NEW n \in Nodes, NEW m \in Nodes \cup {None}, NEW out,
           Handler(n, m, out), Follows(n, m, out)
    PROVE  Born'
<1>0. Delivered(n, m, out) /\ Born /\ life' = life
  BY WritesDeliver DEF Handler, ExactInv
<1>1. m # None => /\ Head(chan[<<m, n>>]) \in On(chan[<<m, n>>])
                  /\ m \in Nodes /\ n \in Neighbours(m)
  <2>1. ASSUME m # None PROVE Head(chan[<<m, n>>]) \in On(chan[<<m, n>>]) /\ m \in Nodes /\ n \in Neighbours(m)
    <3>1. m \in Nodes /\ m \in Neighbours(n) /\ chan[<<m, n>>] # <<>>
      BY <2>1 DEF Handler, Writes
    <3> QED
      BY <3>1, ReadLemma, LinkLemma
  <2> QED
    BY <2>1
<1>2. \A a \in Nodes \ {Root} : life'[a] # "unborn" => life'[Parent[a]] # "unborn"
  BY <1>0 DEF Born
<1>3. ASSUME NEW a \in Nodes, NEW t \in Nodes, table'[a][t] # None PROVE life[t] # "unborn"
  <2>1. CASE table'[a][t] = table[a][t]
    BY <1>0, <1>3, <2>1 DEF Born
  <2>2. CASE table'[a][t] # table[a][t]
    <3>1. a = n
      BY <2>2 DEF Handler
    <3>2. table'[n][t] = m /\ IsAdd(Head(chan[<<m, n>>]), t) /\ m # None
      BY <1>3, <2>2, <3>1 DEF Follows
    <3> QED
      BY <1>0, <1>1, <3>2 DEF Born, IsAdd
  <2> QED
    BY <2>1, <2>2
<1>4. ASSUME NEW a \in Nodes, NEW b \in Nodes, b \in Neighbours(a)
      PROVE  /\ life[a] = "unborn" => chan'[<<a, b>>] = <<>>
             /\ \A x \in On(chan'[<<a, b>>]) : x.kind = "ADD_ROUTE" => life[x.id] # "unborn"
  <2>1. PICK q \in Seq(Message) : q = chan[<<a, b>>]
    BY <1>0, <1>4 DEF Delivered
  <2>2. /\ life[a] = "unborn" => q = <<>>
        /\ \A x \in On(q) : x.kind = "ADD_ROUTE" => life[x.id] # "unborn"
    BY <1>0, <1>4, <2>1 DEF Born
  <2>3. CASE a = n /\ b \in alive
    <3>1. chan'[<<a, b>>] = q \o out[b] /\ out[b] \in Seq(Message) /\ life[a] # "unborn"
      BY <1>0, <1>4, <2>1, <2>3 DEF Delivered, Handler, Writes, alive
    <3>2. On(q \o out[b]) = On(q) \cup On(out[b])
      BY <3>1, OnConcat
    <3>3. \A x \in On(out[b]) : x.kind = "ADD_ROUTE" => life[x.id] # "unborn"
      BY DEF Follows
    <3> QED
      BY <2>2, <3>1, <3>2, <3>3
  <2>4. CASE a = m /\ b = n
    <3>1. chan'[<<a, b>>] = Tail(q) /\ q # <<>>
      BY <1>0, <1>4, <2>1, <2>4, NoneAssumption DEF Delivered, Handler, Writes
    <3>2. On(q) = {Head(q)} \cup On(Tail(q))
      BY <3>1, OnTail
    <3> QED
      BY <2>2, <3>1, <3>2
  <2>5. CASE ~(a = n /\ b \in alive) /\ ~(a = m /\ b = n)
    <3>1. chan'[<<a, b>>] = q
      BY <1>0, <1>4, <2>1, <2>5 DEF Delivered
    <3> QED
      BY <2>2, <3>1
  <2> QED
    BY <2>3, <2>4, <2>5
<1> QED
  BY <1>0, <1>2, <1>3, <1>4 DEF Born

\* A handler that does all that.
LEMMA HandlerExact ==
    ASSUME TypeOK, RoutesInv, ExactInv, Steady, NEW n \in Nodes, NEW m \in Nodes \cup {None}, NEW out,
           Handler(n, m, out), Follows(n, m, out), Recorded', FirstHand'
    PROVE  ExactInv'
BY HandlerBorn, HandlerTellsUp, HandlerWithdraws DEF ExactInv

\* Nothing written is nothing appended.
LEMMA WriteNothing ==
    ASSUME NEW c \in Channels, NEW n \in Nodes PROVE Write(c, n, Nothing) = c
<1>1. \A e \in Links : c[e] \in Seq(Message) /\ c[e] \o <<>> = c[e]
  BY DEF Channels
<1>2. \A e \in Links : Nothing[e[2]] = <<>>
  BY LinkLemma DEF Nothing
<1>3. PICK w : w = [e \in Links |-> IF e[1] = n /\ e[2] \in alive THEN c[e] \o Nothing[e[2]] ELSE c[e]]
  OBVIOUS
<1>4. \A e \in Links : w[e] = c[e]
  BY <1>1, <1>2, <1>3
<1>5. w = c
  BY <1>3, <1>4 DEF Channels
<1> QED
  BY <1>3, <1>5 DEF Write

\* A handler of messages that are not about routes.
LEMMA MessageExact ==
    ASSUME TypeOK, RoutesInv, ExactInv, NEW n \in Nodes, NEW m \in Nodes \cup {None}, NEW out,
           Handler(n, m, out), UNCHANGED <<table, learned, announced>>,
           \A b \in Nodes : \A x \in On(out[b]) : x.kind # "ADD_ROUTE",
           m # None => Head(chan[<<m, n>>]).kind \notin {"ADD_ROUTE", "DEL_ROUTE"}
    PROVE  ExactInv'
<1>1. Steady
  BY DEF Steady, Handler
<1>2. Recorded' /\ FirstHand'
  BY DEF ExactInv, Recorded, FirstHand
<1>3. Follows(n, m, out)
  BY DEF Follows, IsAdd, IsDel
<1> QED
  BY <1>1, <1>2, <1>3, HandlerExact

\* Send.
LEMMA SendExact == ASSUME TypeOK, RoutesInv, ExactInv, NEW r \in Requests, Send(r) PROVE ExactInv'
<1>1. PICK n \in Nodes, d \in Nodes : n = Src[r] /\ d = Dst[r] /\ n # d
  BY RoutingAssumption
<1>2. PICK msg \in Message : msg = Msg("request", r, n, d) /\ msg.kind = "request"
  BY <1>1, MsgLemma
<1>3. PICK out : out = To({OutStream(n, msg, None)}, msg)
  OBVIOUS
<1>4. /\ n \in alive /\ chan' = Write(chan, n, out)
      /\ UNCHANGED <<life, table, learned, announced>>
  BY <1>1, <1>2, <1>3 DEF Send
<1>5. \A s \in Nodes : out[s] \in Seq(Message) /\ \A x \in On(out[s]) : x = msg
  BY <1>3, ToLemma
<1>6. Handler(n, None, out)
  BY <1>4, <1>5 DEF Handler, Writes
<1>7. \A s \in Nodes : \A x \in On(out[s]) : x.kind # "ADD_ROUTE"
  BY <1>2, <1>5
<1> QED
  BY <1>4, <1>6, <1>7, MessageExact

\* What is forwarded is not about routes.
LEMMA ForwardsMessages ==
    ASSUME NEW n \in Nodes, NEW m, NEW msg \in Message, msg.kind \in {"request", "reply", "dead"}
    PROVE  \A s \in Nodes : \A x \in On(Forward(n, msg, m)[s]) : x.kind # "ADD_ROUTE"
<1>1. Msg("dead", msg.req, n, msg.src).kind = "dead"
  BY DEF Msg
<1>2. \A s \in Nodes :
         /\ Forward(n, msg, m)[s] \in Seq(Message)
         /\ \A x \in On(Forward(n, msg, m)[s]) :
              \/ x = msg /\ s = OutStream(n, msg, m)
              \/ /\ OutStream(n, msg, m) = None /\ msg.kind = "request"
                 /\ x = Msg("dead", msg.req, n, msg.src)
  BY ForwardLemma
<1> QED
  BY <1>1, <1>2

\* Reply.
LEMMA ReplyExact == ASSUME TypeOK, RoutesInv, ExactInv, NEW r \in Requests, Reply(r) PROVE ExactInv'
<1>1. PICK n \in Nodes, d \in Nodes : n = Dst[r] /\ d = Src[r]
  BY RoutingAssumption
<1>2. PICK msg \in Message : msg = Msg("reply", r, n, d) /\ msg.kind = "reply"
  BY <1>1, MsgLemma
<1>3. PICK out : out = Forward(n, msg, None)
  OBVIOUS
<1>4. /\ n \in alive /\ chan' = Write(chan, n, out)
      /\ UNCHANGED <<life, table, learned, announced>>
  BY <1>1, <1>2, <1>3 DEF Reply
<1>5. \A s \in Nodes : out[s] \in Seq(Message)
  BY <1>2, <1>3, ForwardLemma
<1>6. \A s \in Nodes : \A x \in On(out[s]) : x.kind # "ADD_ROUTE"
  BY <1>2, <1>3, ForwardsMessages
<1>7. Handler(n, None, out)
  BY <1>4, <1>5 DEF Handler, Writes
<1> QED
  BY <1>4, <1>6, <1>7, MessageExact

\* A message is handled.
LEMMA OnMessageExact ==
    ASSUME TypeOK, RoutesInv, ExactInv, NEW n \in Nodes, NEW m \in Nodes, OnMessage(n, m) PROVE ExactInv'
<1>1. /\ m \in Neighbours(n) /\ n \in alive /\ chan[<<m, n>>] # <<>>
      /\ Head(chan[<<m, n>>]).kind \in {"request", "reply", "dead"}
      /\ UNCHANGED <<life, table, learned, announced>>
  BY DEF OnMessage, Incoming
<1>2. PICK msg \in Message : msg = Head(chan[<<m, n>>]) /\ Read(n, m) \in Channels
  BY <1>1, ReadLemma
<1>3. m # None
  BY NoneAssumption
<1>4. CASE chan' = Read(n, m)
  <2>1. PICK out : out = Nothing
    OBVIOUS
  <2>2. chan' = Write(Read(n, m), n, out)
    BY <1>2, <1>4, <2>1, WriteNothing
  <2>3. \A s \in Nodes : out[s] \in Seq(Message) /\ On(out[s]) = {}
    BY <2>1, NothingLemma
  <2>4. Handler(n, m, out)
    BY <1>1, <1>3, <2>2, <2>3 DEF Handler, Writes
  <2>5. \A s \in Nodes : \A x \in On(out[s]) : x.kind # "ADD_ROUTE"
    BY <2>3
  <2> QED
    BY <1>1, <2>4, <2>5, MessageExact
<1>5. CASE chan' = Write(Read(n, m), n, Forward(n, msg, m))
  <2>1. PICK out : out = Forward(n, msg, m)
    OBVIOUS
  <2>2. \A s \in Nodes : out[s] \in Seq(Message)
    BY <1>1, <1>2, <2>1, ForwardLemma
  <2>3. \A s \in Nodes : \A x \in On(out[s]) : x.kind # "ADD_ROUTE"
    BY <1>1, <1>2, <2>1, ForwardsMessages
  <2>4. Handler(n, m, out)
    BY <1>1, <1>3, <1>5, <2>1, <2>2 DEF Handler, Writes
  <2> QED
    BY <1>1, <2>3, <2>4, MessageExact
<1> QED
  BY <1>2, <1>4, <1>5 DEF OnMessage

\* A process that goes away leaves the channels of others, and nobody believes it.
LEMMA GoneExact ==
    ASSUME TypeOK, RoutesInv, ExactInv, NEW n \in Nodes, n \in alive, Gone(n) PROVE ExactInv'
<1>1. /\ chan' \in Channels
      /\ \A a, b \in Nodes : b \in Neighbours(a) => On(chan'[<<a, b>>]) \subseteq On(chan[<<a, b>>])
      /\ life' = [life EXCEPT ![n] = "dead"]
      /\ UNCHANGED <<table, learned, egress, status, serving, announced>>
  BY GoneLemma
<1>2. \A x \in Nodes : life'[x] = IF x = n THEN "dead" ELSE life[x]
  BY <1>1 DEF TypeOK
<1>3. life[n] = "alive"
  BY DEF alive
<1>4. ASSUME NEW a \in Nodes, NEW b \in Nodes, b \in Neighbours(a), a # n
      PROVE  chan'[<<a, b>>] = IF b = n THEN <<>> ELSE chan[<<a, b>>]
  <2>1. PICK e \in Links : e = <<a, b>> /\ e[1] = a /\ e[2] = b
    BY <1>4, LinkLemma
  <2>2. PICK kept : chan' = [f \in Links |-> CASE f[2] = n -> <<>>
                                             [] f[1] = n -> SubSeq(chan[f], 1, kept[f[2]])
                                             [] OTHER -> chan[f]]
    BY DEF Gone
  <2>3. chan'[e] = CASE e[2] = n -> <<>> [] e[1] = n -> SubSeq(chan[e], 1, kept[e[2]]) [] OTHER -> chan[e]
    BY <2>2
  <2>4. CASE b = n
    BY <1>4, <2>1, <2>3, <2>4
  <2>5. CASE b # n
    BY <1>4, <2>1, <2>3, <2>5
  <2> QED
    BY <2>4, <2>5
<1>5. Born'
  <2>1. \A a \in Nodes \ {Root} : life'[a] # "unborn" => life'[Parent[a]] # "unborn"
    BY <1>2, <1>3, RoutingAssumption DEF ExactInv, Born
  <2>2. \A a, t \in Nodes : table'[a][t] # None => life'[t] # "unborn"
    BY <1>1, <1>2 DEF ExactInv, Born
  <2>3. ASSUME NEW a \in Nodes, NEW b \in Nodes, b \in Neighbours(a), life'[a] = "unborn"
        PROVE  chan'[<<a, b>>] = <<>>
    <3>1. a # n /\ life[a] = "unborn"
      BY <1>2, <2>3
    <3> QED
      BY <1>4, <2>3, <3>1 DEF ExactInv, Born
  <2>4. ASSUME NEW a \in Nodes, NEW b \in Nodes, b \in Neighbours(a), NEW x \in On(chan'[<<a, b>>]),
               x.kind = "ADD_ROUTE"
        PROVE  life'[x.id] # "unborn"
    <3>1. x \in On(chan[<<a, b>>])
      BY <1>1, <2>4
    <3>2. x.id \in Nodes /\ life[x.id] # "unborn"
      BY <2>4, <3>1, InFlight, KindLemma DEF ExactInv, Born
    <3> QED
      BY <1>2, <3>2
  <2> QED
    BY <2>1, <2>2, <2>3, <2>4 DEF Born
<1>6. Recorded' /\ FirstHand'
  BY <1>1 DEF ExactInv, Recorded, FirstHand
<1>7. TellsUp'
  <2> SUFFICES ASSUME NEW t \in Nodes, life'[t] # "unborn", ~Lost(t)', NEW c \in Lineage(t) \ {Root}, Told(c, t)'
               PROVE  \/ table'[Parent[c]][t] # None
                      \/ \E x \in On(chan'[<<c, Parent[c]>>]) : IsAdd(x, t)
    BY DEF TellsUp
  <2>1. n \notin Lineage(t)
    BY <1>2 DEF Lost
  <2>2. c \in Nodes /\ Parent[c] \in Nodes /\ c # n /\ Parent[c] # n
    BY <2>1, LineageLemma, RoutingAssumption
  <2>3. Parent[c] \in Neighbours(c)
    BY <2>2, LinkLemma DEF IsParent
  <2>4. chan'[<<c, Parent[c]>>] = chan[<<c, Parent[c]>>]
    BY <1>4, <2>2, <2>3
  <2>5. life[t] # "unborn" /\ ~Lost(t)
    <3>1. \A x \in Lineage(t) : x \in Nodes /\ x # n /\ life'[x] = life[x]
      BY <1>2, <2>1, LineageLemma
    <3> QED
      BY <3>1, LineageLemma DEF Lost
  <2>6. Told(c, t)
    BY <1>1 DEF Told
  <2> QED
    BY <1>1, <2>4, <2>5, <2>6 DEF ExactInv, TellsUp
<1>8. Withdraws'
  <2> SUFFICES ASSUME NEW p \in Nodes, NEW s \in Nodes, life'[p] = "alive", life'[s] = "alive", IsParent(p, s),
                      NEW t \in Nodes, t # s, table'[s][t] = None
               PROVE  Withdrawn(table'[p][t] = s, chan'[<<s, p>>], t)
    BY DEF Withdraws, alive
  <2>1. p # n /\ s # n /\ p \in alive /\ s \in alive
    BY <1>2 DEF alive
  <2>2. chan'[<<s, p>>] = chan[<<s, p>>]
    BY <1>4, <2>1, LinkLemma
  <2> QED
    BY <1>1, <2>1, <2>2 DEF ExactInv, Withdraws
<1> QED
  BY <1>5, <1>6, <1>7, <1>8 DEF ExactInv

\* The stream of a child disconnects.
LEMMA ChildDisconnectsExact ==
    ASSUME TypeOK, RoutesInv, ExactInv, NEW p \in Nodes, NEW n \in Nodes, ChildDisconnects(p, n) PROVE ExactInv'
<1>1. /\ IsParent(p, n) /\ p \in alive /\ n \notin alive /\ table[p][n] = n
      /\ learned[p][n] \in SUBSET Nodes
      /\ table' = [table EXCEPT ![p] = [t \in Nodes |->
                     IF table[p][t] = n \/ t \in learned[p][n] THEN None ELSE table[p][t]]]
      /\ learned' = [learned EXCEPT ![p][n] = {}]
      /\ UNCHANGED <<life, announced>>
  BY ChildDisconnectsLemma
<1>2. \A t \in Nodes : t \in learned[p][n] <=> table[p][t] = n
  BY <1>1 DEF ExactInv, Recorded
<1>3. \A a, t \in Nodes : table'[a][t] = IF a = p /\ table[p][t] = n THEN None ELSE table[a][t]
  BY <1>1, <1>2 DEF TypeOK
<1>4. \A a, s \in Nodes : learned'[a][s] = IF a = p /\ s = n THEN {} ELSE learned[a][s]
  BY <1>1 DEF TypeOK
<1>5. life[n] = "dead"
  BY <1>1 DEF RoutesInv, RoutesLead, Leads, alive, TypeOK
<1>6. Steady
  <2>1. ASSUME NEW t \in Nodes, table[p][t] = n PROVE Lost(t)'
    <3>1. n \in Lineage(t)
      <4>1. (n = t /\ IsParent(t, p)) \/ n \in Lineage(t)
        BY <2>1 DEF RoutesInv, RoutesLead, Leads
      <4> QED
        BY <4>1, LineageLemma
    <3> QED
      BY <1>1, <1>5, <3>1 DEF Lost
  <2> QED
    BY <1>1, <1>3, <2>1 DEF Steady
<1>7. Recorded'
  <2> SUFFICES ASSUME NEW a \in Nodes, NEW s \in Nodes, NEW t \in Nodes
               PROVE  t \in learned'[a][s] <=> table'[a][t] = s /\ IsParent(a, s)
    BY DEF Recorded
  <2>1. t \in learned[a][s] <=> table[a][t] = s /\ IsParent(a, s)
    BY DEF ExactInv, Recorded
  <2> QED
    BY <1>3, <1>4, <2>1, NoneAssumption
<1>8. FirstHand'
  BY <1>3, NoneAssumption DEF ExactInv, FirstHand
<1>9. PICK out : Reports(p, n, out)
  BY ChildReports
<1>10. /\ chan' = Write(chan, p, out)
       /\ \A s \in Nodes : out[s] \in Seq(Message)
       /\ \A s \in Nodes : \A x \in On(out[s]) : x.kind = "DEL_ROUTE"
       /\ \A t \in learned[p][n] : ParentStream(p) \in Nodes => \E x \in On(out[ParentStream(p)]) : IsDel(x, t)
  <2>1. \A t : Routing("DEL_ROUTE", t, p).kind = "DEL_ROUTE" /\ IsDel(Routing("DEL_ROUTE", t, p), t)
    BY DEF Routing, IsDel
  <2>2. chan' = Write(chan, p, out) /\ \A s \in Nodes : out[s] \in Seq(Message)
    BY <1>9 DEF Reports
  <2>3. \A s \in Nodes : \A x \in On(out[s]) : \E t \in learned[p][n] : x = Routing("DEL_ROUTE", t, p)
    BY <1>9 DEF Reports
  <2>4. \A t \in learned[p][n] : ParentStream(p) \in Nodes =>
          Routing("DEL_ROUTE", t, p) \in On(out[ParentStream(p)])
    BY <1>9 DEF Reports
  <2>5. \A s \in Nodes : \A x \in On(out[s]) : x.kind = "DEL_ROUTE"
    BY <2>1, <2>3
  <2>6. \A t \in learned[p][n] : ParentStream(p) \in Nodes => \E x \in On(out[ParentStream(p)]) : IsDel(x, t)
    BY <2>1, <2>4
  <2> QED
    BY <2>2, <2>5, <2>6
<1>11. Handler(p, None, out)
  BY <1>1, <1>3, <1>10 DEF Handler, Writes
<1>12. Follows(p, None, out)
  <2>1. \A t \in Nodes : table'[p][t] # None => table'[p][t] = table[p][t]
    BY <1>3
  <2>2. \A t \in Nodes : table'[p][t] = None /\ table[p][t] # None => t \in learned[p][n]
    BY <1>2, <1>3
  <2>3. \A u \in Nodes : IsParent(u, p) => u = ParentStream(p)
    BY <1>1, UpLemma
  <2> QED
    BY <1>10, <2>1, <2>2, <2>3 DEF Follows
<1> QED
  BY <1>6, <1>7, <1>8, <1>11, <1>12, HandlerExact

\* A route is learned from a child, once.
LEMMA AddRouteExact ==
    ASSUME TypeOK, RoutesInv, ExactInv, NEW n \in Nodes, NEW m \in Nodes, OnAddRoute(n, m) PROVE ExactInv'
<1>1. /\ m \in Neighbours(n) /\ n \in alive /\ table[n][m] = m /\ chan[<<m, n>>] # <<>>
      /\ Head(chan[<<m, n>>]).kind = "ADD_ROUTE"
      /\ UNCHANGED <<life, status>>
  BY DEF OnAddRoute, Incoming
<1>2. PICK y \in Message : /\ y = Head(chan[<<m, n>>]) /\ y \in On(chan[<<m, n>>]) /\ y.kind = "ADD_ROUTE"
                           /\ Read(n, m) \in Channels
  BY <1>1, ReadLemma
<1>3. PICK t \in Nodes : t = y.id
  BY <1>2, KindLemma
<1>4. Truthful(m, n, y) /\ n \in Neighbours(m)
  BY <1>1, <1>2, LinkLemma DEF RoutesInv, MessagesTruthful
<1>5. IsParent(n, m) /\ m \in Lineage(t) /\ t # m
  BY <1>2, <1>3, <1>4 DEF Truthful
<1>6. \A u \in Nodes : IsParent(n, u) /\ u \in Lineage(t) => u = m
  BY <1>5, Below
<1>7. m # None
  BY NoneAssumption
<1>8. \A u : (IsAdd(Head(chan[<<m, n>>]), u) <=> u = t) /\ ~IsDel(Head(chan[<<m, n>>]), u)
  BY <1>2, <1>3 DEF IsAdd, IsDel
<1>9. life[t] # "unborn"
  BY <1>1, <1>2, <1>3, <1>4 DEF ExactInv, Born
<1>10. CASE /\ chan' = Read(n, m) /\ UNCHANGED <<table, learned, announced>>
            /\ StreamById(n, t) # None /\ StreamById(n, t) # ParentStream(n)
  <2>1. PICK out : out = Nothing
    OBVIOUS
  <2>2. chan' = Write(Read(n, m), n, out)
    BY <1>2, <1>10, <2>1, WriteNothing
  <2>3. \A s \in Nodes : out[s] \in Seq(Message) /\ On(out[s]) = {}
    BY <2>1, NothingLemma
  <2>4. Handler(n, m, out)
    BY <1>1, <1>7, <1>10, <2>2, <2>3 DEF Handler, Writes
  <2>5. table[n][t] # None
    BY <1>10 DEF StreamById
  <2>6. Follows(n, m, out)
    BY <1>8, <1>10, <2>3, <2>5 DEF Follows
  <2>7. Steady
    BY <1>1, <1>10 DEF Steady
  <2>8. Recorded' /\ FirstHand'
    BY <1>10 DEF ExactInv, Recorded, FirstHand
  <2> QED
    BY <2>4, <2>6, <2>7, <2>8, HandlerExact
<1>11. CASE /\ learned' = [learned EXCEPT ![n][m] = @ \cup {t}]
            /\ table' = [table EXCEPT ![n][t] = m]
            /\ announced' = IF n = Root THEN announced \cup {t} ELSE announced
            /\ chan' = Write(Read(n, m), n, To({ParentStream(n)}, Routing("ADD_ROUTE", t, n)))
  <2>1. \A a, b \in Nodes : table'[a][b] = IF a = n /\ b = t THEN m ELSE table[a][b]
    BY <1>1, <1>11, TableSet DEF TypeOK, Tables
  <2>2. \A a, s \in Nodes : learned'[a][s] = IF a = n /\ s = m THEN learned[a][s] \cup {t} ELSE learned[a][s]
    BY <1>11 DEF TypeOK
  <2>3. Steady
    BY <1>1, <1>7, <1>11, <2>1 DEF Steady
  <2>4. Recorded'
    <3> SUFFICES ASSUME NEW a \in Nodes, NEW s \in Nodes, NEW u \in Nodes
                 PROVE  u \in learned'[a][s] <=> table'[a][u] = s /\ IsParent(a, s)
      BY DEF Recorded
    <3>1. u \in learned[a][s] <=> table[a][u] = s /\ IsParent(a, s)
      BY DEF ExactInv, Recorded
    <3>2. CASE a = n /\ u = t
      <4>1. u \in learned[a][s] => s = m
        BY <1>6, <3>2 DEF RoutesInv, LearnedBelow
      <4> QED
        BY <1>5, <2>1, <2>2, <3>2, <4>1
    <3>3. CASE ~(a = n /\ u = t)
      <4>1. table'[a][u] = table[a][u]
        BY <2>1, <3>3
      <4>2. CASE a = n /\ s = m
        <5>1. learned'[a][s] = learned[a][s] \cup {t} /\ u # t
          BY <2>2, <3>3, <4>2
        <5> QED
          BY <3>1, <4>1, <5>1
      <4>3. CASE ~(a = n /\ s = m)
        <5>1. learned'[a][s] = learned[a][s]
          BY <2>2, <4>3
        <5> QED
          BY <3>1, <4>1, <5>1
      <4> QED
        BY <4>2, <4>3
    <3> QED
      BY <3>2, <3>3
  <2>5. FirstHand'
    <3> SUFFICES ASSUME NEW a \in Nodes, NEW s \in Nodes, NEW u \in Nodes, table'[a][u] = s, IsParent(a, s)
                 PROVE  table'[a][s] = s
      BY DEF FirstHand
    <3>1. table[a][s] = s
      <4>1. CASE a = n /\ u = t
        BY <1>1, <2>1, <4>1
      <4>2. CASE ~(a = n /\ u = t)
        BY <2>1, <4>2 DEF ExactInv, FirstHand
      <4> QED
        BY <4>1, <4>2
    <3>2. ~(a = n /\ s = t)
      BY <1>5, <1>6, LineageLemma
    <3> QED
      BY <2>1, <3>1, <3>2
  <2>6. PICK msg \in Message : msg = Routing("ADD_ROUTE", t, n) /\ IsAdd(msg, t) /\ msg.id = t
    BY ReportLemma DEF Routing, IsAdd
  <2>7. PICK out : out = To({ParentStream(n)}, msg) /\ chan' = Write(Read(n, m), n, out)
    BY <1>11, <2>6
  <2>8. \A s \in Nodes : out[s] \in Seq(Message) /\ \A x \in On(out[s]) : x = msg /\ s \in {ParentStream(n)}
    BY <2>7, ToLemma
  <2>9. \A p \in Nodes : IsParent(p, n) => msg \in On(out[p])
    <3>1. ASSUME NEW p \in Nodes, IsParent(p, n) PROVE msg \in On(out[p])
      <4>1. p = ParentStream(n) /\ p # None
        BY <1>1, <3>1, UpLemma, NoneAssumption
      <4>2. out[p] = <<msg>>
        BY <2>7, <4>1 DEF To
      <4> QED
        BY <4>2, OnOne
    <3> QED
      BY <3>1
  <2>10. Handler(n, m, out)
    BY <1>1, <1>7, <2>1, <2>7, <2>8 DEF Handler, Writes
  <2>11. Follows(n, m, out)
    <3>1. \A b \in Nodes : \A x \in On(out[b]) : table'[n][x.id] # None /\ life[x.id] # "unborn"
      BY <1>7, <1>9, <2>1, <2>6, <2>8
    <3>2. \A u \in Nodes : table'[n][u] # table[n][u] => u = t /\ table'[n][u] = m
      BY <2>1
    <3> QED
      BY <1>5, <1>7, <1>8, <2>1, <2>6, <2>9, <3>1, <3>2 DEF Follows
  <2> QED
    BY <2>3, <2>4, <2>5, <2>10, <2>11, HandlerExact
<1> QED
  BY <1>2, <1>3, <1>10, <1>11 DEF OnAddRoute

\* A route is withdrawn, and the withdrawal passed on.
LEMMA DelRouteExact ==
    ASSUME TypeOK, RoutesInv, ExactInv, NEW n \in Nodes, NEW m \in Nodes, OnDelRoute(n, m) PROVE ExactInv'
<1>1. /\ m \in Neighbours(n) /\ n \in alive /\ table[n][m] = m /\ chan[<<m, n>>] # <<>>
      /\ Head(chan[<<m, n>>]).kind = "DEL_ROUTE"
      /\ UNCHANGED <<life, announced>>
  BY DEF OnDelRoute, Incoming
<1>2. PICK y \in Message : /\ y = Head(chan[<<m, n>>]) /\ y \in On(chan[<<m, n>>]) /\ y.kind = "DEL_ROUTE"
                           /\ Read(n, m) \in Channels
  BY <1>1, ReadLemma
<1>3. PICK t \in Nodes : t = y.id
  BY <1>2, KindLemma
<1>4. Truthful(m, n, y) /\ n \in Neighbours(m)
  BY <1>1, <1>2, LinkLemma DEF RoutesInv, MessagesTruthful
<1>5. /\ Lost(t)
      /\ IsParent(n, m) => t # m
      /\ IsParent(m, n) => t \notin Lineage(n)
  BY <1>2, <1>3, <1>4 DEF Truthful
<1>6. m # None
  BY NoneAssumption
<1>7. \A u : ~IsAdd(Head(chan[<<m, n>>]), u) /\ (IsDel(Head(chan[<<m, n>>]), u) <=> u = t)
  BY <1>2, <1>3 DEF IsAdd, IsDel
<1>8. CASE chan' = Read(n, m) /\ UNCHANGED <<table, learned, status>> /\ StreamById(n, t) # m
  <2>1. PICK out : out = Nothing
    OBVIOUS
  <2>2. chan' = Write(Read(n, m), n, out)
    BY <1>2, <1>8, <2>1, WriteNothing
  <2>3. \A s \in Nodes : out[s] \in Seq(Message) /\ On(out[s]) = {}
    BY <2>1, NothingLemma
  <2>4. Handler(n, m, out)
    BY <1>1, <1>6, <1>8, <2>2, <2>3 DEF Handler, Writes
  <2>5. table[n][t] # m
    BY <1>6, <1>8 DEF StreamById
  <2>6. Follows(n, m, out)
    BY <1>7, <1>8, <2>3, <2>5 DEF Follows
  <2>7. Steady
    BY <1>1, <1>8 DEF Steady
  <2>8. Recorded' /\ FirstHand'
    BY <1>8 DEF ExactInv, Recorded, FirstHand
  <2> QED
    BY <2>4, <2>6, <2>7, <2>8, HandlerExact
<1>9. CASE /\ StreamById(n, t) = m
           /\ learned' = [learned EXCEPT ![n][m] = @ \ {t}]
           /\ table' = [table EXCEPT ![n][t] = None]
           /\ chan' = Write(Read(n, m), n,
                            Withdrawal(n, [table EXCEPT ![n][t] = None], t,
                                       IF m = ParentStream(n) THEN None ELSE ParentStream(n)))
  <2>1. \A a, b \in Nodes : table'[a][b] = IF a = n /\ b = t THEN None ELSE table[a][b]
    <3>1. None \in Neighbours(n) \cup {None}
      OBVIOUS
    <3> QED
      BY <1>9, <3>1, TableSet DEF TypeOK, Tables
  <2>2. \A a, s \in Nodes : learned'[a][s] = IF a = n /\ s = m THEN learned[a][s] \ {t} ELSE learned[a][s]
    BY <1>9 DEF TypeOK
  <2>3. table[n][t] \in {None, m}
    BY <1>9 DEF StreamById
  <2>4. Steady
    <3>1. Lost(t)'
      BY <1>1, <1>5 DEF Lost
    <3> QED
      BY <1>1, <2>1, <3>1 DEF Steady
  <2>5. Recorded'
    <3> SUFFICES ASSUME NEW a \in Nodes, NEW s \in Nodes, NEW u \in Nodes
                 PROVE  u \in learned'[a][s] <=> table'[a][u] = s /\ IsParent(a, s)
      BY DEF Recorded
    <3>1. u \in learned[a][s] <=> table[a][u] = s /\ IsParent(a, s)
      BY DEF ExactInv, Recorded
    <3>2. s # None
      BY NoneAssumption
    <3>3. CASE a = n /\ u = t
      <4>1. table'[a][u] # s
        BY <2>1, <3>2, <3>3
      <4>2. CASE s = m
        <5>1. learned'[a][s] = learned[a][s] \ {t}
          BY <2>2, <3>3, <4>2
        <5> QED
          BY <3>3, <4>1, <5>1
      <4>3. CASE s # m
        <5>1. learned'[a][s] = learned[a][s] /\ table[a][u] # s
          BY <2>2, <2>3, <3>2, <3>3, <4>3
        <5> QED
          BY <3>1, <4>1, <5>1
      <4> QED
        BY <4>2, <4>3
    <3>4. CASE ~(a = n /\ u = t)
      <4>1. table'[a][u] = table[a][u]
        BY <2>1, <3>4
      <4>2. CASE a = n /\ s = m
        <5>1. learned'[a][s] = learned[a][s] \ {t} /\ u # t
          BY <2>2, <3>4, <4>2
        <5> QED
          BY <3>1, <4>1, <5>1
      <4>3. CASE ~(a = n /\ s = m)
        <5>1. learned'[a][s] = learned[a][s]
          BY <2>2, <4>3
        <5> QED
          BY <3>1, <4>1, <5>1
      <4> QED
        BY <4>2, <4>3
    <3> QED
      BY <3>3, <3>4
  <2>6. FirstHand'
    <3> SUFFICES ASSUME NEW a \in Nodes, NEW s \in Nodes, NEW u \in Nodes, table'[a][u] = s, IsParent(a, s)
                 PROVE  table'[a][s] = s
      BY DEF FirstHand
    <3>1. s # None
      BY NoneAssumption
    <3>2. table[a][s] = s
      <4>1. table[a][u] = s
        BY <2>1, <3>1
      <4> QED
        BY <4>1 DEF ExactInv, FirstHand
    <3>3. ~(a = n /\ s = t)
      BY <1>5, <2>3, <3>1, <3>2
    <3> QED
      BY <2>1, <3>2, <3>3
  <2>7. PICK up, tab, out : /\ up = IF m = ParentStream(n) THEN None ELSE ParentStream(n)
                            /\ out = Withdrawal(n, tab, t, up) /\ chan' = Write(Read(n, m), n, out)
    BY <1>9
  <2>8. \A s \in Nodes : /\ out[s] \in Seq(Message)
                         /\ \A x \in On(out[s]) : x = Routing("DEL_ROUTE", t, n)
    <3>1. \A s \in Nodes :
           /\ Withdrawal(n, tab, t, up)[s] \in Seq(Message)
           /\ \A x \in On(Withdrawal(n, tab, t, up)[s]) :
                x = Routing("DEL_ROUTE", t, n) /\ (s = up \/ s # ParentStream(n))
      BY WithdrawalLemma
    <3> QED
      BY <2>7, <3>1
  <2>9. Routing("DEL_ROUTE", t, n).kind = "DEL_ROUTE" /\ IsDel(Routing("DEL_ROUTE", t, n), t)
    BY DEF Routing, IsDel
  <2>10. Handler(n, m, out)
    BY <1>1, <1>6, <2>1, <2>7, <2>8 DEF Handler, Writes
  <2>11. ASSUME table[n][t] # None, NEW p \in Nodes, IsParent(p, n) PROVE \E x \in On(out[p]) : IsDel(x, t)
    <3>1. p = ParentStream(n)
      BY <1>1, <2>11, UpLemma
    <3>2. m # p
      <4>1. ASSUME m = p PROVE FALSE
        <5>1. table[n][t] = m /\ IsParent(m, n)
          BY <2>3, <2>11, <4>1
        <5>2. m = t
          BY <5>1, LinkLemma DEF RoutesInv, RoutesLead, Leads
        <5>3. m \in Lineage(n)
          <6>1. n \in Nodes \ {Root} /\ Parent[n] = m
            BY <5>1 DEF IsParent
          <6> QED
            BY <6>1, LineageLemma
        <5> QED
          BY <1>5, <5>1, <5>2, <5>3
      <4> QED
        BY <4>1
    <3>3. up = p
      BY <2>7, <3>1, <3>2
    <3>4. Routing("DEL_ROUTE", t, n) \in On(Withdrawal(n, tab, t, up)[up])
      BY <3>3, WithdrawalUp
    <3> QED
      BY <2>7, <2>9, <3>3, <3>4
  <2>12. Follows(n, m, out)
    <3>1. \A u \in Nodes : table'[n][u] # table[n][u] => u = t
      BY <2>1
    <3>2. table'[n][t] = None
      BY <2>1
    <3>3. \A b \in Nodes : \A x \in On(out[b]) : x.kind # "ADD_ROUTE"
      BY <2>8, <2>9
    <3> QED
      BY <1>6, <1>7, <2>11, <3>1, <3>2, <3>3 DEF Follows
  <2> QED
    BY <2>4, <2>5, <2>6, <2>10, <2>12, HandlerExact
<1> QED
  BY <1>2, <1>3, <1>8, <1>9 DEF OnDelRoute

\* A new context is announced.
LEMMA ConnectExact ==
    ASSUME TypeOK, RoutesInv, ExactInv, NEW p \in Nodes, NEW n \in Nodes, Connect(p, n) PROVE ExactInv'
<1>1. /\ n # Root /\ Parent[n] = p /\ IsParent(p, n) /\ p \in alive /\ life[n] = "unborn"
      /\ life' = [life EXCEPT ![n] = "alive"]
      /\ table' = Registered(p, n)
      /\ learned' = [learned EXCEPT ![p][n] = {n}]
  BY DEF Connect, IsParent
<1>2. \A a, b \in Nodes : table'[a][b] = IF a = p /\ b = n THEN n
                                        ELSE IF a = n /\ b = p THEN p ELSE table[a][b]
  BY <1>1, TableConnect DEF TypeOK, Tables
<1>3. \A x \in Nodes : life'[x] = IF x = n THEN "alive" ELSE life[x]
  BY <1>1 DEF TypeOK
<1>4. \A a, s \in Nodes : learned'[a][s] = IF a = p /\ s = n THEN {n} ELSE learned[a][s]
  BY <1>1 DEF TypeOK
<1>5. p # n /\ p # None /\ n # None /\ life[p] = "alive"
  BY <1>1, LinkLemma, NoneAssumption DEF alive
<1>6. /\ \A a \in Nodes : table[a][n] = None
      /\ \A a, t \in Nodes : table[a][t] # n
      /\ \A s, t \in Nodes : IsParent(n, s) => table[n][t] # s /\ life[s] = "unborn"
  <2>1. \A a \in Nodes : table[a][n] = None
    BY <1>1 DEF ExactInv, Born
  <2>2. \A a, t \in Nodes : table[a][t] # n
    BY <1>1 DEF RoutesInv, RoutesLead, Leads
  <2>3. ASSUME NEW s \in Nodes, IsParent(n, s) PROVE life[s] = "unborn"
    <3>1. s \in Nodes \ {Root} /\ Parent[s] = n
      BY <2>3 DEF IsParent
    <3> QED
      BY <1>1, <3>1 DEF ExactInv, Born
  <2>4. \A s, t \in Nodes : IsParent(n, s) => table[n][t] # s
    BY <2>3 DEF RoutesInv, RoutesLead, Leads
  <2> QED
    BY <2>1, <2>2, <2>3, <2>4
<1>7. PICK msg \in Message : msg = Routing("ADD_ROUTE", n, p) /\ msg.kind = "ADD_ROUTE" /\ msg.id = n
  BY ReportLemma DEF Routing
<1>8. PICK out : out = To({ParentStream(p)}, msg) /\ chan' = Write(chan, p, out)
  BY <1>7 DEF Connect, Announcement
<1>9. \A s \in Nodes : out[s] \in Seq(Message) /\ \A x \in On(out[s]) : x = msg /\ s \in {ParentStream(p)}
  BY <1>8, ToLemma
<1>10. Delivered(p, None, out)
  BY <1>8, <1>9, WritesDeliver DEF Writes
<1>11. ASSUME NEW a \in Nodes, NEW b \in Nodes, b \in Neighbours(a)
       PROVE  /\ chan[<<a, b>>] \in Seq(Message)
              /\ a # p => chan'[<<a, b>>] = chan[<<a, b>>]
              /\ chan'[<<a, b>>] \in {chan[<<a, b>>], chan[<<a, b>>] \o out[b]}
              /\ On(chan[<<a, b>>]) \subseteq On(chan'[<<a, b>>])
              /\ \A x \in On(chan'[<<a, b>>]) : x \in On(chan[<<a, b>>]) \/ x = msg
  <2>1. PICK q \in Seq(Message) : q = chan[<<a, b>>]
    BY <1>10, <1>11 DEF Delivered
  <2>2. a # p => chan'[<<a, b>>] = q
    BY <1>10, <1>11, <2>1, NoneAssumption DEF Delivered
  <2>3. chan'[<<a, b>>] = q \/ chan'[<<a, b>>] = q \o out[b]
    BY <1>10, <1>11, <2>1, NoneAssumption DEF Delivered
  <2>4. On(q \o out[b]) = On(q) \cup On(out[b])
    BY <1>9, <2>1, OnConcat
  <2> QED
    BY <1>9, <2>1, <2>2, <2>3, <2>4
<1>12. Born'
  <2>1. \A a \in Nodes \ {Root} : life'[a] # "unborn" => life'[Parent[a]] # "unborn"
    BY <1>1, <1>3, <1>5, RoutingAssumption DEF ExactInv, Born
  <2>2. \A a, t \in Nodes : table'[a][t] # None => life'[t] # "unborn"
    BY <1>2, <1>3, <1>5 DEF ExactInv, Born
  <2>3. ASSUME NEW a \in Nodes, NEW b \in Nodes, b \in Neighbours(a), life'[a] = "unborn"
        PROVE  chan'[<<a, b>>] = <<>>
    <3>1. a # p /\ life[a] = "unborn"
      BY <1>3, <1>5, <2>3
    <3> QED
      BY <1>11, <2>3, <3>1 DEF ExactInv, Born
  <2>4. ASSUME NEW a \in Nodes, NEW b \in Nodes, b \in Neighbours(a), NEW x \in On(chan'[<<a, b>>]),
               x.kind = "ADD_ROUTE"
        PROVE  life'[x.id] # "unborn"
    <3>1. CASE x = msg
      BY <1>3, <1>7, <3>1
    <3>2. CASE x \in On(chan[<<a, b>>])
      <4>1. x.id \in Nodes /\ life[x.id] # "unborn"
        BY <2>4, <3>2, InFlight, KindLemma DEF ExactInv, Born
      <4> QED
        BY <1>3, <4>1
    <3> QED
      BY <1>11, <2>4, <3>1, <3>2
  <2> QED
    BY <2>1, <2>2, <2>3, <2>4 DEF Born
<1>13. Recorded'
  <2> SUFFICES ASSUME NEW a \in Nodes, NEW s \in Nodes, NEW t \in Nodes
               PROVE  t \in learned'[a][s] <=> table'[a][t] = s /\ IsParent(a, s)
    BY DEF Recorded
  <2>1. t \in learned[a][s] <=> table[a][t] = s /\ IsParent(a, s)
    BY DEF ExactInv, Recorded
  <2>2. s # None
    BY NoneAssumption
  <2>3. CASE a = p /\ s = n
    <3>1. learned'[a][s] = {n}
      BY <1>4, <2>3
    <3>2. table'[a][t] = n <=> t = n
      BY <1>2, <1>5, <1>6, <2>3
    <3> QED
      BY <1>1, <2>3, <3>1, <3>2
  <2>4. CASE ~(a = p /\ s = n)
    <3>1. learned'[a][s] = learned[a][s]
      BY <1>4, <2>4
    <3>2. CASE a = p /\ t = n
      BY <1>2, <1>6, <2>1, <2>2, <2>4, <3>1, <3>2
    <3>3. CASE a = n
      <4>1. IsParent(a, s) => s # p /\ table[n][t] # s
        BY <1>1, <1>6, <3>3, LinkLemma
      <4> QED
        BY <1>2, <1>5, <2>1, <3>1, <3>3, <4>1
    <3>4. CASE ~(a = p /\ t = n) /\ a # n
      BY <1>2, <2>1, <3>1, <3>4
    <3> QED
      BY <3>2, <3>3, <3>4
  <2> QED
    BY <2>3, <2>4
<1>14. FirstHand'
  <2> SUFFICES ASSUME NEW a \in Nodes, NEW s \in Nodes, NEW t \in Nodes, table'[a][t] = s, IsParent(a, s)
               PROVE  table'[a][s] = s
    BY DEF FirstHand
  <2>1. CASE a = n
    <3>1. s # p /\ table[n][t] # s
      BY <1>1, <1>6, <2>1, LinkLemma
    <3> QED
      BY <1>2, <1>5, <2>1, <3>1
  <2>2. CASE a = p /\ s = n
    BY <1>2, <2>2
  <2>3. CASE a # n /\ ~(a = p /\ s = n)
    <3>1. table[a][t] = s
      BY <1>2, <2>3
    <3>2. table[a][s] = s
      BY <3>1 DEF ExactInv, FirstHand
    <3> QED
      BY <1>2, <2>3, <3>2
  <2> QED
    BY <2>1, <2>2, <2>3
<1>15. TellsUp'
  <2> SUFFICES ASSUME NEW t \in Nodes, life'[t] # "unborn", ~Lost(t)', NEW c \in Lineage(t) \ {Root}, Told(c, t)'
               PROVE  \/ table'[Parent[c]][t] # None
                      \/ \E x \in On(chan'[<<c, Parent[c]>>]) : IsAdd(x, t)
    BY DEF TellsUp
  <2>1. PICK g \in Nodes : g = Parent[c] /\ c \in Nodes /\ g \in Lineage(t) /\ g \in Neighbours(c) /\ IsParent(g, c)
    <3>1. c \in Nodes /\ Parent[c] \in Nodes /\ Parent[c] \in Lineage(t)
      BY LineageLemma, RoutingAssumption
    <3>2. IsParent(Parent[c], c)
      BY DEF IsParent
    <3> QED
      BY <3>1, <3>2, LinkLemma
  <2>2. CASE c = n /\ t = n
    BY <1>1, <1>2, <1>5, <2>2
  <2>3. CASE c = n /\ t = p
    <3>1. n \in Lineage(Parent[n]) /\ n \in Nodes \ {Root}
      BY <1>1, <2>3
    <3> QED
      BY <3>1, NoCycle
  <2>4. CASE c = p /\ t = n
    <3>1. life[g] # "dead"
      BY <1>1, <1>3, <2>1 DEF Lost
    <3>2. life[g] # "unborn"
      BY <1>5, <2>1, <2>4 DEF ExactInv, Born
    <3>3. g \in alive
      BY <3>1, <3>2 DEF TypeOK, alive
    <3>4. g = ParentStream(p) /\ g # None
      BY <1>1, <2>1, <2>4, UpLemma, NoneAssumption
    <3>5. PICK q \in Seq(Message) : q = chan[<<c, g>>] /\ chan'[<<c, g>>] = q \o out[g]
      BY <1>10, <2>1, <2>4, <3>3, ZenonT(60) DEF Delivered
    <3>6. out[g] = <<msg>> /\ out[g] \in Seq(Message)
      BY <1>8, <1>9, <3>4 DEF To
    <3>7. msg \in On(chan'[<<c, g>>])
      <4>1. PICK o \in Seq(Message) : o = out[g] /\ o = <<msg>>
        BY <3>6
      <4>2. msg \in On(o)
        BY <4>1, OnOne
      <4>3. On(q \o o) = On(q) \cup On(o)
        BY OnConcat
      <4> QED
        BY <3>5, <4>1, <4>2, <4>3
    <3> QED
      BY <1>7, <2>1, <2>4, <3>7 DEF IsAdd
  <2>5. CASE t = n /\ c # n /\ c # p
    BY <1>2, <1>6, <2>1, <2>5 DEF Told
  <2>6. CASE t # n /\ ~(c = n /\ t = p)
    <3>1. Told(c, t)
      BY <1>2, <2>1, <2>6 DEF Told
    <3>2. life[t] # "unborn" /\ ~Lost(t)
      <4>1. \A x \in Lineage(t) : x \in Nodes /\ (life[x] = "dead" => life'[x] = "dead")
        BY <1>1, <1>3, LineageLemma
      <4> QED
        BY <1>3, <2>6, <4>1 DEF Lost
    <3>3. table[g][t] # None \/ \E x \in On(chan[<<c, g>>]) : IsAdd(x, t)
      BY <2>1, <3>1, <3>2 DEF ExactInv, TellsUp
    <3>4. On(chan[<<c, g>>]) \subseteq On(chan'[<<c, g>>])
      BY <1>11, <2>1
    <3>5. table[g][t] # None => table'[g][t] # None
      BY <1>2, <1>5, <2>1
    <3> QED
      BY <2>1, <3>3, <3>4, <3>5
  <2> QED
    BY <2>2, <2>3, <2>4, <2>5, <2>6
<1>16. Withdraws'
  <2> SUFFICES ASSUME NEW g \in Nodes, NEW s \in Nodes, life'[g] = "alive", life'[s] = "alive", IsParent(g, s),
                      NEW t \in Nodes, t # s, table'[s][t] = None
               PROVE  Withdrawn(table'[g][t] = s, chan'[<<s, g>>], t)
    BY DEF Withdraws, alive
  <2>1. s # g /\ g \in Neighbours(s)
    BY LinkLemma
  <2>2. CASE s = n
    <3>1. g = p
      BY <1>1, <2>2 DEF IsParent
    <3>2. chan'[<<s, g>>] = <<>>
      <4>1. chan'[<<s, g>>] = chan[<<s, g>>]
        BY <1>5, <1>11, <2>1, <2>2
      <4> QED
        BY <1>1, <2>1, <2>2, <4>1 DEF ExactInv, Born
    <3>3. table'[g][t] # s
      BY <1>2, <1>5, <1>6, <2>2, <3>1
    <3>4. PICK known \in BOOLEAN : known = (table'[g][t] = s) /\ known = FALSE
      BY <3>3
    <3> QED
      BY <3>2, <3>4, WithdrawnEmpty
  <2>3. CASE s # n
    <3>1. g # n
      BY <1>3, <1>6, <2>3
    <3>2. g \in alive /\ s \in alive
      BY <1>3, <2>3, <3>1 DEF alive
    <3>3. table[s][t] = None
      BY <1>2, <1>5, <2>3
    <3>4. table'[g][t] = s <=> table[g][t] = s
      BY <1>2, <1>6, <2>3, <3>1, NoneAssumption
    <3>5. PICK known \in BOOLEAN : known = (table'[g][t] = s) /\ known = (table[g][t] = s)
      BY <3>4
    <3>6. PICK q \in Seq(Message) : q = chan[<<s, g>>]
      BY <1>11, <2>1
    <3>7. Withdrawn(known, q, t)
      BY <3>2, <3>3, <3>5, <3>6 DEF ExactInv, Withdraws
    <3>8. CASE chan'[<<s, g>>] = q
      BY <3>5, <3>7, <3>8
    <3>9. CASE chan'[<<s, g>>] # q
      <4>1. s = p /\ chan'[<<s, g>>] = q \o out[g] /\ out[g] \in Seq(Message)
        BY <1>9, <1>11, <2>1, <3>6, <3>9
      <4>2. t # n
        BY <1>2, <1>5, <4>1
      <4>3. \A x \in On(out[g]) : ~IsAdd(x, t)
        BY <1>7, <1>9, <4>2 DEF IsAdd
      <4>4. Withdrawn(known, q \o out[g], t)
        BY <3>7, <4>1, <4>3, WithdrawnAppend
      <4> QED
        BY <3>5, <4>1, <4>4
    <3> QED
      BY <3>8, <3>9
  <2> QED
    BY <2>2, <2>3
<1> QED
  BY <1>12, <1>13, <1>14, <1>15, <1>16 DEF ExactInv

\* Nobody knows anybody.
LEMMA ExactInit == Init => ExactInv
<1> SUFFICES ASSUME Init PROVE ExactInv
  OBVIOUS
<1>1. /\ \A n, t \in Nodes : table[n][t] = None /\ learned[n][t] = {}
      /\ \A e \in Links : chan[e] = <<>>
      /\ \A n \in Nodes : life[n] # "unborn" => n = Root
  BY DEF Init
<1>2. \A a, b \in Nodes : b \in Neighbours(a) => chan[<<a, b>>] = <<>> /\ On(chan[<<a, b>>]) = {}
  BY <1>1, LinkLemma, OnEmpty
<1>3. Born
  BY <1>1, <1>2 DEF Born
<1>4. Recorded /\ FirstHand
  BY <1>1, NoneAssumption DEF Recorded, FirstHand
<1>5. TellsUp
  BY <1>1, LineageOfRoot DEF TellsUp
<1>6. Withdraws
  <2>1. \A a, b \in Nodes : ~(IsParent(a, b) /\ IsParent(b, a))
    BY LinkLemma
  <2>2. \A x \in alive : x = Root /\ x \in Nodes
    BY <1>1 DEF alive
  <2> QED
    BY <2>1, <2>2 DEF Withdraws
<1> QED
  BY <1>3, <1>4, <1>5, <1>6 DEF ExactInv

\* Every step keeps what is not settled on its way.
LEMMA ExactStep == ASSUME TypeOK, RoutesInv, ExactInv, [Next]_vars PROVE ExactInv'
<1>1. ASSUME NEW n \in Nodes, Die(n) PROVE ExactInv'
  BY <1>1, GoneExact DEF Die
<1>2. ASSUME NEW n \in Nodes, NEW m \in Nodes, Connect(m, n) PROVE ExactInv'
  BY <1>2, ConnectExact
<1>3. ASSUME NEW n \in Nodes, NEW m \in Nodes, OrphanDies(n, m) PROVE ExactInv'
  BY <1>3, GoneExact DEF OrphanDies, EndOfFile
<1>4. ASSUME NEW n \in Nodes, NEW m \in Nodes, ChildDisconnects(n, m) PROVE ExactInv'
  BY <1>4, ChildDisconnectsExact
<1>5. ASSUME NEW n \in Nodes, NEW m \in Nodes, OnAddRoute(n, m) PROVE ExactInv'
  BY <1>5, AddRouteExact
<1>6. ASSUME NEW n \in Nodes, NEW m \in Nodes, OnDelRoute(n, m) PROVE ExactInv'
  BY <1>6, DelRouteExact
<1>7. ASSUME NEW n \in Nodes, NEW m \in Nodes, OnMessage(n, m) PROVE ExactInv'
  BY <1>7, OnMessageExact
<1>8. ASSUME NEW r \in Requests, Send(r) \/ Reply(r) PROVE ExactInv'
  BY <1>8, SendExact, ReplyExact
<1>9. CASE UNCHANGED vars
  <2>1. UNCHANGED <<life, table, learned, chan>>
    BY <1>9 DEF vars
  <2>2. Born' /\ Recorded' /\ FirstHand'
    BY <2>1 DEF ExactInv, Born, Recorded, FirstHand
  <2>3. TellsUp'
    BY <2>1 DEF ExactInv, TellsUp, Lost, Told
  <2>4. Withdraws'
    BY <2>1 DEF ExactInv, Withdraws, alive
  <2> QED
    BY <2>2, <2>3, <2>4 DEF ExactInv
<1> QED
  BY <1>1, <1>2, <1>3, <1>4, <1>5, <1>6, <1>7, <1>8, <1>9 DEF Next

\* When nothing is on its way, the routes are exact.
LEMMA ExactWhenQuiet == ASSUME TypeOK, RoutesInv, ExactInv PROVE RoutesExactWhenQuiet
<1> SUFFICES ASSUME Quiet, NEW n \in alive, NEW t \in Nodes \ {Root}
             PROVE  /\ n # t /\ t \in alive /\ n \in Lineage(t) =>
                         table[n][t] \in Lineage(t) /\ IsParent(n, table[n][t])
                    /\ table[n][t] # None =>
                         t \in alive \ {n} /\ (IsParent(t, n) \/ n \in Lineage(t))
                    /\ \A s \in Nodes : t \in learned[n][s] <=> table[n][t] = s /\ IsParent(n, s)
  BY DEF RoutesExactWhenQuiet
<1>1. n \in Nodes /\ life[n] = "alive" /\ None \notin Nodes
  BY NoneAssumption DEF alive
<1>2. \A a, b \in Nodes : b \in Neighbours(a) => chan[<<a, b>>] = <<>> /\ On(chan[<<a, b>>]) = {}
  BY LinkLemma, OnEmpty DEF Quiet
<1>3. \A a \in alive : \A b \in Nodes : b \in Neighbours(a) /\ table[a][b] = b => b \in alive
  <2>1. ASSUME NEW a \in alive, NEW b \in Nodes, b \in Neighbours(a), table[a][b] = b, b \notin alive PROVE FALSE
    <3>1. a \in Nodes /\ a \in Neighbours(b)
      BY <2>1, LinkLemma DEF alive
    <3>2. EndOfFile(a, b)
      BY <1>2, <2>1, <3>1 DEF EndOfFile
    <3>3. PICK e \in Links : e = <<b, a>> /\ e[1] = b /\ e[2] = a
      BY <2>1, <3>1, LinkLemma
    <3> QED
      BY <3>2, <3>3 DEF Quiet
  <2> QED
    BY <2>1
<1>4. \A c \in alive \ {Root} : Parent[c] \in alive
  <2>1. ASSUME NEW c \in alive \ {Root} PROVE Parent[c] \in alive
    <3>1. c \in Nodes /\ Parent[c] \in Nodes /\ IsParent(Parent[c], c)
      BY RoutingAssumption DEF alive, IsParent
    <3>2. table[c][Parent[c]] = Parent[c]
      BY DEF RoutesInv, Linked
    <3> QED
      BY <1>3, <3>1, <3>2, LinkLemma
  <2> QED
    BY <2>1
<1>5. ASSUME n # t, t \in alive, n \in Lineage(t)
      PROVE  table[n][t] \in Lineage(t) /\ IsParent(n, table[n][t])
  <2>1. Lineage(t) \subseteq alive
    <3>1. alive \in SUBSET Nodes /\ \A c \in alive \ {Root} : Parent[c] \in alive
      BY <1>4 DEF alive
    <3> QED
      BY <1>5, <3>1, LineageLemma
  <2>2. life[t] # "unborn" /\ ~Lost(t)
    <3>1. \A x \in Lineage(t) : life[x] = "alive"
      BY <2>1 DEF alive
    <3> QED
      BY <3>1, LineageLemma DEF Lost
  <2> DEFINE S == {c \in Lineage(t) : Told(c, t)}
  <2>3. S \in SUBSET Nodes /\ t \in S
    BY LineageLemma DEF Told
  <2>4. ASSUME NEW c \in S \ {Root} PROVE Parent[c] \in S
    <3>1. /\ c \in Nodes \ {Root} /\ c \in Lineage(t) /\ Told(c, t)
          /\ Parent[c] \in Nodes /\ Parent[c] \in Lineage(t)
      BY <2>3, LineageLemma, RoutingAssumption
    <3>2. Parent[c] \in Neighbours(c)
      BY <3>1, LinkLemma DEF IsParent
    <3>3. table[Parent[c]][t] # None
      BY <1>2, <2>2, <3>1, <3>2 DEF ExactInv, TellsUp
    <3> QED
      BY <3>1, <3>3 DEF Told
  <2>5. n \in S
    <3> HIDE DEF S
    <3>1. Lineage(t) \subseteq S
      BY <2>3, <2>4, LineageLemma
    <3> QED
      BY <1>5, <3>1
  <2>6. table[n][t] # None
    BY <1>5, <2>5 DEF Told
  <2>7. PICK s \in Nodes : s = table[n][t]
    BY <1>1, <2>6 DEF TypeOK
  <2>8. (s = t /\ IsParent(t, n)) \/ (IsParent(n, s) /\ s \in Lineage(t))
    BY <1>1, <2>7 DEF RoutesInv, RoutesLead, Leads
  <2>9. ~IsParent(t, n)
    <3>1. ASSUME IsParent(t, n) PROVE FALSE
      <4>1. n \in Nodes \ {Root} /\ Parent[n] = t
        BY <1>1, <3>1 DEF IsParent
      <4> QED
        BY <1>5, <4>1, NoCycle
    <3> QED
      BY <3>1
  <2> QED
    BY <2>7, <2>8, <2>9
<1>6. ASSUME t \notin alive, table[n][t] # None PROVE FALSE
  <2> DEFINE knows(x) == x \in alive /\ table[x][t] # None
             S == {x \in Lineage(t) : ~knows(x)}
  <2>1. ASSUME NEW x \in Nodes, knows(x)
        PROVE  \E s \in Nodes : IsParent(x, s) /\ s \in Lineage(t) /\ knows(s)
    <3>1. PICK s \in Nodes : s = table[x][t]
      BY <1>1, <2>1 DEF TypeOK
    <3>2. \/ s = t /\ IsParent(t, x)
          \/ IsParent(x, s) /\ s \in Lineage(t)
      BY <3>1 DEF RoutesInv, RoutesLead, Leads
    <3>3. CASE s = t /\ IsParent(t, x)
      BY <1>3, <1>6, <2>1, <3>1, <3>3, LinkLemma
    <3>4. CASE IsParent(x, s) /\ s \in Lineage(t)
      <4>1. table[x][s] = s
        BY <3>1, <3>4 DEF ExactInv, FirstHand
      <4>2. s \in alive
        BY <1>3, <2>1, <3>4, <4>1, LinkLemma
      <4>3. t # s
        BY <1>6, <4>2
      <4>4. table[s][t] # None
        <5>1. ASSUME table[s][t] = None PROVE FALSE
          <6>1. Withdrawn(table[x][t] = s, chan[<<s, x>>], t)
            BY <2>1, <3>4, <4>2, <4>3, <5>1 DEF ExactInv, Withdraws
          <6>2. x \in Neighbours(s)
            BY <3>4, LinkLemma
          <6>3. chan[<<s, x>>] = <<>>
            BY <1>2, <6>2
          <6>4. \E j \in 1..Len(<<>>) : TRUE
            BY <3>1, <6>1, <6>3 DEF Withdrawn
          <6> QED
            BY <6>4
        <5> QED
          BY <5>1
      <4> QED
        BY <3>4, <4>2, <4>4
    <3> QED
      BY <3>2, <3>3, <3>4
  <2>2. S \in SUBSET Nodes /\ t \in S
    BY <1>6, LineageLemma
  <2>3. ASSUME NEW c \in S \ {Root} PROVE Parent[c] \in S
    <3>1. c \in Nodes /\ c \in Lineage(t) /\ ~knows(c) /\ Parent[c] \in Lineage(t) /\ Parent[c] \in Nodes
      BY <2>2, LineageLemma, RoutingAssumption
    <3>2. IsParent(Parent[c], c)
      BY DEF IsParent
    <3>3. ASSUME knows(Parent[c]) PROVE FALSE
      <4> HIDE DEF knows, S
      <4>1. PICK s \in Nodes : IsParent(Parent[c], s) /\ s \in Lineage(t) /\ knows(s)
        BY <2>1, <3>1, <3>3
      <4>2. s = c
        BY <3>1, <3>2, <4>1, Below
      <4> QED
        BY <3>1, <4>1, <4>2
    <3> QED
      BY <3>1, <3>3
  <2>4. PICK s \in Nodes : IsParent(n, s) /\ s \in Lineage(t) /\ knows(s)
    BY <1>1, <1>6, <2>1
  <2>5. s \in S
    <3> HIDE DEF S, knows
    <3>1. Lineage(t) \subseteq S
      BY <2>2, <2>3, LineageLemma
    <3> QED
      BY <2>4, <3>1
  <2> QED
    BY <2>4, <2>5
<1>7. \A s \in Nodes : t \in learned[n][s] <=> table[n][t] = s /\ IsParent(n, s)
  BY <1>1 DEF ExactInv, Recorded
<1>8. ASSUME table[n][t] # None PROVE t # n /\ (IsParent(t, n) \/ n \in Lineage(t))
  <2>1. PICK s \in Nodes : s = table[n][t]
    BY <1>1, <1>8 DEF TypeOK
  <2>2. (s = t /\ IsParent(t, n)) \/ (IsParent(n, s) /\ s \in Lineage(t))
    BY <1>1, <2>1 DEF RoutesInv, RoutesLead, Leads
  <2>3. IsParent(t, n) => t # n
    BY <1>1, LinkLemma
  <2>4. IsParent(n, s) /\ s \in Lineage(t) => t # n /\ n \in Lineage(t)
    BY <1>1, <2>1, Below
  <2> QED
    BY <2>2, <2>3, <2>4
<1> QED
  BY <1>5, <1>6, <1>7, <1>8

\* In every tree, whatever the order in which contexts connected and died and their
\* ADD_ROUTE, DEL_ROUTE and end-of-file were read: once nothing is in flight, a context
\* that runs has routes to exactly its parent and the running contexts below, each over the
\* stream that leads there, and RouteMonitor's record of a stream is the routes over it.
THEOREM RoutesSettleExactly == Spec => []RoutesExactWhenQuiet
<1>1. Init => TypeOK /\ RoutesInv /\ ExactInv
  BY TypesInit, RoutesInit, ExactInit
<1>2. TypeOK /\ RoutesInv /\ ExactInv /\ [Next]_vars => TypeOK' /\ RoutesInv' /\ ExactInv'
  BY TypesStep, RoutesStep, ExactStep
<1>3. TypeOK /\ RoutesInv /\ ExactInv => RoutesExactWhenQuiet
  BY ExactWhenQuiet
<1> QED
  BY <1>1, <1>2, <1>3, PTL DEF Spec
=============================================================================
