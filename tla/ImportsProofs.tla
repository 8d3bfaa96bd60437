--------------------------- MODULE ImportsProofs ---------------------------
(***************************************************************************)
(* Theorems about Imports, for any tree of contexts, any modules, resources*)
(* and scripts, and any number of deaths: types; that no request is        *)
(* forgotten; and that what a stream is on record for having been sent is  *)
(* true of its other end.                                                  *)
(***************************************************************************)
EXTENDS Imports, FiniteSetTheorems, SequenceTheorems, TLAPS

(***************************************************************************)
(* The inductive invariant.                                                *)
(***************************************************************************)
LoadMessage == [kind : {"LOAD"}, item : Items, answer : {"good", "absent"}]
ForwardMessage == [kind : {"FORWARD"}, item : Modules, target : Children]
DownMessage == LoadMessage \cup ForwardMessage
GetMessage == [kind : {"GET"}, item : Items]

\* What is on the links, seen from the children.
ChanOK(ch) ==
    /\ ch = [e \in Links |-> ch[e]]
    /\ \A c \in Children : ch[Down(c)] \in Seq(DownMessage) /\ ch[Up(c)] \in Seq(GetMessage)

IsLoad(x, m) == x.kind = "LOAD" /\ x.item = m

\* An answer about m is on its way; there is at most one.
Named(q, m) == \E i \in 1..Len(q) : IsLoad(q[i], m)
Single(q, m) == \A i, j \in 1..Len(q) : IsLoad(q[i], m) /\ IsLoad(q[j], m) => i = j

\* What q carries towards a child that knows what "known" says, and that was sent s
\* according to its parent.
RecordTrue(q, known, s) ==
    /\ \A m \in Modules : m \in s => known[m] # "none" \/ Named(q, m)
    /\ \A m \in Modules \ Failing :
        /\ known[m] # "none" \/ Named(q, m) => m \in s
        /\ ~(known[m] # "none" /\ Named(q, m))
        /\ Single(q, m)

\* A FORWARD comes after the module it names.
InOrder(q, known) ==
    \A i \in 1..Len(q) :
        q[i].kind = "FORWARD" =>
            known[q[i].item] # "none" \/ \E j \in 1..(i - 1) : IsLoad(q[j], q[i].item)

\* A request for m is on its way.
Asked(u, m) == \E i \in 1..Len(u) : u[i] = Get(m)

Both(c) == c \in alive /\ Parent[c] \in alive

Scripts == \A t \in Threads : state[t] # "run" => at[t] <= Len(Script[t])

\* A thread is called back for what it waits for; a child, by its parent.
Waiters ==
    \A c \in Children, m \in Items, t \in Threads :
        t \in callbacks[c][m] <=> state[t] = "wait" /\ c = Home[t] /\ m = Wanted(t)

Callers ==
    \A c \in Children, m \in Items :
        \A k \in callbacks[c][m] : k \in Children => Parent[k] = c

\* A context that lives has not been disconnected.
Connected == \A c \in Children : c \in alive => c \in linked

\* Nobody waits for what is held.
Pending == \A c \in Children, m \in Items : InFlight(c, m) => ~Held(c, m)

\* The master does not record that a lookup failed.
RootSent == \A c \in Children : Parent[c] = Root => sent[c] \cap Failing = {}

Records == \A c \in Children : Both(c) => RecordTrue(chan[Down(c)], cache[c], sent[c])

Orders == \A c \in Children : c \in alive => InOrder(chan[Down(c)], cache[c])

Requested ==
    \A c \in Children, m \in Items :
        InFlight(c, m) /\ Both(c) /\ ~Unanswerable(m) =>
            \/ Asked(chan[Up(c)], m)
            \/ Parent[c] # Root /\ c \in callbacks[Parent[c]][m]
            \/ Named(chan[Down(c)], m)

\* TypeOK, with what is on the links seen from the children.
Types ==
    /\ alive \in SUBSET Nodes /\ Root \in alive /\ linked \in SUBSET Children
    /\ ChanOK(chan)
    /\ cache \in [Children -> [Items -> {"none", "good", "absent"}]]
    /\ callbacks \in [Children -> [Items -> SUBSET (Threads \cup Children)]]
    /\ sent \in [Children -> SUBSET Modules]
    /\ imported \in [Children -> SUBSET Items]
    /\ at \in [Threads -> Nat]
    /\ \A t \in Threads : at[t] \in 1..Len(Script[t]) + 1
    /\ state \in [Threads -> {"run", "wait", "told", "failed"}]
    /\ toPush \subseteq Pushes
    /\ deaths \in 0..MaxDeaths

IInv ==
    /\ Types /\ Scripts /\ Waiters /\ Callers /\ Connected /\ Pending
    /\ RootSent /\ Records /\ Orders /\ Requested

(***************************************************************************)
(* Queues.                                                                 *)
(***************************************************************************)
\* The three kinds of messages, and what is said of each.
LEMMA Kinds ==
    /\ Message = GetMessage \cup DownMessage
    /\ \A x \in GetMessage : x.kind = "GET" /\ x.item \in Items /\ x = Get(x.item)
    /\ \A x \in LoadMessage : x.kind = "LOAD" /\ x.item \in Items /\ x.answer \in {"good", "absent"}
    /\ \A x \in ForwardMessage : x.kind = "FORWARD" /\ x.item \in Modules /\ x.target \in Children
    /\ \A m \in Items : Get(m) \in GetMessage /\ Get(m).item = m
    /\ \A m \in Items, a \in {"good", "absent"} : Load(m, a) \in LoadMessage /\ IsLoad(Load(m, a), m)
    /\ \A m \in Modules, c \in Children :
        Forward(m, c) \in ForwardMessage /\ Forward(m, c).kind = "FORWARD" /\ Forward(m, c).item = m
<1>1. Message = GetMessage \cup DownMessage
  BY DEF Message, GetMessage, DownMessage, LoadMessage, ForwardMessage
<1>2. \A x \in GetMessage : x.kind = "GET" /\ x.item \in Items /\ x = Get(x.item)
  BY DEF GetMessage, Get
<1>3. \A x \in LoadMessage : x.kind = "LOAD" /\ x.item \in Items /\ x.answer \in {"good", "absent"}
  BY DEF LoadMessage
<1>4. \A x \in ForwardMessage : x.kind = "FORWARD" /\ x.item \in Modules /\ x.target \in Children
  BY DEF ForwardMessage
<1>5. \A m \in Items : Get(m) \in GetMessage /\ Get(m).item = m
  BY DEF GetMessage, Get
<1>6. \A m \in Items, a \in {"good", "absent"} : Load(m, a) \in LoadMessage /\ IsLoad(Load(m, a), m)
  BY DEF LoadMessage, Load, IsLoad
<1>7. \A m \in Modules, c \in Children :
        Forward(m, c) \in ForwardMessage /\ Forward(m, c).kind = "FORWARD" /\ Forward(m, c).item = m
  BY DEF ForwardMessage, Forward
<1> QED
  BY <1>1, <1>2, <1>3, <1>4, <1>5, <1>6, <1>7

\* u is q, then r.
Joined(u, q, r) ==
    /\ Len(q) \in Nat /\ Len(r) \in Nat /\ Len(u) = Len(q) + Len(r)
    /\ \A i \in 1..Len(q) : u[i] = q[i]
    /\ \A i \in 1..Len(r) : u[i + Len(q)] = r[i]
    /\ \A i \in 1..Len(u) : i \in 1..Len(q) \/ (i - Len(q) \in 1..Len(r) /\ u[i] = r[i - Len(q)])

\* t is q without its first element.
Rests(t, q) ==
    /\ Head(q) = q[1] /\ Len(q) \in Nat /\ Len(q) >= 1 /\ Len(t) = Len(q) - 1
    /\ \A i \in 1..Len(t) : t[i] = q[i + 1] /\ i + 1 \in 1..Len(q)
    /\ \A i \in 1..Len(q) : i = 1 \/ (i - 1 \in 1..Len(t) /\ q[i] = t[i - 1])

\* One sequence after the other.
LEMMA Concat ==
    ASSUME NEW S, NEW q \in Seq(S), NEW r \in Seq(S)
    PROVE  q \o r \in Seq(S) /\ Joined(q \o r, q, r)
<1>1. PICK u : u = q \o r
  OBVIOUS
<1>2. u \in Seq(S) /\ Len(q) \in Nat /\ Len(r) \in Nat /\ Len(u) = Len(q) + Len(r)
  BY <1>1
<1>3. \A i \in 1..Len(q) : u[i] = q[i]
  BY <1>1
<1>4. \A i \in 1..Len(r) : u[i + Len(q)] = r[i]
  BY <1>1
<1>5. ASSUME NEW i \in 1..Len(u), i \notin 1..Len(q)
      PROVE  i - Len(q) \in 1..Len(r) /\ u[i] = r[i - Len(q)]
  <2>1. PICK j : j = i - Len(q)
    OBVIOUS
  <2>2. j \in 1..Len(r) /\ j + Len(q) = i
    BY <1>2, <1>5, <2>1
  <2>3. u[j + Len(q)] = r[j]
    BY <1>4, <2>2
  <2> QED
    BY <2>1, <2>2, <2>3
<1>6. \A i \in 1..Len(u) : i \in 1..Len(q) \/ (i - Len(q) \in 1..Len(r) /\ u[i] = r[i - Len(q)])
  BY <1>5, Zenon
<1>7. Joined(u, q, r)
  BY <1>2, <1>3, <1>4, <1>6, Zenon DEF Joined
<1> QED
  BY <1>1, <1>2, <1>7

\* The first and the rest.
LEMMA First ==
    ASSUME NEW S, NEW q \in Seq(S), q # <<>>
    PROVE  Tail(q) \in Seq(S) /\ Head(q) \in S /\ Rests(Tail(q), q)
<1>1. PICK t : t = Tail(q)
  OBVIOUS
<1>2. /\ t \in Seq(S) /\ Head(q) \in S /\ Head(q) = q[1]
      /\ Len(q) \in Nat /\ Len(q) >= 1 /\ Len(t) = Len(q) - 1
      /\ \A i \in 1..Len(t) : t[i] = q[i + 1] /\ i + 1 \in 1..Len(q)
  BY <1>1
<1>3. ASSUME NEW i \in 1..Len(q), i # 1 PROVE i - 1 \in 1..Len(t) /\ q[i] = t[i - 1]
  <2>1. PICK j : j = i - 1
    OBVIOUS
  <2>2. j \in 1..Len(t) /\ j + 1 = i
    BY <1>2, <1>3, <2>1
  <2>3. t[j] = q[j + 1]
    BY <1>2, <2>2
  <2> QED
    BY <2>1, <2>2, <2>3
<1>4. \A i \in 1..Len(q) : i = 1 \/ (i - 1 \in 1..Len(t) /\ q[i] = t[i - 1])
  BY <1>3, Zenon
<1>5. Rests(t, q)
  BY <1>2, <1>4, Zenon DEF Rests
<1> QED
  BY <1>1, <1>2, <1>5

\* What is named by two sequences.
LEMMA NamedConcat ==
    ASSUME NEW S, NEW q \in Seq(S), NEW r \in Seq(S), NEW m
    PROVE  Named(q \o r, m) <=> Named(q, m) \/ Named(r, m)
<1>1. PICK u : u = q \o r
  OBVIOUS
<1>2. /\ Len(q) \in Nat /\ Len(r) \in Nat /\ Len(u) = Len(q) + Len(r)
      /\ \A i \in 1..Len(q) : u[i] = q[i]
      /\ \A i \in 1..Len(r) : u[i + Len(q)] = r[i]
      /\ \A i \in 1..Len(u) : i \in 1..Len(q) \/ (i - Len(q) \in 1..Len(r) /\ u[i] = r[i - Len(q)])
  <2>1. Joined(u, q, r)
    BY <1>1, Concat
  <2> QED
    BY <2>1 DEF Joined
<1>3. ASSUME NEW i \in 1..Len(q), IsLoad(q[i], m) PROVE Named(u, m)
  <2>1. i \in 1..Len(u)
    BY <1>2
  <2> QED
    BY <1>2, <1>3, <2>1 DEF Named
<1>4. ASSUME NEW i \in 1..Len(r), IsLoad(r[i], m) PROVE Named(u, m)
  <2>1. i + Len(q) \in 1..Len(u)
    BY <1>2
  <2> QED
    BY <1>2, <1>4, <2>1 DEF Named
<1>5. ASSUME NEW i \in 1..Len(u), IsLoad(u[i], m) PROVE Named(q, m) \/ Named(r, m)
  BY <1>2, <1>5 DEF Named
<1> QED
  BY <1>1, <1>3, <1>4, <1>5 DEF Named

\* At most one answer, then none, or none, then at most one.
LEMMA SingleConcat ==
    ASSUME NEW S, NEW q \in Seq(S), NEW r \in Seq(S), NEW m,
           Single(q, m), Single(r, m), ~(Named(q, m) /\ Named(r, m))
    PROVE  Single(q \o r, m)
<1>1. PICK u : u = q \o r
  OBVIOUS
<1>2. /\ Len(q) \in Nat /\ Len(r) \in Nat /\ Len(u) = Len(q) + Len(r)
      /\ \A i \in 1..Len(q) : u[i] = q[i]
      /\ \A i \in 1..Len(r) : u[i + Len(q)] = r[i]
      /\ \A i \in 1..Len(u) : i \in 1..Len(q) \/ (i - Len(q) \in 1..Len(r) /\ u[i] = r[i - Len(q)])
  <2>1. Joined(u, q, r)
    BY <1>1, Concat
  <2> QED
    BY <2>1 DEF Joined
<1>3. ASSUME NEW i \in 1..Len(u), NEW j \in 1..Len(u), IsLoad(u[i], m), IsLoad(u[j], m)
      PROVE  i = j
  <2>1. CASE i \in 1..Len(q) /\ j \in 1..Len(q)
    BY <1>2, <1>3, <2>1 DEF Single
  <2>2. CASE i \notin 1..Len(q) /\ j \notin 1..Len(q)
    <3>1. i - Len(q) \in 1..Len(r) /\ j - Len(q) \in 1..Len(r)
      BY <1>2, <2>2
    <3>2. IsLoad(r[i - Len(q)], m) /\ IsLoad(r[j - Len(q)], m)
      BY <1>2, <1>3, <2>2
    <3>3. i - Len(q) = j - Len(q)
      BY <3>1, <3>2 DEF Single
    <3> QED
      BY <1>2, <3>1, <3>3
  <2>3. CASE i \in 1..Len(q) /\ j \notin 1..Len(q)
    BY <1>2, <1>3, <2>3 DEF Named
  <2>4. CASE i \notin 1..Len(q) /\ j \in 1..Len(q)
    BY <1>2, <1>3, <2>4 DEF Named
  <2> QED
    BY <2>1, <2>2, <2>3, <2>4
<1> QED
  BY <1>1, <1>3 DEF Single

\* A FORWARD names nothing.
LEMMA NamedForward ==
    ASSUME NEW m \in Modules, NEW c \in Children, NEW n
    PROVE  ~Named(<<Forward(m, c)>>, n) /\ Single(<<Forward(m, c)>>, n)
<1>1. Forward(m, c).kind = "FORWARD"
  BY Kinds
<1>2. PICK x, u : x = Forward(m, c) /\ u = <<x>>
  OBVIOUS
<1>3. Len(u) = 1 /\ u[1] = x /\ x.kind = "FORWARD"
  BY <1>1, <1>2
<1>4. \A i \in 1..Len(u) : ~IsLoad(u[i], n)
  BY <1>3 DEF IsLoad
<1> QED
  BY <1>2, <1>4 DEF Named, Single

\* What the first names, and the rest.
LEMMA NamedTail ==
    ASSUME NEW S, NEW q \in Seq(S), q # <<>>, NEW m
    PROVE  /\ Named(q, m) <=> IsLoad(Head(q), m) \/ Named(Tail(q), m)
           /\ Single(q, m) => Single(Tail(q), m) /\ ~(IsLoad(Head(q), m) /\ Named(Tail(q), m))
<1>1. PICK t : t = Tail(q)
  OBVIOUS
<1>2. /\ Head(q) = q[1] /\ Len(q) \in Nat /\ Len(q) >= 1 /\ Len(t) = Len(q) - 1
      /\ \A i \in 1..Len(t) : t[i] = q[i + 1] /\ i + 1 \in 1..Len(q)
      /\ \A i \in 1..Len(q) : i = 1 \/ (i - 1 \in 1..Len(t) /\ q[i] = t[i - 1])
  <2>1. Rests(t, q)
    BY <1>1, First
  <2> QED
    BY <2>1 DEF Rests
<1>3. Named(q, m) => IsLoad(Head(q), m) \/ Named(t, m)
  BY <1>2 DEF Named
<1>4. IsLoad(Head(q), m) => Named(q, m)
  <2>1. 1 \in 1..Len(q)
    BY <1>2
  <2> QED
    BY <1>2, <2>1 DEF Named
<1>5. Named(t, m) => Named(q, m)
  BY <1>2 DEF Named
<1>6. ASSUME Single(q, m) PROVE Single(t, m)
  <2>1. ASSUME NEW i \in 1..Len(t), NEW j \in 1..Len(t), IsLoad(t[i], m), IsLoad(t[j], m) PROVE i = j
    <3>1. i + 1 \in 1..Len(q) /\ j + 1 \in 1..Len(q) /\ IsLoad(q[i + 1], m) /\ IsLoad(q[j + 1], m)
      BY <1>2, <2>1
    <3>2. i + 1 = j + 1
      BY <1>6, <3>1 DEF Single
    <3> QED
      BY <1>2, <3>2
  <2> QED
    BY <2>1 DEF Single
<1>7. ASSUME Single(q, m), IsLoad(Head(q), m) PROVE ~Named(t, m)
  <2>1. ASSUME NEW i \in 1..Len(t), IsLoad(t[i], m) PROVE FALSE
    <3>1. i + 1 \in 1..Len(q) /\ 1 \in 1..Len(q) /\ IsLoad(q[i + 1], m) /\ IsLoad(q[1], m)
      BY <1>2, <1>7, <2>1
    <3>2. i + 1 = 1
      BY <1>7, <3>1 DEF Single
    <3> QED
      BY <1>2, <3>2
  <2> QED
    BY <2>1 DEF Named
<1> QED
  BY <1>1, <1>3, <1>4, <1>5, <1>6, <1>7

\* Of the modules that were recorded before, s, none is among the answers; those that
\* are recorded then, s2, are.
Fresh(msgs, s, s2) ==
    /\ s \subseteq s2
    /\ \A m \in s2 \ s : Named(msgs, m)
    /\ \A m \in Modules \ Failing : Named(msgs, m) => m \in s2 \ s
    /\ \A m \in Modules \ Failing : Single(msgs, m)

\* Answers that were not given before keep the records true.
LEMMA RecordJoin ==
    ASSUME NEW q \in Seq(DownMessage), NEW r \in Seq(DownMessage), NEW known, NEW s, NEW s2,
           RecordTrue(q, known, s), Fresh(r, s, s2)
    PROVE  RecordTrue(q \o r, known, s2)
<1>1. \A m : Named(q \o r, m) <=> Named(q, m) \/ Named(r, m)
  BY NamedConcat
<1>2. \A m \in Modules : m \in s2 => known[m] # "none" \/ Named(q \o r, m)
  BY <1>1 DEF RecordTrue, Fresh
<1>3. ASSUME NEW m \in Modules \ Failing
      PROVE  /\ known[m] # "none" \/ Named(q \o r, m) => m \in s2
             /\ ~(known[m] # "none" /\ Named(q \o r, m))
             /\ ~(Named(q, m) /\ Named(r, m))
  BY <1>1 DEF RecordTrue, Fresh
<1>4. ASSUME NEW m \in Modules \ Failing PROVE Single(q \o r, m)
  <2>1. Single(q, m) /\ Single(r, m)
    BY DEF RecordTrue, Fresh
  <2> QED
    BY <1>3, <2>1, SingleConcat
<1> QED
  BY <1>2, <1>3, <1>4, Zenon DEF RecordTrue

\* Nothing is answered by a FORWARD.
LEMMA FreshForward ==
    ASSUME NEW m \in Modules, NEW c \in Children, NEW s
    PROVE  Fresh(<<Forward(m, c)>>, s, s)
BY NamedForward DEF Fresh

\* Nothing is answered by nothing.
LEMMA FreshEmpty ==
    ASSUME NEW s
    PROVE  Fresh(<<>>, s, s)
BY DEF Fresh, Named, Single

\* Answers come in any order.
LEMMA OrderJoin ==
    ASSUME NEW q \in Seq(DownMessage), NEW r \in Seq(LoadMessage), NEW known, InOrder(q, known)
    PROVE  InOrder(q \o r, known)
<1>1. PICK u : u = q \o r
  OBVIOUS
<1>2. r \in Seq(DownMessage)
  BY DEF DownMessage
<1>3. /\ Len(q) \in Nat /\ Len(r) \in Nat /\ Len(u) = Len(q) + Len(r)
      /\ \A i \in 1..Len(q) : u[i] = q[i]
      /\ \A i \in 1..Len(u) : i \in 1..Len(q) \/ (i - Len(q) \in 1..Len(r) /\ u[i] = r[i - Len(q)])
  <2>1. Joined(u, q, r)
    BY <1>1, <1>2, Concat
  <2> QED
    BY <2>1 DEF Joined
<1>4. ASSUME NEW i \in 1..Len(u), u[i].kind = "FORWARD"
      PROVE  known[u[i].item] # "none" \/ \E j \in 1..(i - 1) : IsLoad(u[j], u[i].item)
  <2>1. i \in 1..Len(q)
    <3>1. CASE i - Len(q) \in 1..Len(r) /\ u[i] = r[i - Len(q)]
      <4>1. r[i - Len(q)] \in LoadMessage
        BY <3>1
      <4> QED
        BY <1>4, <3>1, <4>1, Kinds
    <3> QED
      BY <1>3, <3>1
  <2>2. u[i] = q[i] /\ \A j \in 1..(i - 1) : j \in 1..Len(q) /\ u[j] = q[j]
    BY <1>3, <2>1
  <2> QED
    BY <1>4, <2>1, <2>2 DEF InOrder
<1> QED
  BY <1>1, <1>4 DEF InOrder

\* A FORWARD comes last, after its module.
LEMMA OrderForward ==
    ASSUME NEW q \in Seq(DownMessage), NEW known, InOrder(q, known), NEW m \in Modules, NEW c \in Children,
           known[m] # "none" \/ Named(q, m)
    PROVE  InOrder(q \o <<Forward(m, c)>>, known)
<1>1. PICK r, f : f = Forward(m, c) /\ r = <<f>>
  OBVIOUS
<1>2. PICK u : u = q \o r
  OBVIOUS
<1>3. f \in DownMessage /\ f.item = m
  BY <1>1, Kinds DEF DownMessage
<1>4. r \in Seq(DownMessage) /\ Len(r) = 1 /\ r[1] = f
  BY <1>1, <1>3
<1>5. /\ Len(q) \in Nat /\ Len(r) \in Nat /\ Len(u) = Len(q) + Len(r)
      /\ \A i \in 1..Len(q) : u[i] = q[i]
      /\ \A i \in 1..Len(u) : i \in 1..Len(q) \/ (i - Len(q) \in 1..Len(r) /\ u[i] = r[i - Len(q)])
  <2>1. Joined(u, q, r)
    BY <1>2, <1>4, Concat
  <2> QED
    BY <2>1 DEF Joined
<1>6. ASSUME NEW i \in 1..Len(u), u[i].kind = "FORWARD"
      PROVE  known[u[i].item] # "none" \/ \E j \in 1..(i - 1) : IsLoad(u[j], u[i].item)
  <2>1. CASE i \in 1..Len(q)
    <3>1. u[i] = q[i] /\ \A j \in 1..(i - 1) : j \in 1..Len(q) /\ u[j] = q[j]
      BY <1>5, <2>1
    <3> QED
      BY <1>6, <2>1, <3>1 DEF InOrder
  <2>2. CASE i \notin 1..Len(q)
    <3>1. i = Len(q) + 1 /\ u[i] = f
      <4>1. i - Len(q) \in 1..Len(r) /\ u[i] = r[i - Len(q)]
        BY <1>5, <2>2
      <4>2. i - Len(q) = 1
        BY <1>4, <1>5, <4>1
      <4> QED
        BY <1>4, <1>5, <4>1, <4>2
    <3>2. \A j \in 1..Len(q) : j \in 1..(i - 1) /\ u[j] = q[j]
      BY <1>5, <3>1
    <3> QED
      BY <1>3, <3>1, <3>2 DEF Named
  <2> QED
    BY <2>1, <2>2
<1> QED
  BY <1>1, <1>2, <1>6 DEF InOrder

\* An answer has been stored.
LEMMA LoadRead ==
    ASSUME NEW q \in Seq(DownMessage), q # <<>>, NEW m \in Items, IsLoad(Head(q), m),
           NEW known \in [Items -> {"none", "good", "absent"}], NEW a, a # "none",
           NEW known2, known2 = [known EXCEPT ![m] = a]
    PROVE  /\ \A s : RecordTrue(q, known, s) => RecordTrue(Tail(q), known2, s)
           /\ InOrder(q, known) => InOrder(Tail(q), known2)
<1>1. known2[m] # "none" /\ \A n \in Items : n # m => known2[n] = known[n]
  OBVIOUS
<1>2. \A n : IsLoad(Head(q), n) => n = m
  BY DEF IsLoad
<1>3. \A n : /\ Named(q, n) <=> IsLoad(Head(q), n) \/ Named(Tail(q), n)
             /\ Single(q, n) => Single(Tail(q), n) /\ ~(IsLoad(Head(q), n) /\ Named(Tail(q), n))
  BY NamedTail
<1>4. \A n \in Items : known[n] # "none" \/ Named(q, n) <=> known2[n] # "none" \/ Named(Tail(q), n)
  BY <1>1, <1>2, <1>3
<1>5. ASSUME NEW s, RecordTrue(q, known, s) PROVE RecordTrue(Tail(q), known2, s)
  <2>1. \A n \in Modules : n \in Items
    BY DEF Items
  <2>2. \A n \in Modules : n \in s => known2[n] # "none" \/ Named(Tail(q), n)
    BY <1>4, <1>5, <2>1 DEF RecordTrue
  <2>3. ASSUME NEW n \in Modules \ Failing
        PROVE  (known2[n] # "none" \/ Named(Tail(q), n) => n \in s) /\ Single(Tail(q), n)
    BY <1>3, <1>4, <1>5, <2>1 DEF RecordTrue
  <2>4. ASSUME NEW n \in Modules \ Failing, known2[n] # "none", Named(Tail(q), n) PROVE FALSE
    <3>1. Single(q, n) /\ ~(known[n] # "none" /\ Named(q, n))
      BY <1>5 DEF RecordTrue
    <3>2. n # m
      BY <1>3, <2>4, <3>1
    <3> QED
      BY <1>1, <1>3, <2>1, <2>4, <3>1, <3>2
  <2> QED
    BY <2>2, <2>3, <2>4, Zenon DEF RecordTrue
<1>6. ASSUME InOrder(q, known) PROVE InOrder(Tail(q), known2)
  <2>1. PICK t : t = Tail(q)
    OBVIOUS
  <2>2. /\ Head(q) = q[1] /\ Len(q) \in Nat /\ Len(q) >= 1 /\ Len(t) = Len(q) - 1
        /\ \A i \in 1..Len(t) : t[i] = q[i + 1] /\ i + 1 \in 1..Len(q)
        /\ \A i \in 1..Len(q) : i = 1 \/ (i - 1 \in 1..Len(t) /\ q[i] = t[i - 1])
    <3>1. Rests(t, q)
      BY <2>1, First
    <3> QED
      BY <3>1 DEF Rests
  <2>3. ASSUME NEW i \in 1..Len(t), t[i].kind = "FORWARD"
        PROVE  known2[t[i].item] # "none" \/ \E j \in 1..(i - 1) : IsLoad(t[j], t[i].item)
    <3>1. q[i + 1] = t[i] /\ i + 1 \in 1..Len(q)
      BY <2>2
    <3>2. t[i] \in DownMessage
      BY <3>1
    <3>3. t[i].item \in Items
      BY <3>2, Kinds DEF DownMessage, Items
    <3>4. CASE known[t[i].item] # "none"
      BY <1>1, <3>3, <3>4
    <3>5. CASE \E j \in 1..((i + 1) - 1) : IsLoad(q[j], t[i].item)
      <4>1. PICK j \in 1..((i + 1) - 1) : IsLoad(q[j], t[i].item)
        BY <3>5
      <4>2. CASE j = 1
        BY <1>1, <1>2, <2>2, <4>1, <4>2
      <4>3. CASE j # 1
        <5>1. j \in 1..Len(q) /\ j - 1 \in 1..(i - 1)
          BY <2>2, <4>3
        <5>2. q[j] = t[j - 1]
          BY <2>2, <4>3, <5>1
        <5> QED
          BY <4>1, <5>1, <5>2
      <4> QED
        BY <4>2, <4>3
    <3> QED
      BY <1>6, <2>3, <3>1, <3>4, <3>5 DEF InOrder
  <2> QED
    BY <2>1, <2>3 DEF InOrder
<1> QED
  BY <1>5, <1>6

\* A FORWARD has been read.
LEMMA ForwardRead ==
    ASSUME NEW q \in Seq(DownMessage), q # <<>>, Head(q).kind = "FORWARD", NEW known
    PROVE  /\ \A s : RecordTrue(q, known, s) => RecordTrue(Tail(q), known, s)
           /\ InOrder(q, known) => InOrder(Tail(q), known) /\ known[Head(q).item] # "none"
<1>1. \A n : ~IsLoad(Head(q), n)
  BY DEF IsLoad
<1>2. \A n : /\ Named(q, n) <=> Named(Tail(q), n)
             /\ Single(q, n) => Single(Tail(q), n)
  BY <1>1, NamedTail
<1>3. ASSUME NEW s, RecordTrue(q, known, s) PROVE RecordTrue(Tail(q), known, s)
  BY <1>2, <1>3 DEF RecordTrue
<1>4. PICK t : t = Tail(q)
  OBVIOUS
<1>5. /\ Head(q) = q[1] /\ Len(q) \in Nat /\ Len(q) >= 1 /\ Len(t) = Len(q) - 1
      /\ \A i \in 1..Len(t) : t[i] = q[i + 1] /\ i + 1 \in 1..Len(q)
      /\ \A i \in 1..Len(q) : i = 1 \/ (i - 1 \in 1..Len(t) /\ q[i] = t[i - 1])
  <2>1. Rests(t, q)
    BY <1>4, First
  <2> QED
    BY <2>1 DEF Rests
<1>6. ASSUME InOrder(q, known) PROVE known[Head(q).item] # "none"
  <2>1. 1 \in 1..Len(q) /\ q[1].kind = "FORWARD" /\ 1..(1 - 1) = {}
    BY <1>5
  <2> QED
    BY <1>5, <1>6, <2>1 DEF InOrder
<1>7. ASSUME InOrder(q, known) PROVE InOrder(t, known)
  <2>3. ASSUME NEW i \in 1..Len(t), t[i].kind = "FORWARD"
        PROVE  known[t[i].item] # "none" \/ \E j \in 1..(i - 1) : IsLoad(t[j], t[i].item)
    <3>1. q[i + 1] = t[i] /\ i + 1 \in 1..Len(q)
      BY <1>5
    <3>2. CASE \E j \in 1..((i + 1) - 1) : IsLoad(q[j], t[i].item)
      <4>1. PICK j \in 1..((i + 1) - 1) : IsLoad(q[j], t[i].item)
        BY <3>2
      <4>2. j # 1
        BY <1>1, <1>5, <4>1
      <4>3. j \in 1..Len(q) /\ j - 1 \in 1..(i - 1)
        BY <1>5, <4>2
      <4>4. q[j] = t[j - 1]
        BY <1>5, <4>2, <4>3
      <4> QED
        BY <4>1, <4>3, <4>4
    <3> QED
      BY <1>7, <2>3, <3>1, <3>2 DEF InOrder
  <2> QED
    BY <2>3 DEF InOrder
<1> QED
  BY <1>3, <1>4, <1>6, <1>7

(***************************************************************************)
(* Recursive functions over the numbers up to n.                           *)
(***************************************************************************)

\* Induction: a set of naturals has a least element.
LEMMA LeastNatural ==
    ASSUME NEW T \in SUBSET Nat, T # {}
    PROVE  \E x \in T : \A y \in T : x <= y
<1> DEFINE R == OpToRel(<, Nat)
<1>1. IsWellFoundedOn(R, Nat)
  BY NatLessThanWellFounded, Zenon
<1>2. \A x, y \in Nat : x < y => <<x, y>> \in R
  BY DEF OpToRel
<1> HIDE DEF R
<1>3. PICK x \in T : \A y \in T : ~(<<y, x>> \in R)
  BY <1>1, WFMin
<1>4. ASSUME NEW y \in T PROVE x <= y
  <2>1. x \in Nat /\ y \in Nat
    OBVIOUS
  <2>2. ~(y < x)
    BY <1>2, <1>3, <2>1
  <2> QED
    BY <2>1, <2>2
<1> QED
  BY <1>4

\* A set that has 0 and, with a number below n, the next one, has them all.
LEMMA Climb ==
    ASSUME NEW n \in Nat, NEW S, 0 \in S, \A k \in 0..n : k \in S /\ k < n => k + 1 \in S
    PROVE  0..n \subseteq S
<1> DEFINE T == {k \in 0..n : k \notin S}
<1>1. T \in SUBSET Nat
  OBVIOUS
<1>2. ASSUME T # {} PROVE FALSE
  <2>1. PICK x \in T : \A y \in T : x <= y
    BY <1>1, <1>2, LeastNatural
  <2>2. x \in Nat /\ x \in 0..n /\ x \notin S /\ x # 0
    BY <2>1
  <2>3. x - 1 \in 0..n /\ x - 1 < n /\ (x - 1) + 1 = x
    BY <2>2
  <2>4. x - 1 \notin S
    BY <2>2, <2>3
  <2>5. x - 1 \in T
    BY <2>3, <2>4
  <2>6. x <= x - 1
    BY <2>1, <2>5
  <2> QED
    BY <2>2, <2>6
<1> QED
  BY <1>2

\* f applies the functions G one after the other, to a first.
Iterates(f, G, a, k) ==
    /\ f = [i \in 0..k |-> f[i]]
    /\ f[0] = a
    /\ \A i \in 1..k : f[i] = G[i][f[i - 1]]

\* It can be continued.
LEMMA IterateFurther ==
    ASSUME NEW G, NEW a, NEW k \in Nat, NEW f, Iterates(f, G, a, k)
    PROVE  \E g : Iterates(g, G, a, k + 1)
<1>1. PICK g : g = [i \in 0..(k + 1) |-> IF i = k + 1 THEN G[k + 1][f[k]] ELSE f[i]]
  OBVIOUS
<1>2. k + 1 \in 0..(k + 1) /\ \A i \in 0..k : i \in 0..(k + 1) /\ i # k + 1
  OBVIOUS
<1>3. g[k + 1] = G[k + 1][f[k]] /\ \A i \in 0..k : g[i] = f[i]
  BY <1>1, <1>2
<1>4. ASSUME NEW i \in 1..(k + 1) PROVE g[i] = G[i][g[i - 1]]
  <2>1. CASE i = k + 1
    <3>1. i - 1 = k /\ k \in 0..k
      BY <2>1
    <3> QED
      BY <1>3, <2>1, <3>1
  <2>2. CASE i # k + 1
    <3>1. i \in 1..k /\ i \in 0..k /\ i - 1 \in 0..k
      BY <2>2
    <3> QED
      BY <1>3, <3>1 DEF Iterates
  <2> QED
    BY <2>1, <2>2
<1>5. g = [i \in 0..(k + 1) |-> g[i]]
  BY <1>1
<1>6. g[0] = a
  <2>1. 0 \in 0..k
    OBVIOUS
  <2> QED
    BY <1>3, <2>1 DEF Iterates
<1> QED
  BY <1>4, <1>5, <1>6 DEF Iterates

\* It exists, and its values are of the type of the functions.
LEMMA IterateExists ==
    ASSUME NEW n \in Nat, NEW A, NEW a \in A, NEW G \in [1..n -> [A -> A]]
    PROVE  \E f \in [0..n -> A] : Iterates(f, G, a, n)
<1> DEFINE T == {k \in 0..n : \E f : Iterates(f, G, a, k)}
<1>1. 0 \in T
  <2>1. PICK f : f = [i \in 0..0 |-> a]
    OBVIOUS
  <2>2. f = [i \in 0..0 |-> f[i]] /\ f[0] = a /\ 1..0 = {}
    BY <2>1
  <2>3. Iterates(f, G, a, 0)
    BY <2>2 DEF Iterates
  <2>4. 0 \in 0..n
    OBVIOUS
  <2> QED
    BY <2>3, <2>4
<1>2. ASSUME NEW k \in 0..n, k \in T, k < n PROVE k + 1 \in T
  <2>1. PICK f : Iterates(f, G, a, k)
    BY <1>2
  <2>2. \E g : Iterates(g, G, a, k + 1)
    BY <2>1, IterateFurther
  <2>3. k + 1 \in 0..n
    BY <1>2
  <2> QED
    BY <2>2, <2>3
<1>3. n \in T
  <2> HIDE DEF T
  <2>1. 0..n \subseteq T
    BY <1>1, <1>2, Climb
  <2> QED
    BY <2>1
<1>4. PICK f : Iterates(f, G, a, n)
  BY <1>3
<1> DEFINE V == {k \in 0..n : f[k] \in A}
<1>5. 0 \in V
  BY <1>4 DEF Iterates
<1>6. ASSUME NEW k \in 0..n, k \in V, k < n PROVE k + 1 \in V
  <2>1. k + 1 \in 1..n /\ (k + 1) - 1 = k /\ k + 1 \in 0..n
    BY <1>6
  <2>2. f[k + 1] = G[k + 1][f[k]]
    BY <1>4, <2>1 DEF Iterates
  <2>3. G[k + 1] \in [A -> A] /\ f[k] \in A
    BY <1>6, <2>1
  <2> QED
    BY <2>1, <2>2, <2>3
<1>7. \A k \in 0..n : f[k] \in A
  <2> HIDE DEF V
  <2>1. 0..n \subseteq V
    BY <1>5, <1>6, Climb
  <2> QED
    BY <2>1 DEF V
<1>8. f \in [0..n -> A]
  BY <1>4, <1>7 DEF Iterates
<1> QED
  BY <1>4, <1>8

(***************************************************************************)
(* What is sent with what.                                                 *)
(***************************************************************************)
Distinct(s) == \A i, j \in 1..Len(s) : s[i] = s[j] => i = j

\* u is s, then x.
Appended(u, s, x) ==
    /\ Len(s) \in Nat /\ Len(u) = Len(s) + 1 /\ u[Len(s) + 1] = x
    /\ \A i \in 1..Len(s) : u[i] = s[i]
    /\ \A i \in 1..Len(u) : i \in 1..Len(s) \/ i = Len(s) + 1

\* One more, which is not there yet.
LEMMA AppendOne ==
    ASSUME NEW T, NEW s \in Seq(T), NEW x \in T
    PROVE  /\ Append(s, x) \in Seq(T) /\ Appended(Append(s, x), s, x)
           /\ Distinct(s) /\ (\A i \in 1..Len(s) : s[i] # x) => Distinct(Append(s, x))
<1>1. PICK u : u = Append(s, x)
  OBVIOUS
<1>2. /\ u \in Seq(T) /\ Len(s) \in Nat /\ Len(u) = Len(s) + 1 /\ u[Len(s) + 1] = x
      /\ \A i \in 1..Len(s) : u[i] = s[i]
  BY <1>1
<1>3. \A i \in 1..Len(u) : i \in 1..Len(s) \/ i = Len(s) + 1
  BY <1>2
<1>4. Appended(u, s, x)
  BY <1>2, <1>3 DEF Appended
<1>5. ASSUME Distinct(s), \A i \in 1..Len(s) : s[i] # x PROVE Distinct(u)
  BY <1>2, <1>3, <1>5 DEF Distinct
<1> QED
  BY <1>1, <1>2, <1>4, <1>5

\* What Among() has picked of the first k of a list.
Chosen(s, list, k, S) ==
    /\ s \in Seq(Modules) /\ Distinct(s)
    /\ \A i \in 1..Len(s) : s[i] \in S /\ \E j \in 1..k : s[i] = list[j]

\* What Among() picks.
LEMMA AmongChosen ==
    ASSUME NEW list \in Seq(Modules), Distinct(list), NEW S
    PROVE  Chosen(Among(list, S), list, Len(list), S)
<1>1. PICK n : n = Len(list) /\ n \in Nat
  OBVIOUS
<1>2. PICK G : G = [i \in 1..n |-> [x \in Seq(Modules) |-> IF list[i] \in S THEN Append(x, list[i]) ELSE x]]
  OBVIOUS
<1>3. \A i \in 1..n : list[i] \in Modules
  BY <1>1
<1>4. ASSUME NEW i \in 1..n, NEW x \in Seq(Modules)
      PROVE  (IF list[i] \in S THEN Append(x, list[i]) ELSE x) \in Seq(Modules)
  BY <1>3, AppendOne
<1>5. G \in [1..n -> [Seq(Modules) -> Seq(Modules)]]
  BY <1>2, <1>4
<1>6. <<>> \in Seq(Modules)
  OBVIOUS
<1>7. PICK g \in [0..n -> Seq(Modules)] : Iterates(g, G, <<>>, n)
  BY <1>1, <1>5, <1>6, IterateExists
<1>8. ASSUME NEW i \in 0..n
      PROVE  g[i] = IF i = 0 THEN <<>>
                    ELSE IF list[i] \in S THEN Append(g[i - 1], list[i]) ELSE g[i - 1]
  <2>1. CASE i = 0
    BY <1>7, <2>1 DEF Iterates
  <2>2. CASE i # 0
    <3>1. i \in 1..n /\ i - 1 \in 0..n
      BY <1>1, <2>2
    <3>2. g[i] = G[i][g[i - 1]] /\ g[i - 1] \in Seq(Modules)
      BY <1>7, <3>1 DEF Iterates
    <3> QED
      BY <1>2, <2>2, <3>1, <3>2
  <2> QED
    BY <2>1, <2>2
<1>9. g = [i \in 0..n |-> IF i = 0 THEN <<>>
                          ELSE IF list[i] \in S THEN Append(g[i - 1], list[i]) ELSE g[i - 1]]
  BY <1>8
<1>10. PICK f : /\ Among(list, S) = f[n]
                /\ f = [i \in 0..n |-> IF i = 0 THEN <<>>
                                       ELSE IF list[i] \in S THEN Append(f[i - 1], list[i]) ELSE f[i - 1]]
  <2>1. \E f : f = [i \in 0..Len(list) |-> IF i = 0 THEN <<>>
                          ELSE IF list[i] \in S THEN Append(f[i - 1], list[i]) ELSE f[i - 1]]
    BY <1>1, <1>9
  <2>2. PICK f : /\ Among(list, S) = f[Len(list)]
                 /\ f = [i \in 0..Len(list) |-> IF i = 0 THEN <<>>
                          ELSE IF list[i] \in S THEN Append(f[i - 1], list[i]) ELSE f[i - 1]]
    BY <2>1, Zenon DEF Among
  <2> QED
    BY <1>1, <2>2
<1>11. \A i \in 0..n : f[i] = IF i = 0 THEN <<>>
                              ELSE IF list[i] \in S THEN Append(f[i - 1], list[i]) ELSE f[i - 1]
  BY <1>10
<1> DEFINE T == {k \in 0..n : Chosen(f[k], list, k, S)}
<1>12. 0 \in T
  <2>1. 0 \in 0..n /\ f[0] = <<>>
    BY <1>1, <1>11
  <2>2. <<>> \in Seq(Modules) /\ 1..Len(<<>>) = {}
    OBVIOUS
  <2>3. Chosen(<<>>, list, 0, S)
    BY <2>2 DEF Chosen, Distinct
  <2> QED
    BY <2>1, <2>3
<1>13. ASSUME NEW k \in 0..n, k \in T, k < n PROVE k + 1 \in T
  <2>1. k + 1 \in 0..n /\ k + 1 # 0 /\ (k + 1) - 1 = k /\ k + 1 \in 1..n
    BY <1>1, <1>13
  <2>2. PICK s : s = f[k] /\ Chosen(s, list, k, S)
    BY <1>13
  <2>3. CASE list[k + 1] \notin S
    <3>1. f[k + 1] = s
      BY <1>11, <2>1, <2>2, <2>3
    <3>2. \A j \in 1..k : j \in 1..(k + 1)
      OBVIOUS
    <3>3. Chosen(s, list, k + 1, S)
      BY <2>2, <3>2 DEF Chosen
    <3> QED
      BY <2>1, <3>1, <3>3
  <2>4. CASE list[k + 1] \in S
    <3>1. PICK x, u : x = list[k + 1] /\ u = Append(s, x)
      OBVIOUS
    <3>2. f[k + 1] = u
      BY <1>11, <2>1, <2>2, <2>4, <3>1
    <3>3. x \in Modules /\ x \in S
      BY <1>3, <2>1, <2>4, <3>1
    <3>4. s \in Seq(Modules) /\ Distinct(s) /\ \A i \in 1..Len(s) : s[i] \in S /\ \E j \in 1..k : s[i] = list[j]
      BY <2>2 DEF Chosen
    <3>5. \A j \in 1..k : list[j] # x /\ j \in 1..(k + 1)
      <4>1. \A j \in 1..k : j \in 1..n /\ j # k + 1
        BY <1>1, <2>1
      <4> QED
        BY <1>1, <2>1, <3>1, <4>1 DEF Distinct
    <3>6. \A i \in 1..Len(s) : s[i] # x
      BY <3>4, <3>5
    <3>7. u \in Seq(Modules) /\ Appended(u, s, x) /\ Distinct(u)
      BY <3>1, <3>3, <3>4, <3>6, AppendOne
    <3>8. ASSUME NEW i \in 1..Len(u) PROVE u[i] \in S /\ \E j \in 1..(k + 1) : u[i] = list[j]
      <4>1. CASE i \in 1..Len(s)
        <5>1. u[i] = s[i]
          BY <3>7, <4>1 DEF Appended
        <5> QED
          BY <3>4, <3>5, <4>1, <5>1
      <4>2. CASE i \notin 1..Len(s)
        <5>1. u[i] = x
          BY <3>7, <4>2 DEF Appended
        <5>2. k + 1 \in 1..(k + 1)
          OBVIOUS
        <5> QED
          BY <3>1, <3>3, <5>1, <5>2
      <4> QED
        BY <4>1, <4>2
    <3> QED
      BY <2>1, <3>2, <3>7, <3>8 DEF Chosen
  <2> QED
    BY <2>3, <2>4
<1>14. n \in T
  <2> HIDE DEF T
  <2>1. 0..n \subseteq T
    BY <1>1, <1>12, <1>13, Climb
  <2> QED
    BY <1>1, <2>1
<1> QED
  BY <1>1, <1>10, <1>14

\* Related modules are distinct, and not the one they are related to.
LEMMA RelatedType ==
    ASSUME NEW m \in Modules
    PROVE  /\ Related[m] \in Seq(Modules) /\ Distinct(Related[m])
           /\ \A i \in 1..Len(Related[m]) : Related[m][i] # m /\ Related[m][i] \in Modules \ Failing
<1>1. PICK r : r = Related[m]
  OBVIOUS
<1>2. r \in Seq(Modules \ Failing) /\ IsInjective(r) /\ m \notin Range(r)
  BY <1>1, ImportsAssumption
<1>3. r \in Seq(Modules) /\ DOMAIN r = 1..Len(r)
  BY <1>2
<1>4. Distinct(r)
  BY <1>2, <1>3 DEF Distinct, IsInjective
<1>5. \A i \in 1..Len(r) : r[i] # m /\ r[i] \in Modules \ Failing
  BY <1>2, <1>3 DEF Range
<1> QED
  BY <1>1, <1>3, <1>4, <1>5

\* The related modules in S, and then perhaps m.
Listed(all, m, S) ==
    /\ all \in Seq(Items) /\ Distinct(all)
    /\ \A i \in 1..Len(all) : all[i] = m \/ all[i] \in S \cap (Modules \ Failing)

\* What accompanies m, and m.
LEMMA ListAll ==
    ASSUME NEW m \in Items, NEW S, NEW names,
           names = <<>> \/ (m \in Modules /\ names = Among(Related[m], S))
    PROVE  /\ Listed(names, m, S) /\ Listed(Append(names, m), m, S)
           /\ \A i \in 1..Len(names) : names[i] \in S
           /\ \E i \in 1..Len(Append(names, m)) : Append(names, m)[i] = m
<1>1. /\ names \in Seq(Modules) /\ Distinct(names)
      /\ \A i \in 1..Len(names) : names[i] # m /\ names[i] \in S \cap (Modules \ Failing)
  <2>1. CASE m \in Modules /\ names = Among(Related[m], S)
    <3>1. names = Among(Related[m], S) /\ m \in Modules
      BY <2>1
    <3>2. PICK r : r = Related[m]
      OBVIOUS
    <3>3. r \in Seq(Modules) /\ Distinct(r) /\ \A i \in 1..Len(r) : r[i] # m /\ r[i] \in Modules \ Failing
      BY <3>1, <3>2, RelatedType
    <3>4. Chosen(names, r, Len(r), S)
      BY <3>1, <3>2, <3>3, AmongChosen
    <3> QED
      BY <3>3, <3>4 DEF Chosen
  <2>2. CASE names = <<>>
    <3>1. <<>> \in Seq(Modules) /\ 1..Len(<<>>) = {}
      OBVIOUS
    <3> QED
      BY <2>2, <3>1 DEF Distinct
  <2> QED
    BY <2>1, <2>2
<1>2. names \in Seq(Items) /\ Listed(names, m, S)
  <2>1. names \in Seq(Items)
    BY <1>1 DEF Items
  <2> QED
    BY <1>1, <2>1 DEF Listed
<1>3. PICK u : u = Append(names, m)
  OBVIOUS
<1>4. u \in Seq(Items) /\ Appended(u, names, m) /\ Distinct(u)
  BY <1>1, <1>2, <1>3, AppendOne
<1>5. \A i \in 1..Len(u) : u[i] = m \/ u[i] \in S \cap (Modules \ Failing)
  BY <1>1, <1>4 DEF Appended
<1>6. \E i \in 1..Len(u) : u[i] = m
  <2>1. Len(names) + 1 \in 1..Len(u) /\ u[Len(names) + 1] = m
    BY <1>4 DEF Appended
  <2> QED
    BY <2>1
<1> QED
  BY <1>1, <1>2, <1>3, <1>4, <1>5, <1>6 DEF Listed

\* Answers about what is listed, one each.
Loaded(msgs, all) ==
    /\ msgs \in Seq(LoadMessage) /\ Len(msgs) = Len(all)
    /\ \A i \in 1..Len(all) : msgs[i].item = all[i]

\* They name what is listed, once.
LEMMA LoadedNames ==
    ASSUME NEW all, NEW msgs, Distinct(all), Loaded(msgs, all)
    PROVE  /\ \A n : Named(msgs, n) <=> \E i \in 1..Len(all) : all[i] = n
           /\ \A n : Single(msgs, n)
           /\ \A n : n \in {msgs[i].item : i \in DOMAIN msgs} <=> Named(msgs, n)
<1>1. /\ msgs \in Seq(LoadMessage) /\ Len(msgs) = Len(all) /\ DOMAIN msgs = 1..Len(msgs)
      /\ \A i \in 1..Len(msgs) : msgs[i].item = all[i] /\ msgs[i] \in LoadMessage
  BY DEF Loaded
<1>2. \A i \in 1..Len(msgs) : \A n : IsLoad(msgs[i], n) <=> all[i] = n
  BY <1>1, Kinds DEF IsLoad
<1>3. \A n : Named(msgs, n) <=> \E i \in 1..Len(all) : all[i] = n
  BY <1>1, <1>2 DEF Named
<1>4. \A n : Single(msgs, n)
  BY <1>1, <1>2 DEF Single, Distinct
<1>5. \A n : n \in {msgs[i].item : i \in DOMAIN msgs} <=> \E i \in 1..Len(all) : all[i] = n
  BY <1>1
<1> QED
  BY <1>3, <1>4, <1>5

\* Answers about what is not on record are fresh.
LEMMA LoadedFresh ==
    ASSUME NEW all, NEW msgs, Distinct(all), Loaded(msgs, all), NEW s, \A i \in 1..Len(all) : all[i] \notin s
    PROVE  /\ Fresh(msgs, s, Recorded(s, msgs))
           /\ \A k : s = sent[k] => Fresh(msgs, s, Noted(k, msgs))
<1>1. PICK N : N = {msgs[i].item : i \in DOMAIN msgs}
  OBVIOUS
<1>2. \A n : n \in N <=> Named(msgs, n)
  BY <1>1, LoadedNames
<1>3. \A n : Single(msgs, n)
  BY LoadedNames
<1>4. \A n \in N : n \notin s
  BY <1>2, LoadedNames
<1>5. Fresh(msgs, s, s \cup (N \cap Modules))
  BY <1>2, <1>3, <1>4 DEF Fresh
<1>6. Fresh(msgs, s, s \cup (N \cap (Modules \ Failing)))
  BY <1>2, <1>3, <1>4 DEF Fresh
<1>7. Recorded(s, msgs) = s \cup (N \cap (Modules \ Failing))
  BY <1>1, Zenon DEF Recorded
<1>8. \A k : Noted(k, msgs) = sent[k] \cup (N \cap Modules)
  BY <1>1, Zenon DEF Noted
<1>9. Fresh(msgs, s, Recorded(s, msgs))
  BY <1>6, <1>7
<1>10. ASSUME NEW k, s = sent[k] PROVE Fresh(msgs, s, Noted(k, msgs))
  BY <1>5, <1>8, <1>10
<1> QED
  BY <1>9, <1>10

\* One answer.
LEMMA LoadedOne ==
    ASSUME NEW m \in Items, NEW a \in {"good", "absent"}
    PROVE  Distinct(<<m>>) /\ Loaded(<<Load(m, a)>>, <<m>>) /\ Len(<<m>>) = 1 /\ <<m>>[1] = m
<1>1. PICK x : x = Load(m, a)
  OBVIOUS
<1>2. x \in LoadMessage /\ x.item = m
  BY <1>1, Kinds DEF IsLoad
<1>3. <<x>> \in Seq(LoadMessage) /\ Len(<<x>>) = 1 /\ <<x>>[1] = x
  BY <1>2
<1>4. Distinct(<<m>>) /\ Len(<<m>>) = 1 /\ <<m>>[1] = m
  BY DEF Distinct
<1>5. Loaded(<<x>>, <<m>>)
  BY <1>2, <1>3, <1>4 DEF Loaded
<1> QED
  BY <1>1, <1>4, <1>5

\* Nothing.
LEMMA LoadedNone == Distinct(<<>>) /\ Loaded(<<>>, <<>>) /\ Len(<<>>) = 0
<1>1. <<>> \in Seq(LoadMessage) /\ 1..Len(<<>>) = {} /\ Len(<<>>) = 0
  OBVIOUS
<1> QED
  BY <1>1 DEF Distinct, Loaded

\* The answer msgs of the master about m, to a stream that is on record for having
\* been sent what is in "before".
RootSends(before, m, msgs) ==
    /\ msgs \in Seq(LoadMessage)
    /\ Recorded(before, msgs) \in SUBSET (Modules \ Failing)
    /\ Fresh(msgs, before, Recorded(before, msgs))
    /\ ~Unanswerable(m) => m \in before \/ Named(msgs, m)

\* The master answers unless it did, or a resource cannot be read.
LEMMA RootAnswers ==
    ASSUME NEW before \in SUBSET (Modules \ Failing), NEW m \in Items
    PROVE  RootSends(before, m, RootAnswer(before, m))
<1>0. PICK msgs : msgs = RootAnswer(before, m)
  OBVIOUS
<1>1. Modules \cap Resources = {} /\ Items = Modules \cup Resources
  BY ImportsAssumption DEF Items
<1>2. ASSUME NEW all, Distinct(all), Loaded(msgs, all), \A i \in 1..Len(all) : all[i] \notin before,
             ~Unanswerable(m) => m \in before \/ \E i \in 1..Len(all) : all[i] = m
      PROVE  RootSends(before, m, msgs)
  <2>1. Fresh(msgs, before, Recorded(before, msgs))
    BY <1>2, LoadedFresh
  <2>2. msgs \in Seq(LoadMessage)
    BY <1>2 DEF Loaded
  <2>3. Recorded(before, msgs) \in SUBSET (Modules \ Failing)
    BY DEF Recorded
  <2>4. ~Unanswerable(m) => m \in before \/ Named(msgs, m)
    BY <1>2, LoadedNames
  <2> QED
    BY <2>1, <2>2, <2>3, <2>4 DEF RootSends
<1>3. CASE m \in before \/ Unanswerable(m)
  <2>1. msgs = <<>>
    BY <1>0, <1>1, <1>3 DEF RootAnswer, Unanswerable
  <2>2. PICK all : all = <<>>
    OBVIOUS
  <2>3. Distinct(all) /\ Loaded(msgs, all) /\ 1..Len(all) = {}
    BY <2>1, <2>2, LoadedNone
  <2> QED
    BY <1>0, <1>2, <1>3, <2>3
<1>4. CASE m \notin before /\ ~Unanswerable(m) /\ (m \in Resources \/ m \in Failing)
  <2>1. PICK a \in {"good", "absent"} : msgs = <<Load(m, a)>>
    <3>1. Answer(m) \in {"good", "absent"}
      BY DEF Answer
    <3> QED
      BY <1>0, <1>1, <1>4, <3>1 DEF RootAnswer, Unanswerable
  <2>2. PICK all : all = <<m>> /\ Distinct(all) /\ Loaded(msgs, all) /\ Len(all) = 1 /\ all[1] = m
    BY <2>1, LoadedOne
  <2>3. \A i \in 1..Len(all) : all[i] \notin before
    BY <1>4, <2>2
  <2>4. \E i \in 1..Len(all) : all[i] = m
    BY <2>2
  <2> QED
    BY <1>0, <1>2, <2>2, <2>3, <2>4
<1>5. CASE m \notin before /\ m \notin Resources /\ m \notin Failing
  <2>1. PICK S : S = {r \in Modules \ before : PackageKnown(before, m, r)}
    OBVIOUS
  <2>2. PICK names : names = IF m \in Servable THEN Among(Related[m], S) ELSE <<>>
    OBVIOUS
  <2>3. PICK all : all = Append(names, m)
    OBVIOUS
  <2>4. m \in Modules
    BY <1>1, <1>5
  <2>5. Listed(all, m, S) /\ \E i \in 1..Len(all) : all[i] = m
    <3>1. names = <<>> \/ (m \in Modules /\ names = Among(Related[m], S))
      BY <2>2, <2>4
    <3> QED
      BY <2>3, <3>1, ListAll
  <2>6. all \in Seq(Items) /\ Distinct(all) /\ DOMAIN all = 1..Len(all)
    BY <2>5 DEF Listed
  <2>7. \A i \in 1..Len(all) : all[i] \notin before /\ all[i] \in Items
    BY <1>5, <2>1, <2>5, <2>6 DEF Listed
  <2>8. msgs = [i \in DOMAIN all |-> Load(all[i], Answer(all[i]))]
    BY <1>0, <1>5, <2>1, <2>2, <2>3 DEF RootAnswer
  <2>9. \A i \in 1..Len(all) : Load(all[i], Answer(all[i])) \in LoadMessage
                               /\ Load(all[i], Answer(all[i])).item = all[i]
    <3>1. \A i \in 1..Len(all) : Answer(all[i]) \in {"good", "absent"}
      BY DEF Answer
    <3> QED
      BY <2>7, <3>1, Kinds DEF IsLoad
  <2>10. Loaded(msgs, all)
    <3>1. Len(all) \in Nat
      BY <2>6
    <3>2. msgs = [i \in 1..Len(all) |-> Load(all[i], Answer(all[i]))]
      BY <2>6, <2>8
    <3>3. msgs \in Seq(LoadMessage) /\ Len(msgs) = Len(all)
      BY <2>9, <3>1, <3>2
    <3>4. \A i \in 1..Len(all) : msgs[i].item = all[i]
      BY <2>9, <3>2
    <3> QED
      BY <3>3, <3>4 DEF Loaded
  <2> QED
    BY <1>0, <1>2, <2>5, <2>6, <2>7, <2>10
<1> QED
  BY <1>1, <1>3, <1>4, <1>5

\* What a forwarder that holds m writes to its child k.
ForwarderSends(k, m, msgs) ==
    /\ msgs \in Seq(LoadMessage)
    /\ Noted(k, msgs) \in SUBSET Modules
    /\ Fresh(msgs, sent[k], Noted(k, msgs))
    /\ k \in linked => m \in sent[k] \/ Named(msgs, m)

\* A forwarder answers unless it did, or the child is gone.
LEMMA Provides ==
    ASSUME NEW known \in [Items -> {"none", "good", "absent"}], NEW k, NEW m \in Items,
           known[m] # "none", sent[k] \in SUBSET Modules
    PROVE  ForwarderSends(k, m, Provide(known, k, m))
<1>0. PICK msgs : msgs = Provide(known, k, m)
  OBVIOUS
<1>1. ASSUME NEW all, Distinct(all), Loaded(msgs, all), \A i \in 1..Len(all) : all[i] \notin sent[k],
             k \in linked => m \in sent[k] \/ \E i \in 1..Len(all) : all[i] = m
      PROVE  ForwarderSends(k, m, msgs)
  <2>1. Fresh(msgs, sent[k], Noted(k, msgs))
    <3>1. PICK s : s = sent[k]
      OBVIOUS
    <3>2. \A i \in 1..Len(all) : all[i] \notin s
      BY <1>1, <3>1
    <3>3. Fresh(msgs, s, Noted(k, msgs))
      BY <1>1, <3>1, <3>2, LoadedFresh
    <3> QED
      BY <3>1, <3>3
  <2>2. msgs \in Seq(LoadMessage)
    BY <1>1 DEF Loaded
  <2>3. Noted(k, msgs) \in SUBSET Modules
    BY DEF Noted
  <2>4. k \in linked => m \in sent[k] \/ Named(msgs, m)
    BY <1>1, LoadedNames
  <2> QED
    BY <2>1, <2>2, <2>3, <2>4 DEF ForwarderSends
<1>2. CASE k \notin linked
  <2>1. msgs = <<>>
    BY <1>0, <1>2 DEF Provide
  <2>2. PICK all : all = <<>>
    OBVIOUS
  <2>3. Distinct(all) /\ Loaded(msgs, all) /\ 1..Len(all) = {}
    BY <2>1, <2>2, LoadedNone
  <2> QED
    BY <1>0, <1>1, <1>2, <2>3
<1>3. CASE k \in linked
  <2>1. PICK S : S = {r \in Modules \ sent[k] : known[r] # "none"}
    OBVIOUS
  <2>2. PICK names : names = IF m \in Modules /\ known[m] = "good" THEN Among(Related[m], S) ELSE <<>>
    OBVIOUS
  <2>3. PICK more : more = Append(names, m)
    OBVIOUS
  <2>4. PICK all : all = IF m \in sent[k] THEN names ELSE more
    OBVIOUS
  <2>5. /\ Listed(names, m, S) /\ Listed(more, m, S)
        /\ \A i \in 1..Len(names) : names[i] \in S
        /\ \E i \in 1..Len(more) : more[i] = m
    <3>1. names = <<>> \/ (m \in Modules /\ names = Among(Related[m], S))
      BY <2>2
    <3>2. /\ Listed(names, m, S) /\ Listed(Append(names, m), m, S)
          /\ \A i \in 1..Len(names) : names[i] \in S
          /\ \E i \in 1..Len(Append(names, m)) : Append(names, m)[i] = m
      BY <3>1, ListAll
    <3> QED
      BY <2>3, <3>2
  <2>6. all \in Seq(Items) /\ Distinct(all) /\ DOMAIN all = 1..Len(all)
    BY <2>4, <2>5 DEF Listed
  <2>7. \A i \in 1..Len(all) : all[i] \notin sent[k] /\ all[i] \in Items /\ known[all[i]] \in {"good", "absent"}
    <3>1. \A i \in 1..Len(all) : all[i] \in Items /\ (all[i] = m \/ all[i] \in S)
      BY <2>4, <2>5, <2>6 DEF Listed
    <3>2. \A i \in 1..Len(all) : known[all[i]] \in {"good", "absent"}
      BY <2>1, <3>1
    <3>3. \A i \in 1..Len(all) : all[i] \notin sent[k]
      BY <2>1, <2>4, <2>5, <3>1
    <3> QED
      BY <3>1, <3>2, <3>3
  <2>8. m \in sent[k] \/ \E i \in 1..Len(all) : all[i] = m
    BY <2>4, <2>5
  <2>9. msgs = [i \in DOMAIN all |-> Load(all[i], known[all[i]])]
    BY <1>0, <1>3, <2>1, <2>2, <2>3, <2>4 DEF Provide
  <2>10. \A i \in 1..Len(all) : Load(all[i], known[all[i]]) \in LoadMessage
                                /\ Load(all[i], known[all[i]]).item = all[i]
    BY <2>7, Kinds DEF IsLoad
  <2>11. Loaded(msgs, all)
    <3>1. Len(all) \in Nat
      BY <2>6
    <3>2. msgs = [i \in 1..Len(all) |-> Load(all[i], known[all[i]])]
      BY <2>6, <2>9
    <3>3. msgs \in Seq(LoadMessage) /\ Len(msgs) = Len(all)
      BY <2>10, <3>1, <3>2
    <3>4. \A i \in 1..Len(all) : msgs[i].item = all[i]
      BY <2>10, <3>2
    <3> QED
      BY <3>3, <3>4 DEF Loaded
  <2> QED
    BY <1>0, <1>1, <2>6, <2>7, <2>8, <2>11
<1> QED
  BY <1>2, <1>3

(***************************************************************************)
(* What is pushed.                                                         *)
(***************************************************************************)
Progress == [out : Seq(DownMessage), sent : SUBSET (Modules \ Failing)]

\* Pushed(), one package further.
Further(acc, k, c, x) ==
    [out |-> acc.out \o Bundle(RootAnswer(acc.sent, x), k, c, x),
     sent |-> Recorded(acc.sent, RootAnswer(acc.sent, x))]

\* After q, to a child that knows what "known" says.
Sound(acc, q, known) ==
    RecordTrue(q \o acc.out, known, acc.sent) /\ InOrder(q \o acc.out, known)

\* What is written to a child, one after the other.
LEMMA DownConcat ==
    ASSUME NEW q \in Seq(DownMessage), NEW r \in Seq(DownMessage)
    PROVE  /\ q \o r \in Seq(DownMessage)
           /\ \A m : Named(q \o r, m) <=> Named(q, m) \/ Named(r, m)
           /\ \A u \in Seq(DownMessage) : (q \o r) \o u = q \o (r \o u)
<1>1. q \o r \in Seq(DownMessage)
  OBVIOUS
<1>2. \A m : Named(q \o r, m) <=> Named(q, m) \/ Named(r, m)
  BY NamedConcat
<1>3. ASSUME NEW u \in Seq(DownMessage) PROVE (q \o r) \o u = q \o (r \o u)
  BY ConcatAssociative
<1> QED
  BY <1>1, <1>2, <1>3

\* One package further: types.
LEMMA FurtherType ==
    ASSUME NEW acc \in Progress, NEW k, NEW c \in Children, NEW x \in Modules
    PROVE  /\ Further(acc, k, c, x) \in Progress
           /\ Bundle(RootAnswer(acc.sent, x), k, c, x) \in Seq(DownMessage)
<1>1. acc.out \in Seq(DownMessage) /\ acc.sent \in SUBSET (Modules \ Failing) /\ x \in Items
  BY DEF Progress, Items
<1>2. PICK msgs : msgs = RootAnswer(acc.sent, x)
  OBVIOUS
<1>3. msgs \in Seq(LoadMessage) /\ Recorded(acc.sent, msgs) \in SUBSET (Modules \ Failing)
  <2>1. RootSends(acc.sent, x, msgs)
    BY <1>1, <1>2, RootAnswers
  <2> QED
    BY <2>1 DEF RootSends
<1>4. PICK b : b = Bundle(msgs, k, c, x)
  OBVIOUS
<1>5. b \in Seq(DownMessage)
  <2>1. msgs \in Seq(DownMessage)
    BY <1>3 DEF DownMessage
  <2>2. PICK f : f = Forward(x, c) /\ f \in DownMessage
    BY Kinds DEF DownMessage
  <2>3. <<f>> \in Seq(DownMessage) /\ <<>> \in Seq(DownMessage)
    BY <2>2
  <2>4. msgs \o <<f>> \in Seq(DownMessage) /\ msgs \o <<>> \in Seq(DownMessage)
    BY <2>1, <2>3, Concat
  <2> QED
    BY <1>4, <2>2, <2>4 DEF Bundle
<1>6. acc.out \o b \in Seq(DownMessage)
  BY <1>1, <1>5, Concat
<1> QED
  BY <1>2, <1>3, <1>4, <1>5, <1>6 DEF Further, Progress

\* One package further: what it does to the records.
LEMMA FurtherSound ==
    ASSUME NEW acc \in Progress, NEW k, NEW c \in Children, NEW x \in Modules,
           NEW q \in Seq(DownMessage), NEW known, Sound(acc, q, known)
    PROVE  Sound(Further(acc, k, c, x), q, known)
<1>1. acc.out \in Seq(DownMessage) /\ acc.sent \in SUBSET (Modules \ Failing) /\ x \in Items
  BY DEF Progress, Items
<1>2. PICK msgs, s2 : msgs = RootAnswer(acc.sent, x) /\ s2 = Recorded(acc.sent, msgs)
  OBVIOUS
<1>3. msgs \in Seq(LoadMessage) /\ Fresh(msgs, acc.sent, s2) /\ (x \in acc.sent \/ Named(msgs, x))
  <2>1. RootSends(acc.sent, x, msgs)
    BY <1>1, <1>2, RootAnswers
  <2>2. ~Unanswerable(x)
    BY ImportsAssumption DEF Unanswerable
  <2> QED
    BY <1>2, <2>1, <2>2 DEF RootSends
<1>4. msgs \in Seq(DownMessage)
  BY <1>3 DEF DownMessage
<1>5. PICK r : r = q \o acc.out /\ r \in Seq(DownMessage)
  BY <1>1, Concat
<1>6. RecordTrue(r, known, acc.sent) /\ InOrder(r, known)
  BY <1>5 DEF Sound
<1>7. PICK r1 : r1 = r \o msgs /\ r1 \in Seq(DownMessage)
  BY <1>4, <1>5, Concat
<1>8. RecordTrue(r1, known, s2) /\ InOrder(r1, known)
  BY <1>3, <1>4, <1>5, <1>6, <1>7, RecordJoin, OrderJoin
<1>9. known[x] # "none" \/ Named(r1, x)
  <2>1. Named(r1, x) <=> Named(r, x) \/ Named(msgs, x)
    <3>1. Named(r \o msgs, x) <=> Named(r, x) \/ Named(msgs, x)
      BY <1>4, <1>5, DownConcat
    <3> QED
      BY <1>7, <3>1
  <2> QED
    BY <1>3, <1>6, <2>1 DEF RecordTrue
<1>10. PICK b : b = Bundle(msgs, k, c, x) /\ b \in Seq(DownMessage)
  BY <1>2, FurtherType
<1>11. PICK r2 : r2 = r \o b
  OBVIOUS
<1>12. RecordTrue(r2, known, s2) /\ InOrder(r2, known)
  <2>1. CASE k = c
    <3>1. b = msgs
      BY <1>4, <1>10, <2>1 DEF Bundle
    <3> QED
      BY <1>7, <1>8, <1>11, <3>1
  <2>2. CASE k # c
    <3>1. PICK f : f = <<Forward(x, c)>> /\ f \in Seq(DownMessage)
      <4>1. PICK y : y = Forward(x, c) /\ y \in DownMessage
        BY Kinds DEF DownMessage
      <4>2. <<y>> \in Seq(DownMessage)
        BY <4>1
      <4> QED
        BY <4>1, <4>2
    <3>2. b = msgs \o f
      BY <1>10, <2>2, <3>1 DEF Bundle
    <3>3. r2 = r1 \o f
      <4>1. (r \o msgs) \o f = r \o (msgs \o f)
        <5>1. f \in Seq(DownMessage)
          BY <3>1
        <5>2. \A u \in Seq(DownMessage) : (r \o msgs) \o u = r \o (msgs \o u)
          BY <1>4, <1>5, DownConcat, Zenon
        <5> QED
          BY <5>1, <5>2
      <4> QED
        BY <1>7, <1>11, <3>2, <4>1
    <3>4. Fresh(f, s2, s2)
      BY <3>1, FreshForward
    <3>5. RecordTrue(r1 \o f, known, s2)
      BY <1>7, <1>8, <3>1, <3>4, RecordJoin
    <3>6. InOrder(r1 \o f, known)
      BY <1>7, <1>8, <1>9, <3>1, OrderForward
    <3> QED
      BY <3>3, <3>5, <3>6
  <2> QED
    BY <2>1, <2>2
<1>13. q \o (acc.out \o b) = r2
  <2>1. (q \o acc.out) \o b = q \o (acc.out \o b)
    <3>1. \A u \in Seq(DownMessage) : (q \o acc.out) \o u = q \o (acc.out \o u)
      BY <1>1, DownConcat, Zenon
    <3> QED
      BY <1>10, <3>1
  <2> QED
    BY <1>5, <1>11, <2>1
<1>14. Further(acc, k, c, x) = [out |-> acc.out \o b, sent |-> s2]
  BY <1>2, <1>10 DEF Further
<1>15. PICK next : next = Further(acc, k, c, x)
  OBVIOUS
<1>16. next.out = acc.out \o b /\ next.sent = s2
  BY <1>14, <1>15
<1>17. Sound(next, q, known)
  BY <1>12, <1>13, <1>16 DEF Sound
<1> QED
  BY <1>15, <1>17

\* All the packages and the module.
LEMMA PushedSound ==
    ASSUME NEW before \in SUBSET (Modules \ Failing), NEW k, NEW c \in Children, NEW m \in Modules
    PROVE  /\ Pushed(before, k, c, m) \in Progress
           /\ \A q \in Seq(DownMessage) : \A known :
                RecordTrue(q, known, before) /\ InOrder(q, known) => Sound(Pushed(before, k, c, m), q, known)
<1>1. PICK n, p : n = Len(p) /\ n \in Nat /\ p = Path[m] /\ p \in Seq(Modules)
  <2>1. Path[m] \in Seq(Modules)
    BY ImportsAssumption
  <2>2. Len(Path[m]) \in Nat
    BY <2>1
  <2> QED
    BY <2>1, <2>2
<1>2. \A i \in 1..n : p[i] \in Modules
  BY <1>1
<1>3. PICK a : a = [out |-> <<>>, sent |-> before] /\ a \in Progress
  <2>1. <<>> \in Seq(DownMessage)
    OBVIOUS
  <2>2. [out |-> <<>>, sent |-> before] \in Progress
    BY <2>1, Zenon DEF Progress
  <2> QED
    BY <2>2
<1>4. PICK G : G = [i \in 1..n |-> [acc \in Progress |-> Further(acc, k, c, p[i])]]
  OBVIOUS
<1>5. \A i \in 1..n : \A acc \in Progress : Further(acc, k, c, p[i]) \in Progress
  BY <1>2, FurtherType
<1>6. G \in [1..n -> [Progress -> Progress]]
  BY <1>4, <1>5
<1>7. PICK g \in [0..n -> Progress] : Iterates(g, G, a, n)
  BY <1>1, <1>3, <1>6, IterateExists
<1>8. ASSUME NEW i \in 0..n PROVE g[i] = IF i = 0 THEN a ELSE Further(g[i - 1], k, c, p[i])
  <2>1. CASE i = 0
    BY <1>7, <2>1 DEF Iterates
  <2>2. CASE i # 0
    <3>1. i \in 1..n /\ i - 1 \in 0..n
      BY <1>1, <2>2
    <3>2. g[i] = G[i][g[i - 1]] /\ g[i - 1] \in Progress
      BY <1>7, <3>1 DEF Iterates
    <3> QED
      BY <1>4, <2>2, <3>1, <3>2
  <2> QED
    BY <2>1, <2>2
<1>9. g = [i \in 0..n |-> IF i = 0 THEN a ELSE Further(g[i - 1], k, c, p[i])]
  BY <1>8
<1>10. \E f : f = [i \in 0..Len(Path[m]) |->
                    IF i = 0 THEN [out |-> <<>>, sent |-> before]
                    ELSE [out |-> f[i - 1].out \o Bundle(RootAnswer(f[i - 1].sent, Path[m][i]), k, c, Path[m][i]),
                          sent |-> Recorded(f[i - 1].sent, RootAnswer(f[i - 1].sent, Path[m][i]))]]
  <2>1. ASSUME NEW i \in 0..Len(Path[m])
        PROVE g[i] = IF i = 0 THEN [out |-> <<>>, sent |-> before]
                    ELSE [out |-> g[i - 1].out \o Bundle(RootAnswer(g[i - 1].sent, Path[m][i]), k, c, Path[m][i]),
                          sent |-> Recorded(g[i - 1].sent, RootAnswer(g[i - 1].sent, Path[m][i]))]
    <3>1. i \in 0..n
      BY <1>1
    <3>2. g[i] = IF i = 0 THEN a ELSE Further(g[i - 1], k, c, p[i])
      BY <1>8, <3>1
    <3> QED
      BY <1>1, <1>3, <3>2 DEF Further
  <2>2. g = [i \in 0..Len(Path[m]) |->
                    IF i = 0 THEN [out |-> <<>>, sent |-> before]
                    ELSE [out |-> g[i - 1].out \o Bundle(RootAnswer(g[i - 1].sent, Path[m][i]), k, c, Path[m][i]),
                          sent |-> Recorded(g[i - 1].sent, RootAnswer(g[i - 1].sent, Path[m][i]))]]
    BY <1>1, <2>1
  <2> QED
    BY <2>2
<1>11. PICK f : /\ Pushed(before, k, c, m) = f[Len(Path[m])]
                /\ f = [i \in 0..Len(Path[m]) |->
                    IF i = 0 THEN [out |-> <<>>, sent |-> before]
                    ELSE [out |-> f[i - 1].out \o Bundle(RootAnswer(f[i - 1].sent, Path[m][i]), k, c, Path[m][i]),
                          sent |-> Recorded(f[i - 1].sent, RootAnswer(f[i - 1].sent, Path[m][i]))]]
  BY <1>10, Zenon DEF Pushed
<1>12. \A i \in 0..Len(Path[m]) :
         f[i] = IF i = 0 THEN [out |-> <<>>, sent |-> before]
                    ELSE [out |-> f[i - 1].out \o Bundle(RootAnswer(f[i - 1].sent, Path[m][i]), k, c, Path[m][i]),
                          sent |-> Recorded(f[i - 1].sent, RootAnswer(f[i - 1].sent, Path[m][i]))]
  BY <1>11
<1>13. \A i \in 0..n : f[i] = IF i = 0 THEN a ELSE Further(f[i - 1], k, c, p[i])
  BY <1>1, <1>3, <1>12 DEF Further
<1> DEFINE Good(acc) ==
      /\ acc \in Progress
      /\ \A q \in Seq(DownMessage) : \A known :
            RecordTrue(q, known, before) /\ InOrder(q, known) => Sound(acc, q, known)
<1> DEFINE T == {i \in 0..n : Good(f[i])}
<1>14. Good(a)
  <2>1. ASSUME NEW q \in Seq(DownMessage) PROVE q \o a.out = q
    BY <1>3
  <2> QED
    BY <1>3, <2>1 DEF Sound
<1>15. ASSUME NEW acc, NEW x \in Modules, Good(acc) PROVE Good(Further(acc, k, c, x))
  BY <1>15, FurtherType, FurtherSound
<1> HIDE DEF Good
<1>16. 0 \in T
  <2>1. 0 \in 0..n /\ f[0] = a
    BY <1>1, <1>13
  <2> QED
    BY <1>14, <2>1
<1>17. ASSUME NEW i \in 0..n, i \in T, i < n PROVE i + 1 \in T
  <2>1. i + 1 \in 0..n /\ i + 1 # 0 /\ (i + 1) - 1 = i /\ i + 1 \in 1..n
    BY <1>1, <1>17
  <2>2. f[i + 1] = Further(f[i], k, c, p[i + 1])
    BY <1>13, <2>1
  <2>3. Good(f[i]) /\ p[i + 1] \in Modules
    BY <1>2, <1>17, <2>1
  <2>4. Good(Further(f[i], k, c, p[i + 1]))
    BY <1>15, <2>3
  <2> QED
    BY <2>1, <2>2, <2>4
<1>18. Good(f[n])
  <2> HIDE DEF T
  <2>1. 0..n \subseteq T
    BY <1>1, <1>16, <1>17, Climb
  <2>2. n \in T
    BY <1>1, <2>1
  <2> QED
    BY <2>2 DEF T
<1>19. Pushed(before, k, c, m) = f[n]
  BY <1>1, <1>11
<1> QED
  BY <1>18, <1>19 DEF Good

(***************************************************************************)
(* The tree and its links.                                                 *)
(***************************************************************************)

\* A lineage has the parents of its contexts, and nothing else is needed.
LEMMA LineageLemma ==
    ASSUME NEW t \in Nodes
    PROVE  /\ t \in Lineage(t) /\ Lineage(t) \in SUBSET Nodes /\ Root \in Lineage(t)
           /\ \A x \in Lineage(t) \ {Root} : Parent[x] \in Lineage(t)
           /\ \A S \in SUBSET Nodes :
                t \in S /\ (\A x \in S \ {Root} : Parent[x] \in S) => Lineage(t) \subseteq S
<1>1. Root \in Lineage(t)
  BY TreeAssumption
<1>2. t \in Lineage(t) /\ Lineage(t) \in SUBSET Nodes
  BY DEF Lineage
<1>3. ASSUME NEW x \in Lineage(t) \ {Root} PROVE Parent[x] \in Lineage(t)
  <2>1. Parent[x] \in Nodes
    BY <1>2, ImportsAssumption DEF Children
  <2>2. \A S \in WithParents : t \in S => Parent[x] \in S
    BY DEF Lineage, WithParents
  <2> QED
    BY <2>1, <2>2 DEF Lineage
<1>4. ASSUME NEW S \in SUBSET Nodes, t \in S, \A x \in S \ {Root} : Parent[x] \in S
      PROVE  Lineage(t) \subseteq S
  <2>1. S \in WithParents
    BY <1>4 DEF WithParents
  <2> QED
    BY <1>4, <2>1 DEF Lineage
<1> QED
  BY <1>1, <1>2, <1>3, <1>4

\* A context is neither its own parent nor its parent's.
LEMMA NoLoop ==
    ASSUME NEW c \in Children
    PROVE  /\ Parent[c] \in Nodes /\ Parent[c] # c
           /\ \A d \in Children : ~(Parent[c] = d /\ Parent[d] = c)
<1>1. c \in Nodes /\ c # Root /\ Parent[c] \in Nodes
  BY ImportsAssumption DEF Children
<1>2. ASSUME NEW d \in Children, Parent[c] = d, Parent[d] = c PROVE FALSE
  <2>1. d \in Nodes /\ d # Root
    BY DEF Children
  <2>2. {c, d} \in SUBSET Nodes /\ c \in {c, d} /\ \A x \in {c, d} \ {Root} : Parent[x] \in {c, d}
    BY <1>1, <1>2, <2>1
  <2>3. Lineage(c) \subseteq {c, d}
    BY <1>1, <2>2, LineageLemma
  <2>4. Root \in Lineage(c)
    BY <1>1, LineageLemma
  <2> QED
    BY <1>1, <2>1, <2>3, <2>4
<1>3. Parent[c] # c
  BY <1>2
<1> QED
  BY <1>1, <1>2, <1>3

\* The first hop towards a descendant is a child.
LEMMA HopIsChild ==
    ASSUME NEW n \in Nodes, NEW c \in Nodes, Route(n, c)
    PROVE  Hop(n, c) \in Children /\ Parent[Hop(n, c)] = n /\ Hop(n, c) \in linked
<1>1. n \in Lineage(c) /\ n # c /\ Hop(n, c) \in linked
  BY DEF Route
<1>2. \E k \in Lineage(c) : k # Root /\ Parent[k] = n
  <2>1. SUFFICES ASSUME \A k \in Lineage(c) : ~(k # Root /\ Parent[k] = n) PROVE FALSE
    OBVIOUS
  <2>2. PICK S : S = Lineage(c) \ {n}
    OBVIOUS
  <2>3. S \in SUBSET Nodes /\ c \in S
    BY <1>1, <2>2, LineageLemma
  <2>4. \A x \in S \ {Root} : Parent[x] \in S
    BY <2>1, <2>2, LineageLemma
  <2>5. Lineage(c) \subseteq S
    BY <2>3, <2>4, LineageLemma
  <2> QED
    BY <1>1, <2>2, <2>5
<1>3. Hop(n, c) \in Lineage(c) /\ Hop(n, c) # Root /\ Parent[Hop(n, c)] = n
  BY <1>2 DEF Hop
<1>4. Hop(n, c) \in Nodes
  BY <1>3, LineageLemma
<1> QED
  BY <1>1, <1>3, <1>4 DEF Children

\* Each link is that from a child to its parent or from a parent to its child.
LEMMA LinkLemma ==
    /\ \A c \in Children : /\ Up(c) \in Links /\ Up(c)[1] = c /\ Up(c)[2] = Parent[c]
                           /\ Down(c) \in Links /\ Down(c)[1] = Parent[c] /\ Down(c)[2] = c
    /\ \A c, d \in Children : /\ Up(c) = Up(d) <=> c = d
                              /\ Down(c) = Down(d) <=> c = d
                              /\ Up(c) # Down(d)
    /\ \A e \in Links : \E c \in Children : e = Up(c) \/ e = Down(c)
<1>1. ASSUME NEW c \in Children
      PROVE  /\ Up(c) \in Links /\ Up(c)[1] = c /\ Up(c)[2] = Parent[c]
             /\ Down(c) \in Links /\ Down(c)[1] = Parent[c] /\ Down(c)[2] = c
  <2>1. c \in Nodes /\ Parent[c] \in Nodes
    BY NoLoop DEF Children
  <2> QED
    BY <2>1 DEF Up, Down, Links
<1>2. ASSUME NEW c \in Children, NEW d \in Children
      PROVE  /\ Up(c) = Up(d) <=> c = d
             /\ Down(c) = Down(d) <=> c = d
             /\ Up(c) # Down(d)
  <2>1. ~(Parent[c] = d /\ Parent[d] = c)
    BY NoLoop
  <2> QED
    BY <2>1 DEF Up, Down
<1>3. \A e \in Links : \E c \in Children : e = Up(c) \/ e = Down(c)
  BY DEF Links, Up, Down
<1> QED
  BY <1>1, <1>2, <1>3

\* What ChanOK() says of the links is what TypeOK says.
LEMMA ChanTyped ==
    ASSUME NEW ch
    PROVE  ChanOK(ch) <=>
           /\ ch \in [Links -> Seq(Message)]
           /\ \A c \in Children :
               /\ \A i \in DOMAIN ch[<<c, Parent[c]>>] : ch[<<c, Parent[c]>>][i].kind = "GET"
               /\ \A i \in DOMAIN ch[<<Parent[c], c>>] : ch[<<Parent[c], c>>][i].kind # "GET"
<1>1. \A q \in Seq(DownMessage) : q \in Seq(Message) /\ \A i \in DOMAIN q : q[i].kind # "GET"
  <2>1. ASSUME NEW q \in Seq(DownMessage) PROVE q \in Seq(Message) /\ \A i \in DOMAIN q : q[i].kind # "GET"
    <3>1. q \in Seq(Message)
      BY Kinds
    <3>2. \A i \in DOMAIN q : q[i] \in LoadMessage \cup ForwardMessage
      BY DEF DownMessage
    <3> QED
      BY <3>1, <3>2, Kinds
  <2> QED
    BY <2>1
<1>2. \A q \in Seq(GetMessage) : q \in Seq(Message) /\ \A i \in DOMAIN q : q[i].kind = "GET"
  <2>1. ASSUME NEW q \in Seq(GetMessage) PROVE q \in Seq(Message) /\ \A i \in DOMAIN q : q[i].kind = "GET"
    <3>1. q \in Seq(Message)
      BY Kinds
    <3>2. \A i \in DOMAIN q : q[i] \in GetMessage
      OBVIOUS
    <3> QED
      BY <3>1, <3>2, Kinds
  <2> QED
    BY <2>1
<1>3. ASSUME NEW q \in Seq(Message), \A i \in DOMAIN q : q[i].kind = "GET" PROVE q \in Seq(GetMessage)
  <2>1. \A i \in 1..Len(q) : q[i] \in GetMessage
    <3>1. ASSUME NEW i \in 1..Len(q) PROVE q[i] \in GetMessage
      <4>1. q[i] \in Message /\ q[i].kind = "GET"
        BY <1>3
      <4> QED
        BY <4>1, Kinds DEF DownMessage
    <3> QED
      BY <3>1
  <2> QED
    BY <2>1
<1>4. ASSUME NEW q \in Seq(Message), \A i \in DOMAIN q : q[i].kind # "GET" PROVE q \in Seq(DownMessage)
  <2>1. \A i \in 1..Len(q) : q[i] \in DownMessage
    <3>1. ASSUME NEW i \in 1..Len(q) PROVE q[i] \in DownMessage
      <4>1. q[i] \in Message /\ q[i].kind # "GET"
        BY <1>4
      <4> QED
        BY <4>1, Kinds
    <3> QED
      BY <3>1
  <2> QED
    BY <2>1
<1>5. ASSUME ChanOK(ch) PROVE ch \in [Links -> Seq(Message)]
  <2>1. \A c \in Children : ch[Down(c)] \in Seq(Message) /\ ch[Up(c)] \in Seq(Message)
    BY <1>1, <1>2, <1>5 DEF ChanOK
  <2>2. \A e \in Links : ch[e] \in Seq(Message)
    BY <2>1, LinkLemma
  <2> QED
    BY <1>5, <2>2 DEF ChanOK
<1>6. ASSUME ChanOK(ch), NEW c \in Children
      PROVE  /\ \A i \in DOMAIN ch[<<c, Parent[c]>>] : ch[<<c, Parent[c]>>][i].kind = "GET"
             /\ \A i \in DOMAIN ch[<<Parent[c], c>>] : ch[<<Parent[c], c>>][i].kind # "GET"
  <2>1. ch[Down(c)] \in Seq(DownMessage) /\ ch[Up(c)] \in Seq(GetMessage)
    BY <1>6 DEF ChanOK
  <2> QED
    BY <1>1, <1>2, <2>1 DEF Up, Down
<1>7. ASSUME ch \in [Links -> Seq(Message)],
             \A c \in Children :
               /\ \A i \in DOMAIN ch[<<c, Parent[c]>>] : ch[<<c, Parent[c]>>][i].kind = "GET"
               /\ \A i \in DOMAIN ch[<<Parent[c], c>>] : ch[<<Parent[c], c>>][i].kind # "GET"
      PROVE  ChanOK(ch)
  <2>1. ASSUME NEW c \in Children PROVE ch[Down(c)] \in Seq(DownMessage) /\ ch[Up(c)] \in Seq(GetMessage)
    <3>1. PICK q, u : q = ch[Down(c)] /\ u = ch[Up(c)]
      OBVIOUS
    <3>2. q \in Seq(Message) /\ u \in Seq(Message)
      BY <1>7, <3>1, LinkLemma
    <3>3. (\A i \in DOMAIN u : u[i].kind = "GET") /\ \A i \in DOMAIN q : q[i].kind # "GET"
      BY <1>7, <3>1 DEF Up, Down
    <3> QED
      BY <1>3, <1>4, <3>1, <3>2, <3>3
  <2> QED
    BY <1>7, <2>1 DEF ChanOK
<1> QED
  BY <1>5, <1>6, <1>7

\* A parent writes to a child.
LEMMA WriteDown ==
    ASSUME NEW ch, ChanOK(ch), NEW d \in Children, NEW b \in Seq(DownMessage),
           NEW ch2, ch2 = Write(ch, Down(d), b)
    PROVE  /\ ChanOK(ch2)
           /\ \A c \in Children : ch2[Up(c)] = ch[Up(c)]
           /\ \A c \in Children : c # d => ch2[Down(c)] = ch[Down(c)]
           /\ ch2[Down(d)] = IF d \in alive THEN ch[Down(d)] \o b ELSE ch[Down(d)]
<1>1. /\ Down(d) \in Links /\ Down(d)[2] = d
      /\ \A c \in Children : Up(c) \in Links /\ Down(c) \in Links
      /\ \A c \in Children : Up(c) # Down(d) /\ (c # d => Down(c) # Down(d))
  BY LinkLemma
<1>2. ch = [e \in Links |-> ch[e]]
  BY DEF ChanOK
<1>3. \A e \in Links : ch2[e] = IF e = Down(d) /\ d \in alive THEN ch[e] \o b ELSE ch[e]
  BY <1>1, <1>2 DEF Write
<1>4. ch2 = [e \in Links |-> ch2[e]]
  BY <1>1, <1>2 DEF Write
<1>5. ch[Down(d)] \o b \in Seq(DownMessage)
  <2>1. ch[Down(d)] \in Seq(DownMessage)
    BY DEF ChanOK
  <2> QED
    BY <2>1
<1>6. \A c \in Children : ch2[Up(c)] = ch[Up(c)]
  BY <1>1, <1>3
<1>7. \A c \in Children : c # d => ch2[Down(c)] = ch[Down(c)]
  BY <1>1, <1>3
<1>8. ch2[Down(d)] = IF d \in alive THEN ch[Down(d)] \o b ELSE ch[Down(d)]
  BY <1>1, <1>3
<1>9. ChanOK(ch2)
  <2>1. \A c \in Children : ch2[Down(c)] \in Seq(DownMessage) /\ ch2[Up(c)] \in Seq(GetMessage)
    BY <1>5, <1>6, <1>7, <1>8 DEF ChanOK
  <2> QED
    BY <1>4, <2>1 DEF ChanOK
<1> QED
  BY <1>6, <1>7, <1>8, <1>9

\* A child writes to its parent.
LEMMA WriteUp ==
    ASSUME NEW ch, ChanOK(ch), NEW d \in Children, NEW b \in Seq(GetMessage),
           NEW ch2, ch2 = Write(ch, Up(d), b)
    PROVE  /\ ChanOK(ch2)
           /\ \A c \in Children : ch2[Down(c)] = ch[Down(c)]
           /\ \A c \in Children : c # d => ch2[Up(c)] = ch[Up(c)]
           /\ ch2[Up(d)] = IF Parent[d] \in alive THEN ch[Up(d)] \o b ELSE ch[Up(d)]
<1>1. /\ Up(d) \in Links /\ Up(d)[2] = Parent[d]
      /\ \A c \in Children : Up(c) \in Links /\ Down(c) \in Links
      /\ \A c \in Children : Up(d) # Down(c) /\ (c # d => Up(c) # Up(d))
  BY LinkLemma
<1>2. ch = [e \in Links |-> ch[e]]
  BY DEF ChanOK
<1>3. \A e \in Links : ch2[e] = IF e = Up(d) /\ Parent[d] \in alive THEN ch[e] \o b ELSE ch[e]
  BY <1>1, <1>2 DEF Write
<1>4. ch2 = [e \in Links |-> ch2[e]]
  BY <1>1, <1>2 DEF Write
<1>5. ch[Up(d)] \o b \in Seq(GetMessage)
  <2>1. ch[Up(d)] \in Seq(GetMessage)
    BY DEF ChanOK
  <2> QED
    BY <2>1
<1>6. \A c \in Children : ch2[Down(c)] = ch[Down(c)]
  BY <1>1, <1>3
<1>7. \A c \in Children : c # d => ch2[Up(c)] = ch[Up(c)]
  BY <1>1, <1>3
<1>8. ch2[Up(d)] = IF Parent[d] \in alive THEN ch[Up(d)] \o b ELSE ch[Up(d)]
  BY <1>1, <1>3
<1>9. ChanOK(ch2)
  <2>1. \A c \in Children : ch2[Down(c)] \in Seq(DownMessage) /\ ch2[Up(c)] \in Seq(GetMessage)
    BY <1>5, <1>6, <1>7, <1>8 DEF ChanOK
  <2> QED
    BY <1>4, <2>1 DEF ChanOK
<1> QED
  BY <1>6, <1>7, <1>8, <1>9

\* A message is read.
LEMMA ReadOne ==
    ASSUME ChanOK(chan), NEW d \in Children
    PROVE  /\ chan[Down(d)] # <<>> =>
                /\ ChanOK(Rest(Down(d)))
                /\ \A c \in Children : Rest(Down(d))[Up(c)] = chan[Up(c)]
                /\ \A c \in Children : c # d => Rest(Down(d))[Down(c)] = chan[Down(c)]
                /\ Rest(Down(d))[Down(d)] = Tail(chan[Down(d)])
           /\ chan[Up(d)] # <<>> =>
                /\ ChanOK(Rest(Up(d)))
                /\ \A c \in Children : Rest(Up(d))[Down(c)] = chan[Down(c)]
                /\ \A c \in Children : c # d => Rest(Up(d))[Up(c)] = chan[Up(c)]
                /\ Rest(Up(d))[Up(d)] = Tail(chan[Up(d)])
<1>1. /\ \A c \in Children : Up(c) \in Links /\ Down(c) \in Links
      /\ \A c \in Children : /\ Up(c) # Down(d) /\ Down(c) # Up(d)
                             /\ c # d => Down(c) # Down(d) /\ Up(c) # Up(d)
  BY LinkLemma
<1>2. chan = [e \in Links |-> chan[e]]
  BY DEF ChanOK
<1>3. chan[Down(d)] \in Seq(DownMessage) /\ chan[Up(d)] \in Seq(GetMessage)
  BY DEF ChanOK
<1>4. ASSUME chan[Down(d)] # <<>>
      PROVE  /\ ChanOK(Rest(Down(d)))
             /\ \A c \in Children : Rest(Down(d))[Up(c)] = chan[Up(c)]
             /\ \A c \in Children : c # d => Rest(Down(d))[Down(c)] = chan[Down(c)]
             /\ Rest(Down(d))[Down(d)] = Tail(chan[Down(d)])
  <2>1. PICK ch2 : ch2 = Rest(Down(d))
    OBVIOUS
  <2>2. /\ ch2 = [e \in Links |-> ch2[e]]
        /\ \A e \in Links : ch2[e] = IF e = Down(d) THEN Tail(chan[e]) ELSE chan[e]
    BY <1>2, <2>1 DEF Rest
  <2>3. Tail(chan[Down(d)]) \in Seq(DownMessage)
    BY <1>3, <1>4
  <2>4. \A c \in Children : ch2[Down(c)] \in Seq(DownMessage) /\ ch2[Up(c)] \in Seq(GetMessage)
    BY <1>1, <2>2, <2>3 DEF ChanOK
  <2>5. ChanOK(ch2)
    BY <2>2, <2>4 DEF ChanOK
  <2> QED
    BY <1>1, <2>1, <2>2, <2>5
<1>5. ASSUME chan[Up(d)] # <<>>
      PROVE  /\ ChanOK(Rest(Up(d)))
             /\ \A c \in Children : Rest(Up(d))[Down(c)] = chan[Down(c)]
             /\ \A c \in Children : c # d => Rest(Up(d))[Up(c)] = chan[Up(c)]
             /\ Rest(Up(d))[Up(d)] = Tail(chan[Up(d)])
  <2>1. PICK ch2 : ch2 = Rest(Up(d))
    OBVIOUS
  <2>2. /\ ch2 = [e \in Links |-> ch2[e]]
        /\ \A e \in Links : ch2[e] = IF e = Up(d) THEN Tail(chan[e]) ELSE chan[e]
    BY <1>2, <2>1 DEF Rest
  <2>3. Tail(chan[Up(d)]) \in Seq(GetMessage)
    BY <1>3, <1>5
  <2>4. \A c \in Children : ch2[Down(c)] \in Seq(DownMessage) /\ ch2[Up(c)] \in Seq(GetMessage)
    BY <1>1, <2>2, <2>3 DEF ChanOK
  <2>5. ChanOK(ch2)
    BY <2>2, <2>4 DEF ChanOK
  <2> QED
    BY <1>1, <2>1, <2>2, <2>5
<1> QED
  BY <1>4, <1>5

(***************************************************************************)
(* The invariant holds initially.                                          *)
(***************************************************************************)

\* The constants, as the steps use them.
LEMMA Constants ==
    /\ Children \subseteq Nodes /\ Root \notin Children /\ Root \in Nodes
    /\ Modules \subseteq Items /\ Threads \cap Children = {}
    /\ Home \in [Threads -> Children] /\ \A t \in Threads : Script[t] \in Seq(Items) /\ Len(Script[t]) \in Nat
<1>1. Threads \cap Children = {} /\ Children \subseteq Nodes /\ Root \notin Children
  BY ImportsAssumption DEF Children
<1>2. \A t \in Threads : Script[t] \in Seq(Items) /\ Len(Script[t]) \in Nat
  <2>1. \A s \in Seq(Items) : Len(s) \in Nat
    OBVIOUS
  <2> QED
    BY <2>1, ImportsAssumption
<1> QED
  BY <1>1, <1>2, ImportsAssumption DEF Items

\* Nothing is on an empty queue.
LEMMA EmptyQueue ==
    /\ <<>> \in Seq(DownMessage) /\ <<>> \in Seq(GetMessage)
    /\ \A m : ~Named(<<>>, m) /\ Single(<<>>, m)
    /\ \A known : InOrder(<<>>, known)
<1>1. <<>> \in Seq(DownMessage) /\ <<>> \in Seq(GetMessage) /\ 1..Len(<<>>) = {}
  OBVIOUS
<1> QED
  BY <1>1 DEF Named, Single, InOrder

\* The invariant holds initially.
LEMMA InitInv == Init => IInv
<1> SUFFICES ASSUME Init PROVE IInv
  OBVIOUS
<1>1. /\ alive = Nodes /\ linked = Children /\ deaths = 0
      /\ chan = [e \in Links |-> <<>>]
      /\ cache = [c \in Children |-> [m \in Items |-> "none"]]
      /\ callbacks = [c \in Children |-> [m \in Items |-> {}]]
      /\ sent = [c \in Children |-> {}]
      /\ imported = [c \in Children |-> {}]
      /\ at = [t \in Threads |-> 1]
      /\ state = [t \in Threads |-> "run"]
      /\ toPush = Pushes
  BY DEF Init
<1>2. \A c \in Children : chan[Down(c)] = <<>> /\ chan[Up(c)] = <<>>
  BY <1>1, LinkLemma
<1>3. ChanOK(chan)
  <2>1. chan = [e \in Links |-> chan[e]]
    BY <1>1
  <2> QED
    BY <1>2, <2>1, EmptyQueue DEF ChanOK
<1>4. Types
  <2>1. 0 \in 0..MaxDeaths
    BY ImportsAssumption
  <2>2. \A t \in Threads : at[t] \in 1..Len(Script[t]) + 1
    BY <1>1, Constants
  <2>3. /\ cache \in [Children -> [Items -> {"none", "good", "absent"}]]
        /\ callbacks \in [Children -> [Items -> SUBSET (Threads \cup Children)]]
        /\ sent \in [Children -> SUBSET Modules]
        /\ imported \in [Children -> SUBSET Items]
        /\ at \in [Threads -> Nat]
        /\ state \in [Threads -> {"run", "wait", "told", "failed"}]
    BY <1>1
  <2> QED
    BY <1>1, <1>3, <2>1, <2>2, <2>3, Constants DEF Types
<1>5. Scripts /\ Waiters /\ Callers /\ Connected /\ Pending /\ RootSent
  BY <1>1 DEF Scripts, Waiters, Callers, Connected, Pending, InFlight, RootSent
<1>6. Records
  <2>1. ASSUME NEW c \in Children PROVE RecordTrue(chan[Down(c)], cache[c], sent[c])
    <3>1. sent[c] = {} /\ \A m \in Modules : cache[c][m] = "none"
      BY <1>1, Constants
    <3> QED
      BY <1>2, <3>1, EmptyQueue DEF RecordTrue
  <2> QED
    BY <2>1 DEF Records
<1>7. Orders
  BY <1>2, EmptyQueue DEF Orders
<1>8. Requested
  BY <1>1 DEF Requested, InFlight
<1> QED
  BY <1>4, <1>5, <1>6, <1>7, <1>8 DEF IInv

(***************************************************************************)
(* Requests.                                                               *)
(***************************************************************************)

\* What is asked for by two sequences, and by the first and the rest.
LEMMA AskedParts ==
    ASSUME NEW u \in Seq(GetMessage)
    PROVE  /\ \A v \in Seq(GetMessage) : \A m : Asked(u \o v, m) <=> Asked(u, m) \/ Asked(v, m)
           /\ u # <<>> => /\ Head(u).item \in Items
                          /\ \A m : Asked(u, m) => m = Head(u).item \/ Asked(Tail(u), m)
           /\ \A m : Asked(<<Get(m)>>, m)
<1>1. ASSUME NEW v \in Seq(GetMessage), NEW m PROVE Asked(u \o v, m) <=> Asked(u, m) \/ Asked(v, m)
  <2>1. PICK w : w = u \o v
    OBVIOUS
  <2>2. /\ Len(u) \in Nat /\ Len(v) \in Nat /\ Len(w) = Len(u) + Len(v)
        /\ \A i \in 1..Len(u) : w[i] = u[i]
        /\ \A i \in 1..Len(v) : w[i + Len(u)] = v[i]
        /\ \A i \in 1..Len(w) : i \in 1..Len(u) \/ (i - Len(u) \in 1..Len(v) /\ w[i] = v[i - Len(u)])
    <3>1. Joined(w, u, v)
      BY <2>1, Concat
    <3> QED
      BY <3>1 DEF Joined
  <2>3. ASSUME NEW i \in 1..Len(u), u[i] = Get(m) PROVE Asked(w, m)
    <3>1. i \in 1..Len(w)
      BY <2>2
    <3> QED
      BY <2>2, <2>3, <3>1 DEF Asked
  <2>4. ASSUME NEW i \in 1..Len(v), v[i] = Get(m) PROVE Asked(w, m)
    <3>1. i + Len(u) \in 1..Len(w)
      BY <2>2
    <3> QED
      BY <2>2, <2>4, <3>1 DEF Asked
  <2>5. ASSUME NEW i \in 1..Len(w), w[i] = Get(m) PROVE Asked(u, m) \/ Asked(v, m)
    BY <2>2, <2>5 DEF Asked
  <2> QED
    BY <2>1, <2>3, <2>4, <2>5 DEF Asked
<1>2. ASSUME u # <<>>
      PROVE  Head(u).item \in Items /\ \A m : Asked(u, m) => m = Head(u).item \/ Asked(Tail(u), m)
  <2>1. PICK w : w = Tail(u)
    OBVIOUS
  <2>2. /\ Head(u) = u[1] /\ Head(u) \in GetMessage
        /\ \A i \in 1..Len(u) : i = 1 \/ (i - 1 \in 1..Len(w) /\ u[i] = w[i - 1])
    <3>1. Rests(w, u) /\ Head(u) \in GetMessage
      BY <1>2, <2>1, First
    <3> QED
      BY <3>1 DEF Rests
  <2>3. ASSUME NEW m, NEW i \in 1..Len(u), u[i] = Get(m) PROVE m = Head(u).item \/ Asked(w, m)
    <3>1. CASE i = 1
      BY <2>2, <2>3, <3>1 DEF Get
    <3>2. CASE i # 1
      BY <2>2, <2>3, <3>2 DEF Asked
    <3> QED
      BY <3>1, <3>2
  <2> QED
    BY <2>1, <2>2, <2>3, Kinds DEF Asked
<1>3. ASSUME NEW m PROVE Asked(<<Get(m)>>, m)
  <2>1. PICK x, w : x = Get(m) /\ w = <<x>>
    OBVIOUS
  <2>2. 1 \in 1..Len(w) /\ w[1] = x
    BY <2>1
  <2> QED
    BY <2>1, <2>2 DEF Asked
<1> QED
  BY <1>1, <1>2, <1>3

\* What a request does, on links that may have lost a message that was read.
LEMMA Requests ==
    ASSUME Types, NEW ch, ChanOK(ch), NEW c \in Children, NEW m \in Items, NEW who \in Threads \cup Children,
           Request(ch, c, m, who)
    PROVE  /\ callbacks' \in [Children -> [Items -> SUBSET (Threads \cup Children)]]
           /\ callbacks'[c][m] = callbacks[c][m] \cup {who}
           /\ \A d \in Children, n \in Items : d # c \/ n # m => callbacks'[d][n] = callbacks[d][n]
           /\ ChanOK(chan')
           /\ \A d \in Children : chan'[Down(d)] = ch[Down(d)]
           /\ \A d \in Children : d # c => chan'[Up(d)] = ch[Up(d)]
           /\ \A n : Asked(ch[Up(c)], n) => Asked(chan'[Up(c)], n)
           /\ InFlight(c, m) \/ Parent[c] \notin alive \/ Asked(chan'[Up(c)], m)
<1>1. /\ callbacks' = [callbacks EXCEPT ![c][m] = @ \cup {who}]
      /\ chan' = IF InFlight(c, m) THEN ch ELSE Write(ch, Up(c), <<Get(m)>>)
  BY DEF Request
<1>2. callbacks \in [Children -> [Items -> SUBSET (Threads \cup Children)]]
  BY DEF Types
<1>3. /\ callbacks' \in [Children -> [Items -> SUBSET (Threads \cup Children)]]
      /\ callbacks'[c][m] = callbacks[c][m] \cup {who}
      /\ \A d \in Children, n \in Items : d # c \/ n # m => callbacks'[d][n] = callbacks[d][n]
  BY <1>1, <1>2
<1>4. CASE InFlight(c, m)
  <2>1. chan' = ch
    BY <1>1, <1>4
  <2> QED
    BY <1>3, <1>4, <2>1
<1>5. CASE ~InFlight(c, m)
  <2>1. PICK b : b = <<Get(m)>> /\ b \in Seq(GetMessage)
    <3>1. PICK g : g = Get(m) /\ g \in GetMessage
      BY Kinds
    <3>2. <<g>> \in Seq(GetMessage)
      BY <3>1
    <3> QED
      BY <3>1, <3>2
  <2>2. chan' = Write(ch, Up(c), b)
    BY <1>1, <1>5, <2>1
  <2>3. b \in Seq(GetMessage)
    BY <2>1
  <2>4. /\ ChanOK(chan')
        /\ \A d \in Children : chan'[Down(d)] = ch[Down(d)]
        /\ \A d \in Children : d # c => chan'[Up(d)] = ch[Up(d)]
        /\ chan'[Up(c)] = IF Parent[c] \in alive THEN ch[Up(c)] \o b ELSE ch[Up(c)]
    BY <2>2, <2>3, WriteUp
  <2>5. ch[Up(c)] \in Seq(GetMessage)
    BY DEF ChanOK
  <2>6. \A n : Asked(ch[Up(c)] \o b, n) <=> Asked(ch[Up(c)], n) \/ Asked(b, n)
    BY <2>3, <2>5, AskedParts
  <2>7. Asked(b, m)
    BY <2>1, <2>5, AskedParts
  <2> QED
    BY <1>3, <2>4, <2>6, <2>7
<1> QED
  BY <1>4, <1>5

(***************************************************************************)
(* User threads.                                                           *)
(***************************************************************************)

\* What does not concern the queues leaves what is said of them.
LEMMA SameQueues ==
    ASSUME IInv, UNCHANGED <<alive, linked, chan, cache, callbacks, sent>>
    PROVE  Callers' /\ Connected' /\ Pending' /\ RootSent' /\ Records' /\ Orders' /\ Requested'
<1>1. Callers' /\ Connected' /\ Pending' /\ RootSent'
  BY DEF IInv, Callers, Connected, Pending, RootSent, InFlight, Held
<1>2. Records' /\ Orders'
  BY DEF IInv, Records, Orders, Both
<1>3. Requested'
  BY DEF IInv, Requested, InFlight, Both
<1> QED
  BY <1>1, <1>2, <1>3

\* What a thread wants is an item, while it is in its script.
LEMMA WantedItem ==
    ASSUME Types, NEW t \in Threads, at[t] <= Len(Script[t])
    PROVE  Wanted(t) \in Items /\ Home[t] \in Children /\ at[t] \in Nat /\ at[t] >= 1
<1>1. PICK n, s : n = at[t] /\ s = Script[t]
  OBVIOUS
<1>2. s \in Seq(Items) /\ n \in 1..Len(s) + 1 /\ n <= Len(s) /\ Len(s) \in Nat
  BY <1>1, Constants DEF Types
<1>3. n \in 1..Len(s)
  BY <1>2
<1>4. s[n] \in Items
  BY <1>2, <1>3
<1> QED
  BY <1>1, <1>2, <1>4, Constants DEF Wanted

\* An import keeps the invariant.
LEMMA ImportInv ==
    ASSUME IInv, NEW t \in Threads, Import(t)
    PROVE  IInv'
<1>1. Types /\ Scripts /\ Waiters /\ Callers /\ Connected /\ Pending /\ RootSent /\ Records /\ Orders /\ Requested
  BY DEF IInv
<1>2. PICK c, m : c = Home[t] /\ m = Wanted(t)
  OBVIOUS
<1>3. /\ state[t] = "run" /\ at[t] <= Len(Script[t])
      /\ UNCHANGED <<alive, linked, deaths, cache, sent, imported, toPush>>
  BY <1>2 DEF Import, Running, streams
<1>4. m \in Items /\ c \in Children /\ at[t] \in Nat /\ at[t] >= 1 /\ Len(Script[t]) \in Nat
  BY <1>1, <1>2, <1>3, WantedItem, Constants
<1>5. /\ at \in [Threads -> Nat] /\ \A u \in Threads : at[u] \in 1..Len(Script[u]) + 1
      /\ state \in [Threads -> {"run", "wait", "told", "failed"}]
  BY <1>1 DEF Types
<1>6. \A d \in Children, n \in Items : t \notin callbacks[d][n]
  BY <1>1, <1>3 DEF Waiters
<1>7. CASE at' = [at EXCEPT ![t] = @ + 1] /\ UNCHANGED <<chan, callbacks, state>>
  <2>1. at' \in [Threads -> Nat] /\ \A u \in Threads : at'[u] \in 1..Len(Script[u]) + 1
    BY <1>3, <1>4, <1>5, <1>7
  <2>2. Types'
    BY <1>1, <1>3, <1>7, <2>1 DEF Types
  <2>3. \A u \in Threads : state'[u] = state[u] /\ (u # t => at'[u] = at[u])
    BY <1>5, <1>7
  <2>4. Scripts'
    BY <1>1, <1>3, <2>3 DEF Scripts
  <2>5. Waiters'
    BY <1>1, <1>3, <1>6, <1>7, <2>3 DEF Waiters, Wanted
  <2> QED
    BY <1>3, <1>7, <2>2, <2>4, <2>5, SameQueues DEF IInv
<1>8. ASSUME NEW s \in {"failed", "told"}, state' = [state EXCEPT ![t] = s], UNCHANGED <<chan, callbacks, at>>
      PROVE  IInv'
  <2>1. state' \in [Threads -> {"run", "wait", "told", "failed"}]
    BY <1>5, <1>8
  <2>2. Types'
    BY <1>1, <1>3, <1>8, <2>1 DEF Types
  <2>3. state'[t] # "wait" /\ \A u \in Threads : u # t => state'[u] = state[u]
    BY <1>5, <1>8
  <2>4. Scripts'
    BY <1>1, <1>3, <1>8, <2>3 DEF Scripts
  <2>5. Waiters'
    BY <1>1, <1>6, <1>8, <2>3 DEF Waiters, Wanted
  <2> QED
    BY <1>3, <1>8, <2>2, <2>4, <2>5, SameQueues DEF IInv
<1>9. CASE /\ ~Held(c, m) /\ Request(chan, c, m, t)
           /\ state' = [state EXCEPT ![t] = "wait"] /\ UNCHANGED at
  <2>1. ChanOK(chan) /\ t \in Threads \cup Children
    BY <1>1 DEF Types
  <2>2. /\ callbacks' \in [Children -> [Items -> SUBSET (Threads \cup Children)]]
        /\ callbacks'[c][m] = callbacks[c][m] \cup {t}
        /\ \A d \in Children, n \in Items : d # c \/ n # m => callbacks'[d][n] = callbacks[d][n]
        /\ ChanOK(chan')
        /\ \A d \in Children : chan'[Down(d)] = chan[Down(d)]
        /\ \A d \in Children : d # c => chan'[Up(d)] = chan[Up(d)]
        /\ \A n : Asked(chan[Up(c)], n) => Asked(chan'[Up(c)], n)
        /\ InFlight(c, m) \/ Parent[c] \notin alive \/ Asked(chan'[Up(c)], m)
    BY <1>1, <1>4, <1>9, <2>1, Requests
  <2>3. state' \in [Threads -> {"run", "wait", "told", "failed"}]
    BY <1>5, <1>9
  <2>4. Types'
    BY <1>1, <1>3, <1>9, <2>2, <2>3 DEF Types
  <2>5. state'[t] = "wait" /\ \A u \in Threads : u # t => state'[u] = state[u]
    BY <1>5, <1>9
  <2>6. Scripts'
    BY <1>1, <1>3, <1>9, <2>5 DEF Scripts
  <2>7. Waiters'
    <3>1. ASSUME NEW d \in Children, NEW n \in Items, NEW u \in Threads
          PROVE  u \in callbacks'[d][n] <=> state'[u] = "wait" /\ d = Home[u] /\ n = Wanted(u)
      <4>1. CASE u = t
        BY <1>2, <1>6, <2>2, <2>5, <4>1
      <4>2. CASE u # t
        <5>1. u \in callbacks'[d][n] <=> u \in callbacks[d][n]
          BY <2>2, <4>2
        <5> QED
          BY <1>1, <2>5, <4>2, <5>1 DEF Waiters
      <4> QED
        BY <4>1, <4>2
    <3>2. \A u \in Threads : Wanted(u)' = Wanted(u)
      BY <1>9 DEF Wanted
    <3> QED
      BY <3>1, <3>2 DEF Waiters
  <2>8. Callers'
    <3>1. ASSUME NEW d \in Children, NEW n \in Items, NEW k \in callbacks'[d][n], k \in Children
          PROVE  Parent[k] = d
      <4>1. k \in callbacks[d][n]
        BY <2>2, <3>1, Constants
      <4> QED
        BY <1>1, <3>1, <4>1 DEF Callers
    <3> QED
      BY <3>1 DEF Callers
  <2>9. Connected' /\ RootSent'
    BY <1>1, <1>3 DEF Connected, RootSent
  <2>10. Pending'
    BY <1>1, <1>3, <1>9, <2>2 DEF Pending, InFlight, Held
  <2>11. Records' /\ Orders'
    BY <1>1, <1>3, <2>2 DEF Records, Orders, Both
  <2>12. Requested'
    <3>1. ASSUME NEW d \in Children, NEW n \in Items, callbacks'[d][n] # {}, Both(d), ~Unanswerable(n)
          PROVE  \/ Asked(chan'[Up(d)], n)
                 \/ Parent[d] # Root /\ d \in callbacks'[Parent[d]][n]
                 \/ Named(chan'[Down(d)], n)
      <4>1. CASE InFlight(d, n)
        <5>1. \/ Asked(chan[Up(d)], n)
              \/ Parent[d] # Root /\ d \in callbacks[Parent[d]][n]
              \/ Named(chan[Down(d)], n)
          BY <1>1, <3>1, <4>1 DEF Requested
        <5>2. Asked(chan[Up(d)], n) => Asked(chan'[Up(d)], n)
          BY <2>2
        <5>3. Parent[d] # Root => Parent[d] \in Children
          BY NoLoop DEF Children
        <5> QED
          BY <2>2, <5>1, <5>2, <5>3
      <4>2. CASE ~InFlight(d, n)
        <5>1. d = c /\ n = m
          BY <2>2, <3>1, <4>2 DEF InFlight
        <5> QED
          BY <2>2, <3>1, <4>2, <5>1 DEF Both
      <4> QED
        BY <4>1, <4>2
    <3> QED
      BY <1>3, <3>1 DEF Requested, InFlight, Both
  <2> QED
    BY <2>4, <2>6, <2>7, <2>8, <2>9, <2>10, <2>11, <2>12 DEF IInv
<1> QED
  BY <1>2, <1>7, <1>8, <1>9 DEF Import

\* Executing a module keeps the invariant.
LEMMA ExecuteInv ==
    ASSUME IInv, NEW t \in Threads, Execute(t)
    PROVE  IInv'
<1>1. Types /\ Scripts /\ Waiters
  BY DEF IInv
<1>2. PICK c, m : c = Home[t] /\ m = Wanted(t)
  OBVIOUS
<1>3. state[t] = "told" /\ UNCHANGED <<alive, linked, deaths, chan, cache, callbacks, sent, toPush>>
  BY <1>2 DEF Execute, Running, streams
<1>4. at[t] <= Len(Script[t])
  BY <1>1, <1>3 DEF Scripts
<1>5. m \in Items /\ c \in Children /\ at[t] \in Nat /\ at[t] >= 1 /\ Len(Script[t]) \in Nat
  BY <1>1, <1>2, <1>4, WantedItem, Constants
<1>6. /\ at \in [Threads -> Nat] /\ \A u \in Threads : at[u] \in 1..Len(Script[u]) + 1
      /\ state \in [Threads -> {"run", "wait", "told", "failed"}]
      /\ imported \in [Children -> SUBSET Items]
  BY <1>1 DEF Types
<1>7. \A d \in Children, n \in Items : t \notin callbacks[d][n]
  BY <1>1, <1>3 DEF Waiters
<1>8. CASE state' = [state EXCEPT ![t] = "failed"] /\ UNCHANGED <<imported, at>>
  <2>1. /\ state' \in [Threads -> {"run", "wait", "told", "failed"}]
        /\ state'[t] # "wait" /\ \A u \in Threads : u # t => state'[u] = state[u]
    BY <1>6, <1>8
  <2>2. Types'
    BY <1>1, <1>3, <1>8, <2>1 DEF Types
  <2>3. Scripts'
    BY <1>1, <1>4, <1>8, <2>1 DEF Scripts
  <2>4. Waiters'
    BY <1>1, <1>3, <1>7, <1>8, <2>1 DEF Waiters, Wanted
  <2> QED
    BY <1>3, <2>2, <2>3, <2>4, SameQueues DEF IInv
<1>9. CASE /\ imported' = [imported EXCEPT ![c] = @ \cup ({m} \cap Modules)]
           /\ at' = [at EXCEPT ![t] = @ + 1]
           /\ state' = [state EXCEPT ![t] = "run"]
  <2>1. /\ state' \in [Threads -> {"run", "wait", "told", "failed"}]
        /\ state'[t] = "run" /\ \A u \in Threads : u # t => state'[u] = state[u]
        /\ \A u \in Threads : u # t => at'[u] = at[u]
    BY <1>6, <1>9
  <2>2. at' \in [Threads -> Nat] /\ \A u \in Threads : at'[u] \in 1..Len(Script[u]) + 1
    BY <1>4, <1>5, <1>6, <1>9
  <2>3. imported' \in [Children -> SUBSET Items]
    BY <1>5, <1>6, <1>9
  <2>4. Types'
    BY <1>1, <1>3, <2>1, <2>2, <2>3 DEF Types
  <2>5. Scripts'
    BY <1>1, <2>1 DEF Scripts
  <2>6. Waiters'
    BY <1>1, <1>3, <1>7, <2>1 DEF Waiters, Wanted
  <2> QED
    BY <1>3, <2>4, <2>5, <2>6, SameQueues DEF IInv
<1> QED
  BY <1>2, <1>8, <1>9 DEF Execute

(***************************************************************************)
(* What a parent writes to a child.                                        *)
(***************************************************************************)

\* Records are true and FORWARDs in order, on links that may have lost a message
\* that was read.
LinksTrue(ch) ==
    /\ \A d \in Children : Both(d) => RecordTrue(ch[Down(d)], cache[d], sent[d])
    /\ \A d \in Children : d \in alive => InOrder(ch[Down(d)], cache[d])

\* What one child is sent is written, if it lives, and recorded.
LEMMA EdgeGrows ==
    ASSUME NEW ch, ChanOK(ch), LinksTrue(ch), NEW k \in Children, NEW b \in Seq(DownMessage), NEW s2,
           sent \in [Children -> SUBSET Modules],
           k \in alive => RecordTrue(ch[Down(k)] \o b, cache[k], s2) /\ InOrder(ch[Down(k)] \o b, cache[k]),
           chan' = Write(ch, Down(k), b), sent' = [sent EXCEPT ![k] = s2], UNCHANGED <<alive, cache>>
    PROVE  /\ Records' /\ Orders' /\ ChanOK(chan')
           /\ \A d \in Children : chan'[Up(d)] = ch[Up(d)]
           /\ \A d \in Children : \A n : Named(ch[Down(d)], n) => Named(chan'[Down(d)], n)
           /\ k \in alive => \A n : Named(b, n) => Named(chan'[Down(k)], n)
<1>1. /\ ChanOK(chan')
      /\ \A d \in Children : chan'[Up(d)] = ch[Up(d)]
      /\ \A d \in Children : d # k => chan'[Down(d)] = ch[Down(d)]
      /\ chan'[Down(k)] = IF k \in alive THEN ch[Down(k)] \o b ELSE ch[Down(k)]
  BY WriteDown
<1>2. ch[Down(k)] \in Seq(DownMessage)
  BY DEF ChanOK
<1>3. \A n : Named(ch[Down(k)] \o b, n) <=> Named(ch[Down(k)], n) \/ Named(b, n)
  BY <1>2, DownConcat
<1>4. \A d \in Children : \A n : Named(ch[Down(d)], n) => Named(chan'[Down(d)], n)
  BY <1>1, <1>3
<1>5. k \in alive => \A n : Named(b, n) => Named(chan'[Down(k)], n)
  BY <1>1, <1>3
<1>6. sent'[k] = s2 /\ \A d \in Children : d # k => sent'[d] = sent[d]
  OBVIOUS
<1>7. ASSUME NEW d \in Children
      PROVE  /\ Both(d) => RecordTrue(chan'[Down(d)], cache[d], sent'[d])
             /\ d \in alive => InOrder(chan'[Down(d)], cache[d])
  <2>1. CASE d = k
    BY <1>1, <1>6, <2>1 DEF Both
  <2>2. CASE d # k
    BY <1>1, <1>6, <2>2 DEF LinksTrue
  <2> QED
    BY <2>1, <2>2
<1>8. Records' /\ Orders'
  BY <1>7 DEF Records, Orders, Both
<1> QED
  BY <1>1, <1>4, <1>5, <1>8

\* What concerns neither threads nor callbacks leaves who waits for what.
LEMMA SameWaiters ==
    ASSUME IInv, UNCHANGED <<alive, linked, cache, callbacks, at, state>>
    PROVE  Scripts' /\ Waiters' /\ Callers' /\ Connected' /\ Pending'
<1>1. Scripts' /\ Waiters'
  BY DEF IInv, Scripts, Waiters, Wanted
<1>2. Callers' /\ Connected' /\ Pending'
  BY DEF IInv, Callers, Connected, Pending, InFlight, Held
<1> QED
  BY <1>1, <1>2

\* A request reaches the master.
LEMMA RootGetInv ==
    ASSUME IInv, NEW c \in Children, RootGet(c)
    PROVE  IInv'
<1>1. Types /\ Pending /\ RootSent /\ Records /\ Orders /\ Requested
  BY DEF IInv
<1>2. PICK ch, m, before : /\ ch = Rest(Up(c)) /\ m = Head(chan[Up(c)]).item /\ before = sent[c]
  OBVIOUS
<1>3. PICK b, s2 : b = RootAnswer(before, m) /\ s2 = Recorded(before, b)
  OBVIOUS
<1>4. /\ Parent[c] = Root /\ chan[Up(c)] # <<>>
      /\ chan' = Write(ch, Down(c), b) /\ sent' = [sent EXCEPT ![c] = s2]
      /\ UNCHANGED <<alive, linked, deaths, cache, callbacks, imported, at, state, toPush>>
  BY <1>2, <1>3 DEF RootGet, Arrives, streams, threads
<1>5. /\ ChanOK(ch)
      /\ \A d \in Children : ch[Down(d)] = chan[Down(d)]
      /\ \A d \in Children : d # c => ch[Up(d)] = chan[Up(d)]
      /\ ch[Up(c)] = Tail(chan[Up(c)])
  <2>1. ChanOK(chan)
    BY <1>1 DEF Types
  <2> QED
    BY <1>2, <1>4, <2>1, ReadOne
<1>6. chan[Up(c)] \in Seq(GetMessage) /\ chan[Down(c)] \in Seq(DownMessage)
  BY <1>1 DEF Types, ChanOK
<1>7. m \in Items /\ \A n : Asked(chan[Up(c)], n) => n = m \/ Asked(ch[Up(c)], n)
  BY <1>2, <1>4, <1>5, <1>6, AskedParts
<1>8. before \in SUBSET (Modules \ Failing) /\ sent \in [Children -> SUBSET Modules]
  BY <1>1, <1>2, <1>4 DEF Types, RootSent
<1>9. /\ b \in Seq(LoadMessage) /\ b \in Seq(DownMessage)
      /\ s2 \in SUBSET (Modules \ Failing) /\ Fresh(b, before, s2)
      /\ ~Unanswerable(m) => m \in before \/ Named(b, m)
  <2>1. RootSends(before, m, b)
    BY <1>3, <1>7, <1>8, RootAnswers
  <2>2. b \in Seq(LoadMessage)
    BY <2>1 DEF RootSends
  <2>3. b \in Seq(DownMessage)
    BY <2>2 DEF DownMessage
  <2> QED
    BY <1>3, <2>1, <2>3 DEF RootSends
<1>10. LinksTrue(ch)
  BY <1>1, <1>5 DEF LinksTrue, Records, Orders
<1>11. ASSUME c \in alive
       PROVE  RecordTrue(ch[Down(c)] \o b, cache[c], s2) /\ InOrder(ch[Down(c)] \o b, cache[c])
  <2>1. Both(c)
    BY <1>1, <1>4, <1>11 DEF Both, Types
  <2>2. RecordTrue(chan[Down(c)], cache[c], before) /\ InOrder(chan[Down(c)], cache[c])
    BY <1>1, <1>2, <1>11, <2>1 DEF Records, Orders
  <2>3. RecordTrue(chan[Down(c)] \o b, cache[c], s2)
    BY <1>6, <1>9, <2>2, RecordJoin
  <2>4. InOrder(chan[Down(c)] \o b, cache[c])
    BY <1>6, <1>9, <2>2, OrderJoin
  <2> QED
    BY <1>5, <2>3, <2>4
<1>12. /\ Records' /\ Orders' /\ ChanOK(chan')
       /\ \A d \in Children : chan'[Up(d)] = ch[Up(d)]
       /\ \A d \in Children : \A n : Named(ch[Down(d)], n) => Named(chan'[Down(d)], n)
       /\ c \in alive => \A n : Named(b, n) => Named(chan'[Down(c)], n)
  <2>1. b \in Seq(DownMessage) /\ sent \in [Children -> SUBSET Modules] /\ UNCHANGED <<alive, cache>>
    BY <1>4, <1>8, <1>9
  <2> QED
    BY <1>4, <1>5, <1>10, <1>11, <2>1, EdgeGrows
<1>13. Types'
  <2>1. sent' \in [Children -> SUBSET Modules]
    BY <1>4, <1>8, <1>9
  <2> QED
    BY <1>1, <1>4, <1>12, <2>1 DEF Types
<1>14. RootSent'
  BY <1>1, <1>4, <1>8, <1>9 DEF RootSent
<1>15. Requested'
  <2>1. ASSUME NEW d \in Children, NEW n \in Items, InFlight(d, n), Both(d), ~Unanswerable(n)
        PROVE  \/ Asked(chan'[Up(d)], n)
               \/ Parent[d] # Root /\ d \in callbacks[Parent[d]][n]
               \/ Named(chan'[Down(d)], n)
    <3>1. \/ Asked(chan[Up(d)], n)
          \/ Parent[d] # Root /\ d \in callbacks[Parent[d]][n]
          \/ Named(chan[Down(d)], n)
      BY <1>1, <2>1 DEF Requested
    <3>2. CASE d = c /\ n = m
      <4>1. CASE m \in before
        <5>1. m \in Modules /\ RecordTrue(chan[Down(c)], cache[c], before)
          BY <1>1, <1>2, <1>8, <2>1, <3>2, <4>1 DEF Records
        <5>2. cache[c][m] = "none"
          BY <1>1, <1>7, <2>1, <3>2 DEF Pending, Held
        <5>3. Named(chan[Down(c)], m)
          BY <4>1, <5>1, <5>2 DEF RecordTrue
        <5> QED
          BY <1>5, <1>12, <3>2, <5>3
      <4>2. CASE m \notin before
        BY <1>9, <1>12, <2>1, <3>2, <4>2 DEF Both
      <4> QED
        BY <4>1, <4>2
    <3>3. CASE ~(d = c /\ n = m)
      <4>1. Asked(chan[Up(d)], n) => Asked(chan'[Up(d)], n)
        BY <1>5, <1>7, <1>12, <3>3
      <4>2. Named(chan[Down(d)], n) => Named(chan'[Down(d)], n)
        BY <1>5, <1>12
      <4> QED
        BY <3>1, <4>1, <4>2
    <3> QED
      BY <3>2, <3>3
  <2> QED
    BY <1>4, <2>1 DEF Requested, InFlight, Both
<1> QED
  BY <1>4, <1>12, <1>13, <1>14, <1>15, SameWaiters DEF IInv

\* What is still asked for, noted or answered, when no request was read and nothing
\* but answers was added.
LEMMA StillRequested ==
    ASSUME IInv, UNCHANGED <<alive, callbacks>>,
           \A d \in Children : chan'[Up(d)] = chan[Up(d)],
           \A d \in Children : \A n : Named(chan[Down(d)], n) => Named(chan'[Down(d)], n)
    PROVE  Requested'
<1>1. ASSUME NEW d \in Children, NEW n \in Items, InFlight(d, n), Both(d), ~Unanswerable(n)
      PROVE  \/ Asked(chan'[Up(d)], n)
             \/ Parent[d] # Root /\ d \in callbacks[Parent[d]][n]
             \/ Named(chan'[Down(d)], n)
  <2>1. \/ Asked(chan[Up(d)], n)
        \/ Parent[d] # Root /\ d \in callbacks[Parent[d]][n]
        \/ Named(chan[Down(d)], n)
    BY <1>1 DEF IInv, Requested
  <2> QED
    BY <2>1
<1> QED
  BY <1>1 DEF Requested, InFlight, Both

\* The master pushes a module.
LEMMA PushInv ==
    ASSUME IInv, NEW c \in Children, NEW m \in Modules, Push(c, m)
    PROVE  IInv'
<1>1. Types /\ RootSent /\ Records /\ Orders
  BY DEF IInv
<1>2. PICK k : k = Hop(Root, c)
  OBVIOUS
<1>3. PICK all : all = Pushed(sent[k], k, c, m)
  OBVIOUS
<1>4. /\ toPush' \subseteq toPush
      /\ UNCHANGED <<alive, linked, deaths, cache, callbacks, imported, at, state>>
  BY DEF Push, streams, threads
<1>5. CASE UNCHANGED <<chan, sent>>
  <2>1. Types'
    BY <1>1, <1>4, <1>5 DEF Types
  <2> QED
    BY <1>4, <1>5, <2>1, SameWaiters, SameQueues DEF IInv
<1>6. CASE /\ Route(Root, c)
           /\ chan' = Write(chan, Down(k), all.out)
           /\ sent' = [sent EXCEPT ![k] = all.sent]
  <2>1. k \in Children /\ Parent[k] = Root
    <3>1. Root \in Nodes /\ c \in Nodes
      BY Constants
    <3> QED
      BY <1>2, <1>6, <3>1, HopIsChild
  <2>2. PICK before, q, known : before = sent[k] /\ q = chan[Down(k)] /\ known = cache[k]
    OBVIOUS
  <2>3. before \in SUBSET (Modules \ Failing) /\ sent \in [Children -> SUBSET Modules]
    BY <1>1, <2>1, <2>2 DEF Types, RootSent
  <2>4. ChanOK(chan) /\ q \in Seq(DownMessage)
    BY <1>1, <2>1, <2>2 DEF Types, ChanOK
  <2>5. /\ all \in Progress
        /\ RecordTrue(q, known, before) /\ InOrder(q, known) => Sound(all, q, known)
    BY <1>3, <2>2, <2>3, <2>4, PushedSound
  <2>6. PICK b, s2 : b = all.out /\ s2 = all.sent /\ b \in Seq(DownMessage) /\ s2 \in SUBSET (Modules \ Failing)
    BY <2>5 DEF Progress
  <2>7. LinksTrue(chan)
    BY <1>1 DEF LinksTrue, Records, Orders
  <2>8. k \in alive => RecordTrue(chan[Down(k)] \o b, cache[k], s2) /\ InOrder(chan[Down(k)] \o b, cache[k])
    <3>1. k \in alive => Both(k)
      BY <1>1, <2>1 DEF Both, Types
    <3>2. k \in alive => RecordTrue(q, known, before) /\ InOrder(q, known)
      BY <1>1, <2>1, <2>2, <3>1 DEF Records, Orders
    <3> QED
      BY <2>2, <2>5, <2>6, <3>2 DEF Sound
  <2>9. /\ Records' /\ Orders' /\ ChanOK(chan')
        /\ \A d \in Children : chan'[Up(d)] = chan[Up(d)]
        /\ \A d \in Children : \A n : Named(chan[Down(d)], n) => Named(chan'[Down(d)], n)
    <3>1. /\ chan' = Write(chan, Down(k), b) /\ sent' = [sent EXCEPT ![k] = s2]
          /\ b \in Seq(DownMessage) /\ UNCHANGED <<alive, cache>>
      BY <1>4, <1>6, <2>6
    <3> QED
      BY <2>1, <2>3, <2>4, <2>7, <2>8, <3>1, EdgeGrows
  <2>10. sent' \in [Children -> SUBSET Modules] /\ sent'[k] = s2 /\ \A d \in Children : d # k => sent'[d] = sent[d]
    BY <1>6, <2>1, <2>3, <2>6
  <2>11. Types'
    BY <1>1, <1>4, <2>9, <2>10 DEF Types
  <2>12. RootSent'
    BY <1>1, <2>6, <2>10 DEF RootSent
  <2>13. Requested'
    BY <1>4, <2>9, StillRequested
  <2> QED
    BY <1>4, <2>9, <2>11, <2>12, <2>13, SameWaiters DEF IInv
<1> QED
  BY <1>2, <1>3, <1>5, <1>6 DEF Push

\* A FORWARD is read.
LEMMA OnForwardInv ==
    ASSUME IInv, NEW n \in Children, OnForward(n)
    PROVE  IInv'
<1>1. Types /\ RootSent /\ Records /\ Orders /\ Connected
  BY DEF IInv
<1>2. PICK ch, q, m, c, k : /\ ch = Rest(Down(n)) /\ q = chan[Down(n)]
                            /\ m = Head(q).item /\ c = Head(q).target /\ k = Hop(n, c)
  OBVIOUS
<1>3. PICK msgs, b, s2 : /\ msgs = Provide(cache[n], k, m) /\ b = Bundle(msgs, k, c, m)
                         /\ s2 = Noted(k, msgs)
  OBVIOUS
<1>4. /\ n \in alive /\ q # <<>> /\ Head(q).kind = "FORWARD"
      /\ IF Dropped(n, c, m) THEN chan' = ch /\ UNCHANGED sent
         ELSE chan' = Write(ch, Down(k), b) /\ sent' = [sent EXCEPT ![k] = s2]
      /\ UNCHANGED <<alive, linked, deaths, cache, callbacks, imported, at, state, toPush>>
  <2>1. Down(n)[2] = n
    BY LinkLemma
  <2> QED
    BY <1>2, <1>3, <2>1 DEF OnForward, Arrives, streams, threads
<1>5. q \in Seq(DownMessage) /\ ChanOK(chan)
  BY <1>1, <1>2 DEF Types, ChanOK
<1>6. m \in Modules /\ m \in Items /\ c \in Children
  <2>1. Head(q) \in DownMessage
    BY <1>4, <1>5, First
  <2> QED
    BY <1>2, <1>4, <2>1, Kinds, Constants DEF DownMessage
<1>7. /\ ChanOK(ch)
      /\ \A d \in Children : ch[Up(d)] = chan[Up(d)]
      /\ \A d \in Children : d # n => ch[Down(d)] = chan[Down(d)]
      /\ ch[Down(n)] = Tail(q)
  BY <1>2, <1>4, <1>5, ReadOne
<1>8. /\ \A s : RecordTrue(q, cache[n], s) => RecordTrue(Tail(q), cache[n], s)
      /\ InOrder(q, cache[n]) => InOrder(Tail(q), cache[n]) /\ cache[n][m] # "none"
  BY <1>2, <1>4, <1>5, ForwardRead
<1>9. LinksTrue(ch) /\ cache[n][m] # "none"
  <2>1. \A d \in Children : Both(d) => RecordTrue(chan[Down(d)], cache[d], sent[d])
    BY <1>1 DEF Records
  <2>2. \A d \in Children : d \in alive => InOrder(chan[Down(d)], cache[d])
    BY <1>1 DEF Orders
  <2> QED
    BY <1>2, <1>4, <1>7, <1>8, <2>1, <2>2 DEF LinksTrue
<1>10. \A d \in Children : \A x : Named(chan[Down(d)], x) => Named(ch[Down(d)], x)
  <2>1. \A x : Named(q, x) => Named(Tail(q), x)
    <3>1. \A x : ~IsLoad(Head(q), x)
      BY <1>4 DEF IsLoad
    <3>2. \A x : Named(q, x) <=> IsLoad(Head(q), x) \/ Named(Tail(q), x)
      BY <1>4, <1>5, NamedTail
    <3> QED
      BY <3>1, <3>2
  <2> QED
    BY <1>2, <1>7, <2>1
<1>11. CASE chan' = ch /\ UNCHANGED sent
  <2>1. Types'
    BY <1>1, <1>4, <1>7, <1>11 DEF Types
  <2>2. RootSent'
    BY <1>1, <1>11 DEF RootSent
  <2>3. Records' /\ Orders'
    BY <1>4, <1>9, <1>11 DEF Records, Orders, Both, LinksTrue
  <2>4. Requested'
    BY <1>4, <1>7, <1>10, <1>11, StillRequested
  <2> QED
    BY <1>4, <2>1, <2>2, <2>3, <2>4, SameWaiters DEF IInv
<1>12. CASE /\ ~Dropped(n, c, m)
            /\ chan' = Write(ch, Down(k), b) /\ sent' = [sent EXCEPT ![k] = s2]
  <2>1. Route(n, c) /\ m \notin sent[k]
    BY <1>2, <1>12 DEF Dropped
  <2>2. k \in Children /\ Parent[k] = n /\ k \in linked
    BY <1>2, <1>6, <2>1, HopIsChild, Constants
  <2>3. sent \in [Children -> SUBSET Modules] /\ sent[k] \in SUBSET Modules
        /\ cache[n] \in [Items -> {"none", "good", "absent"}]
    BY <1>1, <2>2 DEF Types
  <2>4. /\ msgs \in Seq(LoadMessage) /\ msgs \in Seq(DownMessage)
        /\ s2 \in SUBSET Modules /\ Fresh(msgs, sent[k], s2) /\ Named(msgs, m)
    <3>1. ForwarderSends(k, m, msgs)
      BY <1>3, <1>6, <1>9, <2>3, Provides
    <3>2. msgs \in Seq(LoadMessage)
      BY <3>1 DEF ForwarderSends
    <3>3. msgs \in Seq(DownMessage)
      BY <3>2 DEF DownMessage
    <3> QED
      BY <1>3, <2>1, <2>2, <3>1, <3>3 DEF ForwarderSends
  <2>5. PICK r, known : r = ch[Down(k)] /\ known = cache[k]
    OBVIOUS
  <2>6. r \in Seq(DownMessage)
    BY <1>7, <2>2, <2>5 DEF ChanOK
  <2>7. PICK r1 : r1 = r \o msgs /\ r1 \in Seq(DownMessage)
    BY <2>4, <2>6, DownConcat
  <2>8. k \in alive => /\ RecordTrue(r1, known, s2) /\ InOrder(r1, known)
    <3>1. ASSUME k \in alive PROVE RecordTrue(r1, known, s2) /\ InOrder(r1, known)
      <4>1. Both(k)
        BY <1>4, <2>2, <3>1 DEF Both
      <4>2. RecordTrue(r, known, sent[k]) /\ InOrder(r, known)
        BY <1>9, <2>2, <2>5, <3>1, <4>1 DEF LinksTrue
      <4>3. RecordTrue(r1, known, s2)
        BY <2>4, <2>6, <2>7, <4>2, RecordJoin
      <4>4. InOrder(r1, known)
        BY <2>4, <2>6, <2>7, <4>2, OrderJoin
      <4> QED
        BY <4>3, <4>4
    <3> QED
      BY <3>1
  <2>9. Named(r1, m)
    <3>1. Named(r \o msgs, m) <=> Named(r, m) \/ Named(msgs, m)
      BY <2>4, <2>6, DownConcat
    <3> QED
      BY <2>4, <2>7, <3>1
  <2>10. /\ b \in Seq(DownMessage)
         /\ k \in alive => RecordTrue(r \o b, known, s2) /\ InOrder(r \o b, known)
    <3>1. CASE k = c
      <4>1. b = msgs
        BY <1>3, <2>4, <3>1 DEF Bundle
      <4> QED
        BY <2>4, <2>7, <2>8, <4>1
    <3>2. CASE k # c
      <4>1. PICK y : y = Forward(m, c) /\ y \in DownMessage
        BY <1>6, Kinds DEF DownMessage
      <4>2. PICK f : f = <<y>>
        OBVIOUS
      <4>3. f \in Seq(DownMessage)
        BY <4>1, <4>2
      <4>4. b = msgs \o f
        BY <1>3, <3>2, <4>1, <4>2 DEF Bundle
      <4>5. b \in Seq(DownMessage)
        BY <2>4, <4>3, <4>4, DownConcat
      <4>6. (r \o msgs) \o f = r \o (msgs \o f)
        BY <2>4, <2>6, <4>3, DownConcat
      <4>7. r \o b = r1 \o f
        BY <2>7, <4>4, <4>6
      <4>8. Fresh(f, s2, s2)
        BY <1>6, <4>1, <4>2, FreshForward
      <4>9. k \in alive => RecordTrue(r1 \o f, known, s2)
        BY <2>7, <2>8, <4>3, <4>8, RecordJoin
      <4>10. k \in alive => InOrder(r1 \o f, known)
        <5>1. k \in alive => InOrder(r1 \o <<Forward(m, c)>>, known)
          BY <1>6, <2>7, <2>8, <2>9, OrderForward
        <5> QED
          BY <4>1, <4>2, <5>1
      <4> QED
        BY <4>5, <4>7, <4>9, <4>10
    <3> QED
      BY <3>1, <3>2
  <2>11. /\ Records' /\ Orders' /\ ChanOK(chan')
         /\ \A d \in Children : chan'[Up(d)] = ch[Up(d)]
         /\ \A d \in Children : \A x : Named(ch[Down(d)], x) => Named(chan'[Down(d)], x)
    <3>1. k \in alive => RecordTrue(ch[Down(k)] \o b, cache[k], s2) /\ InOrder(ch[Down(k)] \o b, cache[k])
      BY <2>5, <2>10
    <3>2. b \in Seq(DownMessage) /\ UNCHANGED <<alive, cache>>
      BY <1>4, <2>10
    <3> QED
      BY <1>7, <1>9, <1>12, <2>2, <2>3, <3>1, <3>2, EdgeGrows
  <2>12. sent' \in [Children -> SUBSET Modules] /\ \A d \in Children : d # k => sent'[d] = sent[d]
    BY <1>12, <2>2, <2>3, <2>4
  <2>13. Types'
    BY <1>1, <1>4, <2>11, <2>12 DEF Types
  <2>14. RootSent'
    <3>1. Parent[k] # Root
      BY <2>2, Constants
    <3> QED
      BY <1>1, <2>12, <3>1 DEF RootSent
  <2>15. Requested'
    BY <1>4, <1>7, <1>10, <2>11, StillRequested
  <2> QED
    BY <1>4, <2>11, <2>13, <2>14, <2>15, SameWaiters DEF IInv
<1> QED
  BY <1>4, <1>11, <1>12

(***************************************************************************)
(* Forwarders.                                                             *)
(***************************************************************************)

\* A request reaches a context that holds the item.
LEMMA ForwarderAnswersInv ==
    ASSUME IInv, NEW k \in Children, ForwarderGet(k), Held(Parent[k], Head(chan[Up(k)]).item)
    PROVE  IInv'
<1>1. Types /\ Pending /\ RootSent /\ Records /\ Orders /\ Requested /\ Connected
  BY DEF IInv
<1>2. PICK ch, n, m : ch = Rest(Up(k)) /\ n = Parent[k] /\ m = Head(chan[Up(k)]).item
  OBVIOUS
<1>3. PICK b, s2 : b = Provide(cache[n], k, m) /\ s2 = Noted(k, b)
  OBVIOUS
<1>4. /\ n # Root /\ n \in alive /\ chan[Up(k)] # <<>> /\ Held(n, m)
      /\ chan' = Write(ch, Down(k), b) /\ sent' = [sent EXCEPT ![k] = s2]
      /\ UNCHANGED <<alive, linked, deaths, cache, callbacks, imported, at, state, toPush>>
  <2>1. Up(k)[2] = n
    BY <1>2, LinkLemma
  <2> QED
    BY <1>2, <1>3, <2>1 DEF ForwarderGet, Arrives, streams, threads
<1>5. /\ ChanOK(ch)
      /\ \A d \in Children : ch[Down(d)] = chan[Down(d)]
      /\ \A d \in Children : d # k => ch[Up(d)] = chan[Up(d)]
      /\ ch[Up(k)] = Tail(chan[Up(k)])
  <2>1. ChanOK(chan)
    BY <1>1 DEF Types
  <2> QED
    BY <1>2, <1>4, <2>1, ReadOne
<1>6. chan[Up(k)] \in Seq(GetMessage) /\ chan[Down(k)] \in Seq(DownMessage)
  BY <1>1 DEF Types, ChanOK
<1>7. m \in Items /\ \A x : Asked(chan[Up(k)], x) => x = m \/ Asked(ch[Up(k)], x)
  BY <1>2, <1>4, <1>5, <1>6, AskedParts
<1>8. n \in Children /\ cache[n] \in [Items -> {"none", "good", "absent"}]
      /\ sent \in [Children -> SUBSET Modules] /\ sent[k] \in SUBSET Modules
  <2>1. n \in Children
    BY <1>2, <1>4, NoLoop DEF Children
  <2> QED
    BY <1>1, <2>1 DEF Types
<1>9. /\ b \in Seq(LoadMessage) /\ b \in Seq(DownMessage)
      /\ s2 \in SUBSET Modules /\ Fresh(b, sent[k], s2)
      /\ k \in linked => m \in sent[k] \/ Named(b, m)
  <2>1. ForwarderSends(k, m, b)
    BY <1>3, <1>4, <1>7, <1>8, Provides DEF Held
  <2>2. b \in Seq(LoadMessage)
    BY <2>1 DEF ForwarderSends
  <2>3. b \in Seq(DownMessage)
    BY <2>2 DEF DownMessage
  <2> QED
    BY <1>3, <2>1, <2>3 DEF ForwarderSends
<1>10. LinksTrue(ch)
  BY <1>1, <1>5 DEF LinksTrue, Records, Orders
<1>11. ASSUME k \in alive
       PROVE  RecordTrue(ch[Down(k)] \o b, cache[k], s2) /\ InOrder(ch[Down(k)] \o b, cache[k])
  <2>1. Both(k)
    BY <1>2, <1>4, <1>11 DEF Both
  <2>2. RecordTrue(chan[Down(k)], cache[k], sent[k]) /\ InOrder(chan[Down(k)], cache[k])
    BY <1>1, <1>11, <2>1 DEF Records, Orders
  <2>3. RecordTrue(chan[Down(k)] \o b, cache[k], s2)
    BY <1>6, <1>9, <2>2, RecordJoin
  <2>4. InOrder(chan[Down(k)] \o b, cache[k])
    BY <1>6, <1>9, <2>2, OrderJoin
  <2> QED
    BY <1>5, <2>3, <2>4
<1>12. /\ Records' /\ Orders' /\ ChanOK(chan')
       /\ \A d \in Children : chan'[Up(d)] = ch[Up(d)]
       /\ \A d \in Children : \A x : Named(ch[Down(d)], x) => Named(chan'[Down(d)], x)
       /\ k \in alive => \A x : Named(b, x) => Named(chan'[Down(k)], x)
  <2>1. b \in Seq(DownMessage) /\ sent \in [Children -> SUBSET Modules] /\ UNCHANGED <<alive, cache>>
    BY <1>4, <1>8, <1>9
  <2> QED
    BY <1>4, <1>5, <1>10, <1>11, <2>1, EdgeGrows
<1>13. sent' \in [Children -> SUBSET Modules] /\ \A d \in Children : d # k => sent'[d] = sent[d]
  BY <1>4, <1>8, <1>9
<1>14. Types'
  BY <1>1, <1>4, <1>12, <1>13 DEF Types
<1>15. RootSent'
  BY <1>1, <1>2, <1>4, <1>13 DEF RootSent
<1>16. Requested'
  <2>1. ASSUME NEW d \in Children, NEW x \in Items, InFlight(d, x), Both(d), ~Unanswerable(x)
        PROVE  \/ Asked(chan'[Up(d)], x)
               \/ Parent[d] # Root /\ d \in callbacks[Parent[d]][x]
               \/ Named(chan'[Down(d)], x)
    <3>1. \/ Asked(chan[Up(d)], x)
          \/ Parent[d] # Root /\ d \in callbacks[Parent[d]][x]
          \/ Named(chan[Down(d)], x)
      BY <1>1, <2>1 DEF Requested
    <3>2. CASE d = k /\ x = m
      <4>1. k \in alive /\ k \in linked
        BY <1>1, <2>1, <3>2 DEF Both, Connected
      <4>2. CASE m \in sent[k]
        <5>1. m \in Modules /\ RecordTrue(chan[Down(k)], cache[k], sent[k])
          BY <1>1, <1>8, <2>1, <3>2, <4>2 DEF Records
        <5>2. cache[k][m] = "none"
          BY <1>1, <1>7, <2>1, <3>2 DEF Pending, Held
        <5>3. Named(chan[Down(k)], m)
          BY <4>2, <5>1, <5>2 DEF RecordTrue
        <5> QED
          BY <1>5, <1>12, <3>2, <5>3
      <4>3. CASE m \notin sent[k]
        BY <1>9, <1>12, <3>2, <4>1, <4>3
      <4> QED
        BY <4>2, <4>3
    <3>3. CASE ~(d = k /\ x = m)
      <4>1. Asked(chan[Up(d)], x) => Asked(chan'[Up(d)], x)
        BY <1>5, <1>7, <1>12, <3>3
      <4>2. Named(chan[Down(d)], x) => Named(chan'[Down(d)], x)
        BY <1>5, <1>12
      <4> QED
        BY <3>1, <4>1, <4>2
    <3> QED
      BY <3>2, <3>3
  <2> QED
    BY <1>4, <2>1 DEF Requested, InFlight, Both
<1> QED
  BY <1>4, <1>12, <1>14, <1>15, <1>16, SameWaiters DEF IInv

\* A request reaches a context that does not hold the item.
LEMMA ForwarderAsksInv ==
    ASSUME IInv, NEW k \in Children, ForwarderGet(k), ~Held(Parent[k], Head(chan[Up(k)]).item)
    PROVE  IInv'
<1>1. Types /\ Scripts /\ Waiters /\ Callers /\ Connected /\ Pending /\ RootSent /\ Records /\ Orders /\ Requested
  BY DEF IInv
<1>2. PICK ch, c, m : ch = Rest(Up(k)) /\ c = Parent[k] /\ m = Head(chan[Up(k)]).item
  OBVIOUS
<1>3. /\ c # Root /\ c \in alive /\ chan[Up(k)] # <<>> /\ ~Held(c, m)
      /\ Request(ch, c, m, k)
      /\ UNCHANGED <<alive, linked, deaths, cache, sent, imported, at, state, toPush>>
  <2>1. Up(k)[2] = c
    BY <1>2, LinkLemma
  <2> QED
    BY <1>2, <2>1 DEF ForwarderGet, Arrives, streams, threads
<1>4. /\ ChanOK(ch)
      /\ \A d \in Children : ch[Down(d)] = chan[Down(d)]
      /\ \A d \in Children : d # k => ch[Up(d)] = chan[Up(d)]
      /\ ch[Up(k)] = Tail(chan[Up(k)])
  <2>1. ChanOK(chan)
    BY <1>1 DEF Types
  <2> QED
    BY <1>2, <1>3, <2>1, ReadOne
<1>5. chan[Up(k)] \in Seq(GetMessage)
  BY <1>1 DEF Types, ChanOK
<1>6. m \in Items /\ \A x : Asked(chan[Up(k)], x) => x = m \/ Asked(ch[Up(k)], x)
  BY <1>2, <1>3, <1>4, <1>5, AskedParts
<1>7. c \in Children /\ c # k
  BY <1>2, <1>3, NoLoop DEF Children
<1>8. /\ callbacks' \in [Children -> [Items -> SUBSET (Threads \cup Children)]]
      /\ callbacks'[c][m] = callbacks[c][m] \cup {k}
      /\ \A d \in Children, x \in Items : d # c \/ x # m => callbacks'[d][x] = callbacks[d][x]
      /\ ChanOK(chan')
      /\ \A d \in Children : chan'[Down(d)] = ch[Down(d)]
      /\ \A d \in Children : d # c => chan'[Up(d)] = ch[Up(d)]
      /\ \A x : Asked(ch[Up(c)], x) => Asked(chan'[Up(c)], x)
      /\ InFlight(c, m) \/ Parent[c] \notin alive \/ Asked(chan'[Up(c)], m)
  <2>1. k \in Threads \cup Children
    OBVIOUS
  <2> QED
    BY <1>1, <1>3, <1>4, <1>6, <1>7, <2>1, Requests
<1>9. Types'
  BY <1>1, <1>3, <1>8 DEF Types
<1>10. Scripts'
  BY <1>1, <1>3 DEF Scripts
<1>11. Waiters'
  <2>1. ASSUME NEW d \in Children, NEW x \in Items, NEW u \in Threads
        PROVE  u \in callbacks'[d][x] <=> u \in callbacks[d][x]
    BY <1>8, Constants
  <2> QED
    BY <1>1, <1>3, <2>1 DEF Waiters, Wanted
<1>12. Callers'
  <2>1. ASSUME NEW d \in Children, NEW x \in Items, NEW u \in callbacks'[d][x], u \in Children
        PROVE  Parent[u] = d
    <3>1. u \in callbacks[d][x] \/ (u = k /\ d = c)
      BY <1>8, <2>1
    <3> QED
      BY <1>1, <1>2, <2>1, <3>1 DEF Callers
  <2> QED
    BY <2>1 DEF Callers
<1>13. Connected' /\ RootSent'
  BY <1>1, <1>3 DEF Connected, RootSent
<1>14. Pending'
  BY <1>1, <1>3, <1>8 DEF Pending, InFlight, Held
<1>15. Records' /\ Orders'
  BY <1>1, <1>3, <1>4, <1>8 DEF Records, Orders, Both
<1>16. Requested'
  <2>1. ASSUME NEW d \in Children, NEW x \in Items, callbacks'[d][x] # {}, Both(d), ~Unanswerable(x)
        PROVE  \/ Asked(chan'[Up(d)], x)
               \/ Parent[d] # Root /\ d \in callbacks'[Parent[d]][x]
               \/ Named(chan'[Down(d)], x)
    <3>1. CASE d = k /\ x = m
      BY <1>2, <1>3, <1>8, <3>1
    <3>2. CASE ~(d = k /\ x = m) /\ InFlight(d, x)
      <4>1. \/ Asked(chan[Up(d)], x)
            \/ Parent[d] # Root /\ d \in callbacks[Parent[d]][x]
            \/ Named(chan[Down(d)], x)
        BY <1>1, <2>1, <3>2 DEF Requested
      <4>2. Asked(chan[Up(d)], x) => Asked(chan'[Up(d)], x)
        BY <1>4, <1>6, <1>7, <1>8, <3>2
      <4>3. Parent[d] # Root => Parent[d] \in Children
        BY NoLoop DEF Children
      <4> QED
        BY <1>4, <1>8, <4>1, <4>2, <4>3
    <3>3. CASE ~InFlight(d, x)
      <4>1. d = c /\ x = m
        BY <1>8, <2>1, <3>3 DEF InFlight
      <4> QED
        BY <1>8, <2>1, <3>3, <4>1 DEF Both
    <3> QED
      BY <3>1, <3>2, <3>3
  <2> QED
    BY <1>3, <2>1 DEF Requested, InFlight, Both
<1> QED
  BY <1>9, <1>10, <1>11, <1>12, <1>13, <1>14, <1>15, <1>16 DEF IInv

\* Whom the answer that c is about to read concerns, and what it sends each of them.
TellsOf(c) ==
    IF callbacks[c][Head(chan[Down(c)]).item] = {} THEN {} ELSE Told(c, Head(chan[Down(c)]).item)
PassedOn(c) ==
    [k \in Children |->
       IF k \in TellsOf(c)
       THEN Provide([cache[c] EXCEPT ![Head(chan[Down(c)]).item] = Head(chan[Down(c)]).answer],
                    k, Head(chan[Down(c)]).item)
       ELSE <<>>]

\* An answer is read: it is stored, and passed on to all who asked.
LEMMA OnLoadInv ==
    ASSUME IInv, NEW c \in Children, OnLoad(c)
    PROVE  IInv'
<1>1. Types /\ Scripts /\ Waiters /\ Callers /\ Connected /\ Pending /\ RootSent /\ Records /\ Orders /\ Requested
  BY DEF IInv
<1>2. PICK q, m, a : q = chan[Down(c)] /\ m = Head(q).item /\ a = Head(q).answer
  OBVIOUS
<1>3. PICK known, tell : known = [cache[c] EXCEPT ![m] = a] /\ tell = callbacks[c][m]
  OBVIOUS
<1>4. PICK out : out = [k \in Children |-> IF k \in tell THEN Provide(known, k, m) ELSE <<>>]
  OBVIOUS
<1>5. /\ c \in alive /\ q # <<>> /\ Head(q).kind = "LOAD"
      /\ cache' = [cache EXCEPT ![c] = known]
      /\ callbacks' = [callbacks EXCEPT ![c][m] = {}]
      /\ state' = [t \in Threads |-> IF t \in tell THEN "told" ELSE state[t]]
      /\ sent' = [k \in Children |-> Noted(k, out[k])]
      /\ chan' = [e \in Links |->
                    IF e = Down(c) THEN Tail(chan[e])
                    ELSE IF e[1] = c /\ e[2] \in tell \cap alive THEN chan[e] \o out[e[2]]
                    ELSE chan[e]]
      /\ UNCHANGED <<alive, linked, deaths, imported, at, toPush>>
  <2>1. Down(c)[2] = c /\ tell = IF callbacks[c][m] = {} THEN {} ELSE Told(c, m)
    BY <1>3, LinkLemma DEF Told
  <2>2. PICK who : who = IF callbacks[c][m] = {} THEN {} ELSE Told(c, m)
    OBVIOUS
  <2>3. who = tell
    BY <2>1, <2>2
  <2>4. /\ Arrives(Down(c), "LOAD")
        /\ cache' = [cache EXCEPT ![c] = [cache[c] EXCEPT ![Head(chan[Down(c)]).item] = Head(chan[Down(c)]).answer]]
        /\ callbacks' = [callbacks EXCEPT ![c][Head(chan[Down(c)]).item] = {}]
        /\ UNCHANGED <<streams, imported, at, toPush>>
    BY Zenon DEF OnLoad
  <2>5. /\ state' = [t \in Threads |-> IF t \in TellsOf(c) THEN "told" ELSE state[t]]
        /\ sent' = [k \in Children |-> Noted(k, PassedOn(c)[k])]
        /\ chan' = [e \in Links |->
              IF e = Down(c) THEN Tail(chan[e])
              ELSE IF e[1] = c /\ e[2] \in TellsOf(c) \cap alive THEN chan[e] \o PassedOn(c)[e[2]]
              ELSE chan[e]]
    BY Zenon DEF OnLoad, TellsOf, PassedOn
  <2>6. Head(chan[Down(c)]).item = m /\ Head(chan[Down(c)]).answer = a
    BY <1>2
  <2>7. TellsOf(c) = tell
    BY <2>2, <2>3, <2>6, Zenon DEF TellsOf
  <2>8. [cache[c] EXCEPT ![Head(chan[Down(c)]).item] = Head(chan[Down(c)]).answer] = known
    BY <1>3, <2>6, Zenon
  <2>9. PassedOn(c) = out
    BY <1>4, <2>6, <2>7, <2>8, Zenon DEF PassedOn
  <2>10. state' = [t \in Threads |-> IF t \in tell THEN "told" ELSE state[t]]
    BY <2>5, <2>7
  <2>11. sent' = [k \in Children |-> Noted(k, out[k])]
    BY <2>5, <2>9
  <2>12. chan' = [e \in Links |->
                   IF e = Down(c) THEN Tail(chan[e])
                   ELSE IF e[1] = c /\ e[2] \in tell \cap alive THEN chan[e] \o out[e[2]]
                   ELSE chan[e]]
    BY <2>5, <2>7, <2>9
  <2>13. c \in alive /\ q # <<>> /\ Head(q).kind = "LOAD" /\ UNCHANGED <<alive, linked, deaths>>
    BY <1>2, <2>1, <2>4 DEF Arrives, streams
  <2> QED
    BY <1>3, <2>4, <2>6, <2>8, <2>10, <2>11, <2>12, <2>13
<1>6. q \in Seq(DownMessage) /\ ChanOK(chan)
  BY <1>1, <1>2 DEF Types, ChanOK
<1>7. m \in Items /\ a \in {"good", "absent"} /\ IsLoad(Head(q), m)
  <2>1. Head(q) \in DownMessage
    BY <1>5, <1>6, First
  <2>2. Head(q) \in LoadMessage
    BY <1>5, <2>1, Kinds DEF DownMessage
  <2> QED
    BY <1>2, <1>5, <2>2, Kinds DEF IsLoad
<1>8. /\ cache \in [Children -> [Items -> {"none", "good", "absent"}]]
      /\ callbacks \in [Children -> [Items -> SUBSET (Threads \cup Children)]]
      /\ sent \in [Children -> SUBSET Modules]
      /\ state \in [Threads -> {"run", "wait", "told", "failed"}]
  BY <1>1 DEF Types
<1>9. known \in [Items -> {"none", "good", "absent"}] /\ known[m] = a /\ \A x \in Items : x # m => known[x] = cache[c][x]
  BY <1>3, <1>7, <1>8
<1>10. /\ tell \in SUBSET (Threads \cup Children)
       /\ \A k \in tell : k \in Children => Parent[k] = c
  BY <1>1, <1>3, <1>7, <1>8 DEF Callers
<1>11. c \notin tell /\ Parent[c] \notin tell
  <2>1. c \notin tell
    BY <1>10, NoLoop
  <2>2. Parent[c] \notin tell
    <3>1. SUFFICES ASSUME Parent[c] \in tell PROVE FALSE
      OBVIOUS
    <3>2. Parent[c] \in Children
      BY <1>10, <3>1, NoLoop, ImportsAssumption
    <3> QED
      BY <1>10, <3>1, <3>2, NoLoop
  <2> QED
    BY <2>1, <2>2
<1>12. ASSUME NEW k \in Children
       PROVE  /\ out[k] \in Seq(LoadMessage) /\ out[k] \in Seq(DownMessage)
              /\ sent'[k] \in SUBSET Modules /\ Fresh(out[k], sent[k], sent'[k])
              /\ k \in tell /\ k \in linked => m \in sent[k] \/ Named(out[k], m)
              /\ k \notin tell => sent'[k] = sent[k]
  <2>1. PICK b : b = out[k]
    OBVIOUS
  <2>2. sent'[k] = Noted(k, b)
    BY <1>5, <2>1
  <2>3. CASE k \in tell
    <3>1. b = Provide(known, k, m)
      BY <1>4, <2>1, <2>3
    <3>2. sent[k] \in SUBSET Modules /\ known[m] # "none"
      BY <1>7, <1>8, <1>9
    <3>3. ForwarderSends(k, m, b)
      BY <1>7, <1>9, <3>1, <3>2, Provides
    <3>4. b \in Seq(LoadMessage)
      BY <3>3 DEF ForwarderSends
    <3>5. b \in Seq(DownMessage)
      BY <3>4 DEF DownMessage
    <3> QED
      BY <2>1, <2>2, <2>3, <3>3, <3>4, <3>5 DEF ForwarderSends
  <2>4. CASE k \notin tell
    <3>1. b = <<>>
      BY <1>4, <2>1, <2>4
    <3>2. DOMAIN b = {}
      BY <3>1
    <3>3. Noted(k, b) = sent[k]
      BY <3>2 DEF Noted
    <3>4. b \in Seq(LoadMessage) /\ b \in Seq(DownMessage)
      BY <3>1
    <3>5. Fresh(b, sent[k], sent[k])
      BY <3>1, FreshEmpty
    <3> QED
      BY <1>8, <2>1, <2>2, <2>4, <3>3, <3>4, <3>5
  <2> QED
    BY <2>3, <2>4
<1>13. /\ \A d \in Children : chan'[Up(d)] = chan[Up(d)]
       /\ chan'[Down(c)] = Tail(q)
       /\ \A d \in Children : d # c =>
            chan'[Down(d)] = IF d \in tell \cap alive THEN chan[Down(d)] \o out[d] ELSE chan[Down(d)]
  <2>1. chan'[Down(c)] = Tail(q)
    BY <1>2, <1>5, LinkLemma
  <2>2. ASSUME NEW d \in Children PROVE chan'[Up(d)] = chan[Up(d)]
    <3>1. Up(d) \in Links /\ Up(d) # Down(c) /\ Up(d)[1] = d /\ Up(d)[2] = Parent[d]
      BY LinkLemma
    <3>2. ~(Up(d)[1] = c /\ Up(d)[2] \in tell)
      BY <1>11, <3>1
    <3> QED
      BY <1>5, <3>1, <3>2
  <2>3. ASSUME NEW d \in Children, d # c
        PROVE  chan'[Down(d)] = IF d \in tell \cap alive THEN chan[Down(d)] \o out[d] ELSE chan[Down(d)]
    <3>1. Down(d) \in Links /\ Down(d) # Down(c) /\ Down(d)[1] = Parent[d] /\ Down(d)[2] = d
      BY <2>3, LinkLemma
    <3>2. d \in tell => Parent[d] = c
      BY <1>10
    <3> QED
      BY <1>5, <3>1, <3>2
  <2> QED
    BY <2>1, <2>2, <2>3
<1>14. ChanOK(chan')
  <2>1. chan' = [e \in Links |-> chan'[e]]
    BY <1>5
  <2>2. ASSUME NEW d \in Children PROVE chan'[Down(d)] \in Seq(DownMessage)
    <3>1. chan[Down(d)] \in Seq(DownMessage) /\ Tail(q) \in Seq(DownMessage)
      BY <1>5, <1>6 DEF ChanOK
    <3>2. chan[Down(d)] \o out[d] \in Seq(DownMessage)
      BY <1>12, <3>1, DownConcat
    <3> QED
      BY <1>13, <3>1, <3>2
  <2>3. \A d \in Children : chan'[Up(d)] \in Seq(GetMessage)
    BY <1>6, <1>13 DEF ChanOK
  <2> QED
    BY <2>1, <2>2, <2>3 DEF ChanOK
<1>15. /\ cache' \in [Children -> [Items -> {"none", "good", "absent"}]]
       /\ cache'[c] = known /\ \A d \in Children : d # c => cache'[d] = cache[d]
       /\ callbacks' \in [Children -> [Items -> SUBSET (Threads \cup Children)]]
       /\ callbacks'[c][m] = {}
       /\ \A d \in Children, x \in Items : d # c \/ x # m => callbacks'[d][x] = callbacks[d][x]
  BY <1>5, <1>7, <1>8, <1>9
<1>16. Types'
  <2>1. state' \in [Threads -> {"run", "wait", "told", "failed"}]
    BY <1>5, <1>8
  <2>2. sent' \in [Children -> SUBSET Modules]
    BY <1>5, <1>12
  <2> QED
    BY <1>1, <1>5, <1>14, <1>15, <2>1, <2>2 DEF Types
<1>17. \A t \in Threads : (t \in tell => state[t] = "wait" /\ state'[t] = "told") /\ (t \notin tell => state'[t] = state[t])
  BY <1>1, <1>3, <1>5, <1>7 DEF Waiters
<1>18. Scripts'
  BY <1>1, <1>5, <1>17 DEF Scripts
<1>19. Waiters'
  <2>1. ASSUME NEW d \in Children, NEW x \in Items, NEW t \in Threads
        PROVE  t \in callbacks'[d][x] <=> state'[t] = "wait" /\ d = Home[t] /\ x = Wanted(t)
    <3>1. t \in tell <=> state[t] = "wait" /\ c = Home[t] /\ m = Wanted(t)
      BY <1>1, <1>3, <1>7 DEF Waiters
    <3>2. t \in callbacks[d][x] <=> state[t] = "wait" /\ d = Home[t] /\ x = Wanted(t)
      BY <1>1 DEF Waiters
    <3>3. CASE d = c /\ x = m
      BY <1>15, <1>17, <3>1, <3>3
    <3>4. CASE ~(d = c /\ x = m)
      BY <1>15, <1>17, <3>1, <3>2, <3>4
    <3> QED
      BY <3>3, <3>4
  <2>2. \A t \in Threads : Wanted(t)' = Wanted(t)
    BY <1>5 DEF Wanted
  <2> QED
    BY <2>1, <2>2 DEF Waiters
<1>20. Callers'
  <2>1. \A d \in Children, x \in Items : callbacks'[d][x] \subseteq callbacks[d][x]
    BY <1>15
  <2> QED
    BY <1>1, <2>1 DEF Callers
<1>21. Connected'
  BY <1>1, <1>5 DEF Connected
<1>22. Pending'
  BY <1>1, <1>9, <1>15 DEF Pending, InFlight, Held
<1>23. RootSent'
  <2>1. \A d \in Children : Parent[d] = Root => d \notin tell
    BY <1>10, Constants
  <2> QED
    BY <1>1, <1>12, <2>1 DEF RootSent
<1>24. ASSUME NEW d \in Children
       PROVE  /\ d \in alive /\ Parent[d] \in alive => RecordTrue(chan'[Down(d)], cache'[d], sent'[d])
              /\ d \in alive => InOrder(chan'[Down(d)], cache'[d])
  <2>1. CASE d = c
    <3>1. /\ \A s : RecordTrue(q, cache[c], s) => RecordTrue(Tail(q), known, s)
          /\ InOrder(q, cache[c]) => InOrder(Tail(q), known)
      <4>1. a # "none" /\ cache[c] \in [Items -> {"none", "good", "absent"}]
        BY <1>7, <1>8
      <4> QED
        BY <1>3, <1>5, <1>6, <1>7, <4>1, LoadRead
    <3>2. sent'[c] = sent[c]
      BY <1>11, <1>12
    <3>3. /\ Both(c) => RecordTrue(q, cache[c], sent[c])
          /\ c \in alive => InOrder(q, cache[c])
      BY <1>1, <1>2 DEF Records, Orders
    <3> QED
      BY <1>13, <1>15, <2>1, <3>1, <3>2, <3>3 DEF Both
  <2>2. CASE d # c /\ d \in tell
    <3>1. PICK r, b, s2 : r = chan[Down(d)] /\ b = out[d] /\ s2 = sent'[d]
      OBVIOUS
    <3>2. /\ r \in Seq(DownMessage) /\ b \in Seq(LoadMessage) /\ b \in Seq(DownMessage)
          /\ Fresh(b, sent[d], s2)
      BY <1>6, <1>12, <3>1 DEF ChanOK
    <3>3. d \in alive => chan'[Down(d)] = r \o b
      BY <1>13, <2>2, <3>1
    <3>4. ASSUME d \in alive, Parent[d] \in alive PROVE RecordTrue(r \o b, cache[d], s2)
      <4>1. RecordTrue(r, cache[d], sent[d])
        BY <1>1, <3>1, <3>4 DEF Records, Both
      <4> QED
        BY <3>2, <4>1, RecordJoin
    <3>5. ASSUME d \in alive PROVE InOrder(r \o b, cache[d])
      <4>1. InOrder(r, cache[d])
        BY <1>1, <3>1, <3>5 DEF Orders
      <4> QED
        BY <3>2, <4>1, OrderJoin
    <3> QED
      BY <1>15, <2>2, <3>1, <3>3, <3>4, <3>5
  <2>3. CASE d # c /\ d \notin tell
    <3>1. chan'[Down(d)] = chan[Down(d)] /\ sent'[d] = sent[d] /\ cache'[d] = cache[d]
      BY <1>12, <1>13, <1>15, <2>3
    <3> QED
      BY <1>1, <3>1 DEF Records, Orders, Both
  <2> QED
    BY <2>1, <2>2, <2>3
<1>25. Records' /\ Orders'
  BY <1>5, <1>24 DEF Records, Orders, Both
<1>26. Requested'
  <2>1. ASSUME NEW d \in Children, NEW x \in Items, callbacks'[d][x] # {}, Both(d), ~Unanswerable(x)
        PROVE  \/ Asked(chan'[Up(d)], x)
               \/ Parent[d] # Root /\ d \in callbacks'[Parent[d]][x]
               \/ Named(chan'[Down(d)], x)
    <3>1. ~(d = c /\ x = m) /\ InFlight(d, x)
      BY <1>15, <2>1 DEF InFlight
    <3>2. \/ Asked(chan[Up(d)], x)
          \/ Parent[d] # Root /\ d \in callbacks[Parent[d]][x]
          \/ Named(chan[Down(d)], x)
      BY <1>1, <2>1, <3>1 DEF Requested
    <3>3. CASE Asked(chan[Up(d)], x)
      BY <1>13, <3>3
    <3>4. CASE Named(chan[Down(d)], x)
      <4>1. CASE d = c
        <5>1. ~IsLoad(Head(q), x)
          BY <1>2, <3>1, <4>1 DEF IsLoad
        <5>2. Named(q, x) <=> IsLoad(Head(q), x) \/ Named(Tail(q), x)
          BY <1>5, <1>6, NamedTail
        <5> QED
          BY <1>2, <1>13, <3>4, <4>1, <5>1, <5>2
      <4>2. CASE d # c
        <5>1. chan[Down(d)] \in Seq(DownMessage) /\ out[d] \in Seq(DownMessage)
          BY <1>6, <1>12 DEF ChanOK
        <5>2. Named(chan[Down(d)] \o out[d], x) <=> Named(chan[Down(d)], x) \/ Named(out[d], x)
          BY <5>1, DownConcat
        <5> QED
          BY <1>13, <3>4, <4>2, <5>2
      <4> QED
        BY <4>1, <4>2
    <3>5. CASE Parent[d] # Root /\ d \in callbacks[Parent[d]][x]
      <4>1. Parent[d] \in Children
        BY <3>5, NoLoop DEF Children
      <4>2. CASE Parent[d] = c /\ x = m
        <5>1. d \in tell /\ d # c /\ d \in alive /\ d \in linked
          BY <1>1, <1>3, <2>1, <3>5, <4>2, NoLoop DEF Both, Connected
        <5>2. PICK r, b : r = chan[Down(d)] /\ b = out[d]
          OBVIOUS
        <5>3. r \in Seq(DownMessage) /\ b \in Seq(DownMessage) /\ chan'[Down(d)] = r \o b
          BY <1>6, <1>12, <1>13, <5>1, <5>2 DEF ChanOK
        <5>4. Named(r, m) \/ Named(b, m)
          <6>1. m \in sent[d] \/ Named(b, m)
            BY <1>12, <5>1, <5>2
          <6>2. ASSUME m \in sent[d] PROVE Named(r, m)
            <7>1. m \in Modules /\ RecordTrue(r, cache[d], sent[d])
              BY <1>1, <1>8, <2>1, <5>2, <6>2 DEF Records
            <7>2. cache[d][m] = "none"
              BY <1>1, <1>7, <3>1, <4>2 DEF Pending, Held
            <7> QED
              BY <6>2, <7>1, <7>2 DEF RecordTrue
          <6> QED
            BY <6>1, <6>2
        <5>5. Named(r \o b, m) <=> Named(r, m) \/ Named(b, m)
          BY <5>3, DownConcat
        <5> QED
          BY <4>2, <5>3, <5>4, <5>5
      <4>3. CASE ~(Parent[d] = c /\ x = m)
        BY <1>15, <3>5, <4>1, <4>3
      <4> QED
        BY <4>2, <4>3
    <3> QED
      BY <3>2, <3>3, <3>4, <3>5
  <2> QED
    BY <1>5, <2>1 DEF Requested, InFlight, Both
<1> QED
  BY <1>16, <1>18, <1>19, <1>20, <1>21, <1>22, <1>23, <1>25, <1>26 DEF IInv

(***************************************************************************)
(* Deaths.                                                                 *)
(***************************************************************************)

\* A context that is gone takes what was on its way to it along.
LEMMA GoneInv ==
    ASSUME IInv, NEW n \in Children,
           alive' = alive \ {n}, deaths' \in 0..MaxDeaths,
           chan' = [e \in Links |-> IF e[2] = n THEN <<>> ELSE chan[e]],
           UNCHANGED <<linked, cache, callbacks, sent, threads, toPush>>
    PROVE  IInv'
<1>1. Types /\ Scripts /\ Waiters /\ Callers /\ Connected /\ Pending /\ RootSent /\ Records /\ Orders /\ Requested
  BY DEF IInv
<1>2. UNCHANGED <<linked, cache, callbacks, sent, imported, at, state, toPush>>
  BY DEF threads
<1>3. \A d \in Children : /\ chan'[Up(d)] = IF Parent[d] = n THEN <<>> ELSE chan[Up(d)]
                          /\ chan'[Down(d)] = IF d = n THEN <<>> ELSE chan[Down(d)]
  BY LinkLemma
<1>4. ChanOK(chan')
  <2>1. chan' = [e \in Links |-> chan'[e]]
    OBVIOUS
  <2>2. ChanOK(chan)
    BY <1>1 DEF Types
  <2> QED
    BY <1>3, <2>1, <2>2, EmptyQueue DEF ChanOK
<1>5. Types'
  BY <1>1, <1>2, <1>4, Constants DEF Types
<1>6. Scripts' /\ Waiters' /\ Callers' /\ Connected' /\ Pending' /\ RootSent'
  BY <1>1, <1>2 DEF Scripts, Waiters, Wanted, Callers, Connected, Pending, InFlight, Held, RootSent
<1>7. Records' /\ Orders'
  BY <1>1, <1>2, <1>3 DEF Records, Orders, Both
<1>8. Requested'
  <2>1. ASSUME NEW d \in Children, NEW x \in Items, InFlight(d, x), Both(d)', ~Unanswerable(x)
        PROVE  \/ Asked(chan'[Up(d)], x)
               \/ Parent[d] # Root /\ d \in callbacks[Parent[d]][x]
               \/ Named(chan'[Down(d)], x)
    <3>1. Both(d) /\ d # n /\ Parent[d] # n
      BY <2>1 DEF Both
    <3>2. chan'[Up(d)] = chan[Up(d)] /\ chan'[Down(d)] = chan[Down(d)]
      BY <1>3, <3>1
    <3> QED
      BY <1>1, <2>1, <3>1, <3>2 DEF Requested
  <2> QED
    BY <1>2, <2>1 DEF Requested, InFlight
<1> QED
  BY <1>5, <1>6, <1>7, <1>8 DEF IInv

\* A stream to a context that is gone is dropped.
LEMMA DisconnectInv ==
    ASSUME IInv, NEW n \in Children, Disconnect(n)
    PROVE  IInv'
<1>1. Types /\ Scripts /\ Waiters /\ Callers /\ Connected /\ Pending /\ RootSent /\ Records /\ Orders /\ Requested
  BY DEF IInv
<1>2. /\ n \notin alive /\ linked' = linked \ {n}
      /\ UNCHANGED <<alive, deaths, chan, cache, callbacks, sent, imported, at, state, toPush>>
  BY DEF Disconnect, threads
<1>3. Types'
  BY <1>1, <1>2 DEF Types
<1>4. Scripts' /\ Waiters' /\ Callers' /\ Connected' /\ Pending' /\ RootSent'
  BY <1>1, <1>2 DEF Scripts, Waiters, Wanted, Callers, Connected, Pending, InFlight, Held, RootSent
<1>5. Records' /\ Orders'
  BY <1>1, <1>2 DEF Records, Orders, Both
<1>6. Requested'
  BY <1>2, StillRequested
<1> QED
  BY <1>3, <1>4, <1>5, <1>6 DEF IInv

(***************************************************************************)
(* The theorems.                                                           *)
(***************************************************************************)

\* Every step keeps the invariant.
LEMMA StepInv == IInv /\ [Next]_vars => IInv'
<1> SUFFICES ASSUME IInv, [Next]_vars PROVE IInv'
  OBVIOUS
<1>1. ASSUME NEW t \in Threads, Import(t) \/ Execute(t) PROVE IInv'
  BY <1>1, ImportInv, ExecuteInv
<1>2. ASSUME NEW c \in Children, RootGet(c) PROVE IInv'
  BY <1>2, RootGetInv
<1>3. ASSUME NEW c \in Children, ForwarderGet(c) PROVE IInv'
  BY <1>3, ForwarderAnswersInv, ForwarderAsksInv
<1>4. ASSUME NEW c \in Children, OnLoad(c) PROVE IInv'
  BY <1>4, OnLoadInv
<1>5. ASSUME NEW c \in Children, OnForward(c) PROVE IInv'
  BY <1>5, OnForwardInv
<1>6. ASSUME NEW c \in Children, Disconnect(c) PROVE IInv'
  BY <1>6, DisconnectInv
<1>7. deaths \in 0..MaxDeaths
  BY DEF IInv, Types
<1>8. ASSUME NEW c \in Children, LoseParent(c) PROVE IInv'
  <2>1. deaths' \in 0..MaxDeaths
    BY <1>7, <1>8 DEF LoseParent
  <2> QED
    BY <1>8, <2>1, GoneInv DEF LoseParent
<1>9. ASSUME NEW c \in Children, Die(c) PROVE IInv'
  <2>1. deaths' \in 0..MaxDeaths
    BY <1>7, <1>9, ImportsAssumption DEF Die
  <2> QED
    BY <1>9, <2>1, GoneInv DEF Die
<1>10. ASSUME NEW p \in Pushes, Push(p[1], p[2]) PROVE IInv'
  <2>1. p[1] \in Children /\ p[2] \in Modules
    BY ImportsAssumption
  <2> QED
    BY <1>10, <2>1, PushInv
<1>11. CASE UNCHANGED vars
  <2>1. UNCHANGED <<alive, linked, deaths, chan, cache, callbacks, sent, imported, at, state, toPush>>
    BY <1>11 DEF vars, streams, threads
  <2>2. Types'
    BY <2>1 DEF IInv, Types
  <2> QED
    BY <2>1, <2>2, SameQueues, SameWaiters DEF IInv
<1> QED
  BY <1>1, <1>2, <1>3, <1>4, <1>5, <1>6, <1>8, <1>9, <1>10, <1>11 DEF Next, ThreadStep, ReadStep

\* The invariant is one.
THEOREM Invariance == Spec => []IInv
BY InitInv, StepInv, PTL DEF Spec

\* Every variable is of its type: a thread stays in its script, and links carry
\* requests up, answers and FORWARDs down.
THEOREM TypeCorrect == Spec => []TypeOK
<1>1. IInv => TypeOK
  <2> SUFFICES ASSUME IInv PROVE TypeOK
    OBVIOUS
  <2>1. Types
    BY DEF IInv
  <2>2. ChanOK(chan)
    BY <2>1 DEF Types
  <2>3. /\ chan \in [Links -> Seq(Message)]
        /\ \A c \in Children :
             /\ \A i \in DOMAIN chan[<<c, Parent[c]>>] : chan[<<c, Parent[c]>>][i].kind = "GET"
             /\ \A i \in DOMAIN chan[<<Parent[c], c>>] : chan[<<Parent[c], c>>][i].kind # "GET"
    BY <2>2, ChanTyped
  <2> QED
    BY <2>1, <2>3 DEF Types, TypeOK
<1> QED
  BY <1>1, Invariance, PTL

\* The answers on a link, as the properties speak of them.
LEMMA LoadsNamed ==
    ASSUME ChanOK(chan), NEW c \in Children, NEW m
    PROVE  /\ Loads(Down(c), m) # {} <=> Named(chan[Down(c)], m)
           /\ Single(chan[Down(c)], m) =>
                Cardinality(Loads(Down(c), m)) = IF Named(chan[Down(c)], m) THEN 1 ELSE 0
<1>1. PICK q, L : q = chan[Down(c)] /\ L = Loads(Down(c), m)
  OBVIOUS
<1>2. q \in Seq(DownMessage) /\ DOMAIN q = 1..Len(q)
  BY <1>1 DEF ChanOK
<1>3. \A i : i \in L <=> i \in 1..Len(q) /\ IsLoad(q[i], m)
  BY <1>1, <1>2 DEF Loads, IsLoad
<1>4. L # {} <=> Named(q, m)
  BY <1>3 DEF Named
<1>5. ASSUME Single(q, m), L # {} PROVE Cardinality(L) = 1
  <2>1. PICK i : i \in L
    BY <1>5
  <2>2. L = {i}
    BY <1>3, <1>5, <2>1 DEF Single
  <2> QED
    BY <2>2, FS_Singleton
<1>6. ASSUME L = {} PROVE Cardinality(L) = 0
  BY <1>6, FS_EmptySet
<1> QED
  BY <1>1, <1>4, <1>5, <1>6

\* While somebody waits for an item the request is on its way to the parent, or
\* noted there, or the answer is on its way back.
THEOREM RequestsAreNotForgotten == Spec => []NoForgottenRequest
<1>1. IInv => NoForgottenRequest
  <2> SUFFICES ASSUME IInv PROVE NoForgottenRequest
    OBVIOUS
  <2>1. Types /\ Scripts /\ Waiters /\ Requested
    BY DEF IInv
  <2>2. ASSUME NEW t \in Threads, state[t] = "wait" PROVE t \in callbacks[Home[t]][Wanted(t)]
    <3>1. at[t] <= Len(Script[t])
      BY <2>1, <2>2 DEF Scripts
    <3>2. Wanted(t) \in Items /\ Home[t] \in Children
      BY <2>1, <3>1, WantedItem
    <3> QED
      BY <2>1, <2>2, <3>2 DEF Waiters
  <2>3. ASSUME NEW c \in Children, NEW m \in Items,
               InFlight(c, m), {c, Parent[c]} \subseteq alive, ~Unanswerable(m)
        PROVE  \/ Asks(Up(c), m)
               \/ Parent[c] # Root /\ c \in callbacks[Parent[c]][m]
               \/ Loads(Down(c), m) # {}
    <3>1. \/ Asked(chan[Up(c)], m)
          \/ Parent[c] # Root /\ c \in callbacks[Parent[c]][m]
          \/ Named(chan[Down(c)], m)
      BY <2>1, <2>3 DEF Requested, Both
    <3>2. ChanOK(chan)
      BY <2>1 DEF Types
    <3>3. Loads(Down(c), m) # {} <=> Named(chan[Down(c)], m)
      BY <3>2, LoadsNamed
    <3>4. Asked(chan[Up(c)], m) => Asks(Up(c), m)
      <4>1. chan[Up(c)] \in Seq(GetMessage)
        BY <3>2 DEF ChanOK
      <4>2. DOMAIN chan[Up(c)] = 1..Len(chan[Up(c)])
        BY <4>1
      <4> QED
        BY <4>2 DEF Asked, Asks
    <3> QED
      BY <3>1, <3>3, <3>4
  <2> QED
    BY <2>2, <2>3 DEF NoForgottenRequest
<1> QED
  BY <1>1, Invariance, PTL

\* What a stream is on record for having been sent is on its way or stored, once;
\* what is passed on is there to be passed on.
THEOREM RecordsAreTrue == Spec => []RecordsHold
<1>1. IInv => RecordsHold
  <2> SUFFICES ASSUME IInv PROVE RecordsHold
    OBVIOUS
  <2>1. Types /\ Records /\ Orders
    BY DEF IInv
  <2>2. ChanOK(chan)
    BY <2>1 DEF Types
  <2>3. SentOnce
    <3>1. ASSUME NEW c \in Children, NEW m \in Modules \ Failing, {c, Parent[c]} \subseteq alive
          PROVE  Cardinality(Loads(Down(c), m)) + (IF Held(c, m) THEN 1 ELSE 0)
                   = (IF m \in sent[c] THEN 1 ELSE 0)
      <4>1. RecordTrue(chan[Down(c)], cache[c], sent[c])
        BY <2>1, <3>1 DEF Records, Both
      <4>2. /\ m \in sent[c] => cache[c][m] # "none" \/ Named(chan[Down(c)], m)
            /\ cache[c][m] # "none" \/ Named(chan[Down(c)], m) => m \in sent[c]
            /\ ~(cache[c][m] # "none" /\ Named(chan[Down(c)], m))
            /\ Single(chan[Down(c)], m)
        BY <4>1 DEF RecordTrue
      <4>3. Cardinality(Loads(Down(c), m)) = IF Named(chan[Down(c)], m) THEN 1 ELSE 0
        BY <2>2, <4>2, LoadsNamed
      <4> QED
        BY <4>2, <4>3 DEF Held
    <3> QED
      BY <3>1 DEF SentOnce
  <2>4. ForwardedIsHeld
    <3>1. ASSUME NEW n \in alive \ {Root}, Arrives(Down(n), "FORWARD")
          PROVE  Held(n, Head(chan[Down(n)]).item)
      <4>1. n \in Children
        BY <2>1, <3>1 DEF Types, Children
      <4>2. PICK q : q = chan[Down(n)] /\ q \in Seq(DownMessage)
        BY <2>2, <4>1 DEF ChanOK
      <4>3. q # <<>> /\ Head(q).kind = "FORWARD"
        BY <3>1, <4>2 DEF Arrives
      <4>4. InOrder(q, cache[n])
        BY <2>1, <3>1, <4>1, <4>2 DEF Orders
      <4>5. cache[n][Head(q).item] # "none"
        BY <4>2, <4>3, <4>4, ForwardRead
      <4> QED
        BY <4>2, <4>5 DEF Held
    <3> QED
      BY <3>1 DEF ForwardedIsHeld
  <2> QED
    BY <2>3, <2>4 DEF RecordsHold
<1> QED
  BY <1>1, Invariance, PTL
=============================================================================
