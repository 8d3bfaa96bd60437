---------------------------- MODULE LatchProofs ----------------------------
(***************************************************************************)
(* Theorems about Latch, for any number of latches, threads, items and     *)
(* socketpairs.  First the operators on lists, then the types, then the    *)
(* inductive invariant of the wait queue: one lemma per action, a step      *)
(* lemma, and the three properties that follow; then that no item is lost; *)
(* and last that Latch implements HandOff.                                 *)
(***************************************************************************)
EXTENDS LatchRefinement, FiniteSetTheorems, SequenceTheorems, TLAPS

(* What comes before a position of a list.                                  *)
LEMMA PrefixLemma ==
    ASSUME NEW S, NEW s \in Seq(S), NEW i \in 1..Len(s)
    PROVE  /\ SubSeq(s, 1, i - 1) \in Seq(S)
           /\ Len(SubSeq(s, 1, i - 1)) = i - 1
           /\ \A j \in 1..i - 1 : SubSeq(s, 1, i - 1)[j] = s[j]
OBVIOUS

(* list.pop(i) and del list[i]: what is left, and where.                    *)
LEMMA RemoveAtLemma ==
    ASSUME NEW S, NEW s \in Seq(S), NEW i \in 1..Len(s)
    PROVE  /\ RemoveAt(s, i) \in Seq(S)
           /\ Len(RemoveAt(s, i)) = Len(s) - 1
           /\ \A j \in 1..Len(s) - 1 :
                RemoveAt(s, i)[j] = IF j < i THEN s[j] ELSE s[j + 1]
<1> DEFINE p == SubSeq(s, 1, i - 1)
           q == SubSeq(s, i + 1, Len(s))
<1>1. p \in Seq(S) /\ Len(p) = i - 1 /\ \A j \in 1..i - 1 : p[j] = s[j]
  BY PrefixLemma
<1>2. q \in Seq(S) /\ Len(q) = Len(s) - i /\ \A j \in 1..Len(s) - i : q[j] = s[i + j]
  OBVIOUS
<1>3. RemoveAt(s, i) = p \o q
  BY DEF RemoveAt
<1> HIDE DEF p, q
<1>4. /\ p \o q \in Seq(S)
      /\ Len(p \o q) = Len(p) + Len(q)
      /\ \A j \in 1..Len(p) + Len(q) :
            (p \o q)[j] = IF j <= Len(p) THEN p[j] ELSE q[j - Len(p)]
  BY <1>1, <1>2, ConcatProperties
<1>5. ASSUME NEW j \in 1..Len(s) - 1
      PROVE  (p \o q)[j] = IF j < i THEN s[j] ELSE s[j + 1]
  <2>1. CASE j < i
    BY <1>1, <1>2, <1>4, <2>1
  <2>2. CASE ~(j < i)
    <3>1. j - (i - 1) \in 1..Len(s) - i /\ i + (j - (i - 1)) = j + 1
      BY <2>2
    <3>2. j \in 1..Len(p) + Len(q) /\ ~(j <= Len(p)) /\ Len(p) = i - 1
      BY <1>1, <1>2, <2>2
    <3>3. (p \o q)[j] = q[j - (i - 1)]
      BY <1>4, <3>2
    <3>4. q[j - (i - 1)] = s[i + (j - (i - 1))]
      BY <1>2, <3>1
    <3>5. QED
      BY <2>2, <3>1, <3>3, <3>4
  <2>3. QED
    BY <2>1, <2>2
<1>6. QED
  BY <1>1, <1>2, <1>3, <1>4, <1>5

----------------------------------------------------------------------------
(* Type correctness.  Resume removes the thread's own entry and decrements *)
(* _waking, so the types rest on the entry still being in _sleeping.       *)

Waiting(t) == pc[t] \in {"polling", "polled"}

\* A thread inside _get_sleep() has its own cookie, and its entry is listed.
Listed(t) ==
    LET l == entry[t].cookie[1]
    IN  /\ entry[t].cookie[2] = t
        /\ \E i \in 1..Len(sleeping[l]) : sleeping[l][i] = entry[t]

TypeInv == TypeOK /\ \A t \in Threads : Waiting(t) => Listed(t)

\* The placeholder of a thread outside both functions is an entry.
LEMMA NoEntryType == ASSUME NEW t \in Threads PROVE NoEntry(t) \in Entry
<1>1. (CHOOSE s \in Sockets : TRUE) \in Sockets
  BY LatchAssumption
<1>2. (CHOOSE l \in Latches : TRUE) \in Latches
  BY LatchAssumption
<1>3. QED
  BY <1>1, <1>2 DEF NoEntry, Entry

\* A process starts with nothing queued and nobody asleep.
LEMMA TypeInit == Init => TypeInv
<1> SUFFICES ASSUME Init PROVE TypeInv
  OBVIOUS
<1>1. entry \in [Threads -> Entry]
  BY NoEntryType DEF Init
<1>2. closed \in [Latches -> BOOLEAN] /\ waking \in [Latches -> Nat]
  BY DEF Init
<1>3. queue \in [Latches -> Seq(Items)] /\ sleeping \in [Latches -> Seq(Entry)]
  BY DEF Init
<1>4. idle \in Seq(Sockets) /\ buf \in [Sockets -> Seq(Latches \X Threads)]
  BY DEF Init
<1>5. result \in {<<>>} \cup (Threads \X (Items \cup Outcome))
  BY DEF Init
<1>6. pc \in [Threads -> {"idle", "polling", "polled", "writing"}]
  BY DEF Init
<1>7. created \subseteq Sockets /\ fresh \subseteq Items /\ taken \subseteq Items
  BY DEF Init
<1>8. interrupts \in 0..MaxInterrupts
  BY LatchAssumption DEF Init
<1>9. abandoned \in BOOLEAN
  BY DEF Init
<1>10. TypeOK
  BY <1>1, <1>2, <1>3, <1>4, <1>5, <1>6, <1>7, <1>8, <1>9 DEF TypeOK
<1>11. QED
  BY <1>10 DEF Init, TypeInv, Waiting

(* The entry a waiting thread removes is where Position says.               *)
LEMMA PositionLemma ==
    ASSUME TypeInv, NEW t \in Threads, Waiting(t)
    PROVE  LET e == entry[t]
               l == e.cookie[1]
               i == Position(e, sleeping[l])
           IN  /\ e \in Entry /\ l \in Latches /\ e.cookie[2] = t /\ e.sock \in Sockets
               /\ sleeping[l] \in Seq(Entry)
               /\ i \in 1..Len(sleeping[l]) /\ sleeping[l][i] = e
<1> DEFINE e == entry[t]
           l == e.cookie[1]
           i == Position(e, sleeping[l])
<1>1. e \in Entry
  BY DEF TypeInv, TypeOK
<1>2. l \in Latches /\ e.sock \in Sockets
  BY <1>1 DEF Entry
<1>3. sleeping[l] \in Seq(Entry)
  BY <1>2 DEF TypeInv, TypeOK
<1>4. e.cookie[2] = t /\ \E j \in 1..Len(sleeping[l]) : sleeping[l][j] = e
  BY DEF TypeInv, Listed
<1>5. DOMAIN sleeping[l] = 1..Len(sleeping[l])
  BY <1>3
<1>6. i \in 1..Len(sleeping[l]) /\ sleeping[l][i] = e
  BY <1>4, <1>5 DEF Position
<1>7. QED
  BY <1>1, <1>2, <1>3, <1>4, <1>6

\* Every action keeps the types, and every waiting thread its entry.
LEMMA TypeStep == TypeInv /\ [Next]_vars => TypeInv'
<1> SUFFICES ASSUME TypeInv, [Next]_vars PROVE TypeInv'
  OBVIOUS
<1> USE DEF shared, sockets, history
<1>0. TypeOK /\ \A u \in Threads : Waiting(u) => Listed(u)
  BY DEF TypeInv
<1>1. ASSUME NEW t \in Threads, NEW l \in Latches, GetClosed(t, l) PROVE TypeInv'
  <2>1. TypeOK'
    BY <1>0, <1>1 DEF GetClosed, TypeOK, Outcome
  <2>2. \A u \in Threads : (Waiting(u) => Listed(u))'
    BY <1>0, <1>1 DEF GetClosed, Waiting, Listed
  <2>3. QED
    BY <2>1, <2>2 DEF TypeInv
<1>2. ASSUME NEW t \in Threads, NEW l \in Latches, GetSpare(t, l) PROVE TypeInv'
  <2> DEFINE i == Len(sleeping[l]) + 1
  <2>1. i \in 1..Len(queue[l]) /\ queue[l] \in Seq(Items)
    BY <1>0, <1>2 DEF GetSpare, HasSpare, TypeOK
  <2>2. queue[l][i] \in Items /\ Pop(queue[l], i) \in Seq(Items)
    BY <2>1, RemoveAtLemma DEF Pop
  <2>3. queue' = [queue EXCEPT ![l] = Pop(queue[l], i)]
    BY <1>2 DEF GetSpare
  <2>4. queue' \in [Latches -> Seq(Items)]
    BY <1>0, <2>2, <2>3 DEF TypeOK
  <2>5. taken' \subseteq Items /\ result' \in Threads \X Items
    BY <1>0, <1>2, <2>2 DEF GetSpare, TypeOK
  <2>6. TypeOK'
    BY <1>0, <1>2, <2>4, <2>5 DEF GetSpare, TypeOK
  <2>7. \A u \in Threads : (Waiting(u) => Listed(u))'
    BY <1>0, <1>2 DEF GetSpare, Waiting, Listed
  <2>8. QED
    BY <2>6, <2>7 DEF TypeInv
<1>3. ASSUME NEW t \in Threads, NEW l \in Latches, GetNoBlock(t, l) PROVE TypeInv'
  <2>1. TypeOK'
    BY <1>0, <1>3 DEF GetNoBlock, TypeOK, Outcome
  <2>2. \A u \in Threads : (Waiting(u) => Listed(u))'
    BY <1>0, <1>3 DEF GetNoBlock, Waiting, Listed
  <2>3. QED
    BY <2>1, <2>2 DEF TypeInv
<1>4. ASSUME NEW t \in Threads, NEW l \in Latches, GetSleep(t, l) PROVE TypeInv'
  <2> DEFINE new == CHOOSE s \in Sockets : s \notin created
             e == [sock |-> IF idle # <<>> THEN idle[Len(idle)] ELSE new,
                   cookie |-> <<l, t>>]
  <2>1. e.sock \in Sockets
    <3>1. CASE idle # <<>>
      BY <1>0, <3>1 DEF TypeOK
    <3>2. CASE idle = <<>>
      <4>1. created # Sockets /\ created \subseteq Sockets
        BY <1>0, <1>4, <3>2 DEF GetSleep, TypeOK
      <4>2. \E s \in Sockets : s \notin created
        BY <4>1
      <4>3. new \in Sockets
        BY <4>2
      <4>4. QED
        BY <3>2, <4>3
    <3>3. QED
      BY <3>1, <3>2
  <2>2. e \in Entry /\ e.cookie = <<l, t>>
    BY <2>1 DEF Entry
  <2>3. /\ sleeping' = [sleeping EXCEPT ![l] = Append(sleeping[l], e)]
        /\ entry' = [entry EXCEPT ![t] = e]
        /\ pc' = [pc EXCEPT ![t] = "polling"]
        /\ pc[t] = "idle"
    BY <1>4 DEF GetSleep
  <2>4. idle' \in Seq(Sockets) /\ created' \subseteq Sockets
    <3>1. CASE idle # <<>>
      <4>1. idle' = SubSeq(idle, 1, Len(idle) - 1) /\ created' = created
        BY <1>4, <3>1 DEF GetSleep, Front
      <4>2. idle \in Seq(Sockets) /\ created \subseteq Sockets /\ Len(idle) \in 1..Len(idle)
        BY <1>0, <3>1 DEF TypeOK
      <4>3. QED
        BY <4>1, <4>2, PrefixLemma
    <3>2. CASE idle = <<>>
      <4>1. idle' = idle /\ created' = created \cup {new} /\ e.sock = new
        BY <1>4, <3>2 DEF GetSleep
      <4>2. QED
        BY <1>0, <2>1, <4>1 DEF TypeOK
    <3>3. QED
      BY <3>1, <3>2
  <2> HIDE DEF e, new
  <2>5. /\ sleeping' \in [Latches -> Seq(Entry)]
        /\ entry' \in [Threads -> Entry]
        /\ pc' \in [Threads -> {"idle", "polling", "polled", "writing"}]
    BY <1>0, <2>2, <2>3 DEF TypeOK
  <2>6. TypeOK'
    BY <1>0, <1>4, <2>4, <2>5 DEF GetSleep, TypeOK
  <2>7. ASSUME NEW u \in Threads, Waiting(u)' PROVE Listed(u)'
    <3>1. CASE u = t
      <4>1. entry'[u] = e /\ Len(sleeping'[l]) = Len(sleeping[l]) + 1
            /\ sleeping'[l][Len(sleeping[l]) + 1] = e /\ Len(sleeping[l]) \in Nat
        BY <1>0, <2>2, <2>3, <3>1 DEF TypeOK
      <4>2. QED
        BY <2>2, <3>1, <4>1 DEF Listed
    <3>2. CASE u # t
      <4>1. entry'[u] = entry[u] /\ Waiting(u)
        BY <1>0, <2>3, <2>7, <3>2 DEF Waiting, TypeOK
      <4>2. Listed(u) /\ entry[u].cookie[1] \in Latches
        BY <1>0, <4>1 DEF TypeOK, Entry
      <4>3. \A k \in Latches : \A i \in 1..Len(sleeping[k]) :
                i \in 1..Len(sleeping'[k]) /\ sleeping'[k][i] = sleeping[k][i]
        BY <1>0, <2>2, <2>3 DEF TypeOK
      <4>4. QED
        BY <4>1, <4>2, <4>3 DEF Listed
    <3>3. QED
      BY <3>1, <3>2
  <2>8. QED
    BY <2>6, <2>7 DEF TypeInv
<1>5. ASSUME NEW t \in Threads, NEW l \in Latches, Close(t, l) PROVE TypeInv'
  <2> DEFINE Targets == {sleeping[l][i] : i \in Unwoken(l)}
             cookie(s) == (CHOOSE e \in Targets : e.sock = s).cookie
  <2>1. Targets \subseteq Entry
    BY <1>0 DEF Unwoken, TypeOK
  <2>2. \A s \in Sockets : (\E e \in Targets : e.sock = s) => cookie(s) \in Latches \X Threads
    BY <2>1 DEF Entry
  <2>3. buf' = [s \in Sockets |-> IF \E e \in Targets : e.sock = s
                                 THEN Append(buf[s], cookie(s)) ELSE buf[s]]
    BY <1>5 DEF Close
  <2> HIDE DEF Targets, cookie
  <2>4. buf' \in [Sockets -> Seq(Latches \X Threads)]
    BY <1>0, <2>2, <2>3 DEF TypeOK
  <2>5. waking' \in [Latches -> Nat] /\ closed' \in [Latches -> BOOLEAN]
    BY <1>0, <1>5 DEF Close, TypeOK
  <2>6. TypeOK'
    BY <1>0, <1>5, <2>4, <2>5 DEF Close, TypeOK
  <2>7. \A u \in Threads : (Waiting(u) => Listed(u))'
    BY <1>0, <1>5 DEF Close, Waiting, Listed
  <2>8. QED
    BY <2>6, <2>7 DEF TypeInv
<1>6. ASSUME NEW t \in Threads, NEW l \in Latches, NEW x \in Items, Put(t, l, x)
      PROVE  TypeInv'
  <2>1. queue' \in [Latches -> Seq(Items)] /\ fresh' \subseteq Items
    BY <1>0, <1>6 DEF Put, TypeOK
  <2>2. /\ waking' \in [Latches -> Nat]
        /\ entry' \in [Threads -> Entry]
        /\ pc' \in [Threads -> {"idle", "polling", "polled", "writing"}]
        /\ \A u \in Threads : Waiting(u)' => Waiting(u) /\ entry'[u] = entry[u]
    <3>1. CASE SleeperToWake(l)
      <4>1. waking[l] + 1 \in 1..Len(sleeping[l]) /\ sleeping[l] \in Seq(Entry)
        BY <1>0, <3>1 DEF SleeperToWake, TypeOK
      <4>2. sleeping[l][waking[l] + 1] \in Entry
        BY <4>1
      <4>3. /\ waking' = [waking EXCEPT ![l] = waking[l] + 1]
            /\ entry' = [entry EXCEPT ![t] = sleeping[l][waking[l] + 1]]
            /\ pc' = [pc EXCEPT ![t] = "writing"]
        BY <1>6, <3>1 DEF Put
      <4>4. QED
        BY <1>0, <4>2, <4>3 DEF TypeOK, Waiting
    <3>2. CASE ~SleeperToWake(l)
      BY <1>0, <1>6, <3>2 DEF Put, TypeOK, Waiting
    <3>3. QED
      BY <3>1, <3>2
  <2>3. TypeOK'
    BY <1>0, <1>6, <2>1, <2>2 DEF Put, TypeOK
  <2>4. \A u \in Threads : (Waiting(u) => Listed(u))'
    BY <1>0, <1>6, <2>2 DEF Put, Listed
  <2>5. QED
    BY <2>3, <2>4 DEF TypeInv
<1>7. ASSUME NEW t \in Threads, PollReady(t) PROVE TypeInv'
  <2>1. pc' = [pc EXCEPT ![t] = "polled"] /\ Waiting(t)
    BY <1>7 DEF PollReady, Waiting
  <2>2. TypeOK'
    BY <1>0, <1>7, <2>1 DEF PollReady, TypeOK
  <2>3. \A u \in Threads : (Waiting(u) => Listed(u))'
    <3>1. \A u \in Threads : Waiting(u)' => Waiting(u) /\ entry'[u] = entry[u]
      BY <1>0, <1>7 DEF PollReady, Waiting, TypeOK
    <3>2. sleeping' = sleeping
      BY <1>7 DEF PollReady
    <3>3. QED
      BY <1>0, <3>1, <3>2 DEF Listed
  <2>4. QED
    BY <2>2, <2>3 DEF TypeInv
<1>8. ASSUME NEW t \in Threads, PollTimeout(t) PROVE TypeInv'
  <2>1. pc' = [pc EXCEPT ![t] = "polled"] /\ Waiting(t)
    BY <1>8 DEF PollTimeout, Waiting
  <2>2. TypeOK'
    BY <1>0, <1>8, <2>1 DEF PollTimeout, TypeOK
  <2>3. \A u \in Threads : (Waiting(u) => Listed(u))'
    <3>1. \A u \in Threads : Waiting(u)' => Waiting(u) /\ entry'[u] = entry[u]
      BY <1>0, <1>8 DEF PollTimeout, Waiting, TypeOK
    <3>2. sleeping' = sleeping
      BY <1>8 DEF PollTimeout
    <3>3. QED
      BY <1>0, <3>1, <3>2 DEF Listed
  <2>4. QED
    BY <2>2, <2>3 DEF TypeInv
<1>9. ASSUME NEW t \in Threads, PollInterrupt(t) PROVE TypeInv'
  <2>1. entry' \in [Threads -> Entry]
    BY <1>0, <1>9, NoEntryType DEF PollInterrupt, TypeOK
  <2>2. interrupts' \in 0..MaxInterrupts
    BY <1>0, <1>9, LatchAssumption DEF PollInterrupt, TypeOK
  <2>3. abandoned' \in BOOLEAN
    BY <1>9 DEF PollInterrupt
  <2>4. result' \in Threads \X Outcome
    BY <1>9 DEF PollInterrupt, Outcome
  <2>5. TypeOK'
    BY <1>0, <1>9, <2>1, <2>2, <2>3, <2>4 DEF PollInterrupt, TypeOK
  <2>6. \A u \in Threads : (Waiting(u) => Listed(u))'
    <3>1. \A u \in Threads : Waiting(u)' => Waiting(u) /\ entry'[u] = entry[u]
      BY <1>0, <1>9 DEF PollInterrupt, Waiting, TypeOK
    <3>2. sleeping' = sleeping
      BY <1>9 DEF PollInterrupt
    <3>3. QED
      BY <1>0, <3>1, <3>2 DEF Listed
  <2>7. QED
    BY <2>5, <2>6 DEF TypeInv
<1>10. ASSUME NEW t \in Threads, PutWake(t) PROVE TypeInv'
  <2>1. entry' \in [Threads -> Entry]
    BY <1>0, <1>10, NoEntryType DEF PutWake, TypeOK
  <2>2. buf' \in [Sockets -> Seq(Latches \X Threads)]
    BY <1>0, <1>10 DEF PutWake, TypeOK, Entry
  <2>3. TypeOK'
    BY <1>0, <1>10, <2>1, <2>2 DEF PutWake, TypeOK
  <2>4. \A u \in Threads : (Waiting(u) => Listed(u))'
    <3>1. \A u \in Threads : Waiting(u)' => Waiting(u) /\ entry'[u] = entry[u]
      BY <1>0, <1>10 DEF PutWake, Waiting, TypeOK
    <3>2. sleeping' = sleeping
      BY <1>10 DEF PutWake
    <3>3. QED
      BY <1>0, <3>1, <3>2 DEF Listed
  <2>5. QED
    BY <2>3, <2>4 DEF TypeInv
<1>11. ASSUME NEW t \in Threads, Resume(t) PROVE TypeInv'
  <2> DEFINE e == entry[t]
             l == e.cookie[1]
             i == Position(e, sleeping[l])
             v == Verdict(e, l, i)
  <2>1. Waiting(t) /\ pc[t] = "polled"
    BY <1>11 DEF Resume, Waiting
  <2>2. /\ e \in Entry /\ l \in Latches /\ e.cookie[2] = t /\ e.sock \in Sockets
        /\ sleeping[l] \in Seq(Entry)
        /\ i \in 1..Len(sleeping[l]) /\ sleeping[l][i] = e
    BY <2>1, PositionLemma
  <2>3. /\ sleeping' = [sleeping EXCEPT ![l] = RemoveAt(sleeping[l], i)]
        /\ buf' = [buf EXCEPT ![e.sock] = Received(buf[e.sock])]
        /\ idle' = Append(idle, e.sock)
        /\ waking' = [waking EXCEPT ![l] = IF GivesBack(v) THEN waking[l] - 1 ELSE waking[l]]
        /\ pc' = [pc EXCEPT ![t] = "idle"]
        /\ entry' = [entry EXCEPT ![t] = NoEntry(t)]
        /\ abandoned' = (abandoned \/ (v = "TimeoutError" /\ i <= waking[l]))
        /\ UNCHANGED <<closed, created, fresh, interrupts>>
    BY <1>11 DEF Resume
  <2>4. v \in {"TimeoutError", "Cookie incorrect", "No element", "LatchError",
              "IndexError", "item"}
    BY DEF Verdict
  <2>5. (GivesBack(v) => i <= waking[l]) /\ (v = "item" => i <= Len(queue[l]))
    BY <1>0, <2>2 DEF Verdict, GivesBack, TypeOK
  <2>6. /\ v = "item" => /\ queue' = [queue EXCEPT ![l] = Pop(queue[l], i)]
                         /\ taken' = taken \cup {queue[l][i]}
                         /\ result' = <<t, queue[l][i]>>
        /\ v # "item" => result' = <<t, v>> /\ queue' = queue /\ taken' = taken
    BY <1>11 DEF Resume
  <2>7. RemoveAt(sleeping[l], i) \in Seq(Entry)
    BY <2>2, RemoveAtLemma
  <2>8. sleeping' \in [Latches -> Seq(Entry)]
    BY <1>0, <2>2, <2>3, <2>7 DEF TypeOK
  <2>9. Received(buf[e.sock]) \in Seq(Latches \X Threads)
    BY <1>0, <2>2 DEF Received, TypeOK
  <2>10. queue' \in [Latches -> Seq(Items)] /\ taken' \subseteq Items
         /\ result' \in Threads \X (Items \cup Outcome)
    <3>1. CASE v = "item"
      <4>1. i \in 1..Len(queue[l]) /\ queue[l] \in Seq(Items)
        BY <1>0, <2>2, <2>5, <3>1 DEF TypeOK
      <4>2. Pop(queue[l], i) \in Seq(Items) /\ queue[l][i] \in Items
        BY <4>1, RemoveAtLemma DEF Pop
      <4>3. queue' \in [Latches -> Seq(Items)]
        BY <1>0, <2>2, <2>6, <3>1, <4>2 DEF TypeOK
      <4>4. taken' \subseteq Items /\ result' = <<t, queue[l][i]>>
        BY <1>0, <2>6, <3>1, <4>2 DEF TypeOK
      <4>5. QED
        BY <4>2, <4>3, <4>4
    <3>2. CASE v # "item"
      <4>1. v \in Outcome
        BY <2>4, <3>2 DEF Outcome
      <4>2. QED
        BY <1>0, <2>6, <3>2, <4>1 DEF TypeOK
    <3>3. QED
      BY <3>1, <3>2
  <2> HIDE DEF e, l, i, v
  <2>11. waking' \in [Latches -> Nat]
    BY <1>0, <2>2, <2>3, <2>5 DEF TypeOK
  <2>12. buf' \in [Sockets -> Seq(Latches \X Threads)] /\ idle' \in Seq(Sockets)
    BY <1>0, <2>2, <2>3, <2>9 DEF TypeOK
  <2>13. entry' \in [Threads -> Entry]
         /\ pc' \in [Threads -> {"idle", "polling", "polled", "writing"}]
    BY <1>0, <2>3, NoEntryType DEF TypeOK
  <2>14. abandoned' \in BOOLEAN
    BY <1>0, <2>3 DEF TypeOK
  <2>15. TypeOK'
    BY <1>0, <2>3, <2>8, <2>10, <2>11, <2>12, <2>13, <2>14 DEF TypeOK
  <2>16. ASSUME NEW u \in Threads, Waiting(u)' PROVE Listed(u)'
    <3>1. u # t /\ Waiting(u) /\ entry'[u] = entry[u]
      BY <1>0, <2>3, <2>16 DEF Waiting, TypeOK
    <3> DEFINE k == entry[u].cookie[1]
    <3>2. entry[u].cookie[2] = u /\ k \in Latches
      BY <1>0, <3>1 DEF Listed, TypeOK, Entry
    <3>3. PICK j \in 1..Len(sleeping[k]) : sleeping[k][j] = entry[u]
      BY <1>0, <3>1 DEF Listed
    <3>4. CASE k # l
      <4>1. sleeping'[k] = sleeping[k]
        BY <1>0, <2>2, <2>3, <3>2, <3>4 DEF TypeOK
      <4>2. QED
        BY <3>1, <3>2, <3>3, <4>1 DEF Listed
    <3>5. CASE k = l
      <4> DEFINE n == IF j < i THEN j ELSE j - 1
      <4>1. sleeping'[l] = RemoveAt(sleeping[l], i)
        BY <1>0, <2>2, <2>3 DEF TypeOK
      <4>2. j # i
        BY <2>2, <3>1, <3>2, <3>3, <3>5
      <4>3. /\ Len(RemoveAt(sleeping[l], i)) = Len(sleeping[l]) - 1
            /\ \A m \in 1..Len(sleeping[l]) - 1 : RemoveAt(sleeping[l], i)[m]
                    = IF m < i THEN sleeping[l][m] ELSE sleeping[l][m + 1]
        BY <2>2, RemoveAtLemma
      <4>4. n \in 1..Len(sleeping[l]) - 1 /\ (n < i => n = j) /\ (~(n < i) => n + 1 = j)
        BY <2>2, <3>3, <3>5, <4>2
      <4>5. sleeping'[l][n] = entry[u]
        BY <3>3, <3>5, <4>1, <4>3, <4>4
      <4>6. QED
        BY <3>1, <3>2, <3>5, <4>1, <4>3, <4>4, <4>5 DEF Listed
    <3>6. QED
      BY <3>4, <3>5
  <2>17. QED
    BY <2>15, <2>16 DEF TypeInv
<1>12. CASE UNCHANGED vars
  <2>1. TypeOK'
    BY <1>0, <1>12 DEF vars, TypeOK
  <2>2. \A u \in Threads : (Waiting(u) => Listed(u))'
    BY <1>0, <1>12 DEF vars, Waiting, Listed
  <2>3. QED
    BY <2>1, <2>2 DEF TypeInv
<1>13. QED
  BY <1>1, <1>2, <1>3, <1>4, <1>5, <1>6, <1>7, <1>8, <1>9, <1>10, <1>11, <1>12 DEF Next

(* Every variable keeps its type: in particular _waking never goes below   *)
(* zero, and _sleeping.index() always finds the thread's entry.            *)
THEOREM TypeCorrect == Spec => []TypeOK
<1>1. TypeInv => TypeOK
  BY DEF TypeInv
<1>2. QED
  BY <1>1, TypeInit, TypeStep, PTL DEF Spec

----------------------------------------------------------------------------
(* The inductive invariant.  Until a wait is abandoned:                    *)

\* Every entry of _sleeping belongs to a thread inside _get_sleep(), once.
Owned ==
    \A l \in Latches : \A i \in 1..Len(sleeping[l]) :
        LET e == sleeping[l][i]
        IN  e.cookie[1] = l /\ Waiting(e.cookie[2]) /\ entry[e.cookie[2]] = e

Distinct ==
    \A l \in Latches : \A i, j \in 1..Len(sleeping[l]) :
        sleeping[l][i] = sleeping[l][j] => i = j

\* A socketpair is idle or in use by one thread, and nothing is in it unless
\* it is in use.
OwnSocket ==
    \A t, u \in Threads : Waiting(t) /\ Waiting(u) /\ t # u => entry[t].sock # entry[u].sock

InUse ==
    \A t \in Threads : Waiting(t) =>
        entry[t].sock \in created /\ \A j \in 1..Len(idle) : idle[j] # entry[t].sock

IdleDistinct ==
    /\ \A j \in 1..Len(idle) : idle[j] \in created
    /\ \A j, k \in 1..Len(idle) : idle[j] = idle[k] => j = k

QuietSockets ==
    \A s \in Sockets :
        s \notin created \/ (\E j \in 1..Len(idle) : idle[j] = s) => buf[s] = <<>>

\* While the latch is open, the first _waking sleepers have the first _waking
\* elements, and elements beyond those exist only when nobody else sleeps;
\* once it is closed every sleeper has been woken.
Counts ==
    \A l \in Latches :
        /\ waking[l] <= Len(sleeping[l])
        /\ ~closed[l] => /\ waking[l] <= Len(queue[l])
                         /\ waking[l] < Len(sleeping[l]) => Len(queue[l]) = waking[l]
        /\ closed[l] => waking[l] = Len(sleeping[l])

\* A put() that has left the lock is about to write to a woken sleeper.
WriterTargets ==
    \A t \in Threads : pc[t] = "writing" =>
        \E l \in Latches : \E i \in 1..Len(sleeping[l]) :
            i <= waking[l] /\ sleeping[l][i] = entry[t]

\* One wake-up per woken sleeper, none for the others.
WokenOnce(e) ==
    \/ buf[e.sock] = <<e.cookie>> /\ Writers(e) = {}
    \/ buf[e.sock] = <<>> /\ \E t \in Threads : Writers(e) = {t}

WakeCounts ==
    \A l \in Latches : \A i \in 1..Len(sleeping[l]) :
        IF i <= waking[l] THEN WokenOnce(sleeping[l][i]) ELSE ~WakeUnderWay(sleeping[l][i])

WaitInv ==
    /\ Owned /\ Distinct /\ OwnSocket /\ InUse /\ IdleDistinct /\ QuietSockets
    /\ Counts /\ WriterTargets /\ WakeCounts /\ AssertionsHold

IInv == TypeInv /\ (~abandoned => WaitInv)

\* The wait queue starts in order: there is nothing in it.
LEMMA WaitInit == Init => WaitInv
<1> SUFFICES ASSUME Init PROVE WaitInv
  OBVIOUS
<1>1. \A l \in Latches : Len(sleeping[l]) = 0 /\ Len(queue[l]) = 0 /\ waking[l] = 0 /\ ~closed[l]
  BY DEF Init
<1>2. \A t \in Threads : pc[t] = "idle"
  BY DEF Init
<1>3. Len(idle) = 0 /\ \A s \in Sockets : buf[s] = <<>>
  BY DEF Init
<1>4. Owned /\ Distinct /\ Counts /\ WakeCounts
  BY <1>1 DEF Owned, Distinct, Counts, WakeCounts
<1>5. OwnSocket /\ InUse /\ WriterTargets
  BY <1>2 DEF OwnSocket, InUse, WriterTargets, Waiting
<1>6. IdleDistinct /\ QuietSockets
  BY <1>3 DEF IdleDistinct, QuietSockets
<1>7. AssertionsHold
  BY DEF Init, AssertionsHold
<1>8. QED
  BY <1>4, <1>5, <1>6, <1>7 DEF WaitInv

(* What is known of a sleeper.                                              *)
LEMMA SleeperFacts ==
    ASSUME TypeInv, WaitInv, NEW l \in Latches, NEW i \in 1..Len(sleeping[l])
    PROVE  LET e == sleeping[l][i]
               t == e.cookie[2]
           IN  /\ e \in Entry /\ e.sock \in Sockets /\ t \in Threads
               /\ e.cookie = <<l, t>> /\ Waiting(t) /\ entry[t] = e
               /\ e.sock \in created /\ \A j \in 1..Len(idle) : idle[j] # e.sock
<1> DEFINE e == sleeping[l][i]
           t == e.cookie[2]
<1>1. sleeping[l] \in Seq(Entry)
  BY DEF TypeInv, TypeOK
<1>2. e \in Entry
  BY <1>1
<1>3. e.sock \in Sockets /\ t \in Threads /\ e.cookie = <<e.cookie[1], t>>
  BY <1>2 DEF Entry
<1>4. e.cookie[1] = l /\ Waiting(t) /\ entry[t] = e
  BY DEF WaitInv, Owned
<1>5. e.sock \in created /\ \A j \in 1..Len(idle) : idle[j] # e.sock
  BY <1>3, <1>4 DEF WaitInv, InUse
<1>6. QED
  BY <1>2, <1>3, <1>4, <1>5

(* Two sleepers, of one latch or two, share neither entry nor socketpair.   *)
LEMMA SleepersDiffer ==
    ASSUME TypeInv, WaitInv, NEW l \in Latches, NEW i \in 1..Len(sleeping[l]),
           NEW k \in Latches, NEW j \in 1..Len(sleeping[k]),
           ~(l = k /\ i = j)
    PROVE  /\ sleeping[l][i] # sleeping[k][j]
           /\ sleeping[l][i].sock # sleeping[k][j].sock
           /\ sleeping[l][i].cookie[2] # sleeping[k][j].cookie[2]
<1> DEFINE e == sleeping[l][i]
           f == sleeping[k][j]
<1>1. e # f
  <2>1. e.cookie[1] = l /\ f.cookie[1] = k
    BY DEF WaitInv, Owned
  <2>2. l = k => e # f
    BY DEF WaitInv, Distinct
  <2>3. QED
    BY <2>1, <2>2
<1>2. /\ e.cookie[2] \in Threads /\ Waiting(e.cookie[2]) /\ entry[e.cookie[2]] = e
      /\ f.cookie[2] \in Threads /\ Waiting(f.cookie[2]) /\ entry[f.cookie[2]] = f
  BY SleeperFacts
<1>3. e.cookie[2] # f.cookie[2]
  BY <1>1, <1>2
<1>4. e.sock # f.sock
  BY <1>2, <1>3 DEF WaitInv, OwnSocket
<1>5. QED
  BY <1>1, <1>3, <1>4

(* Two conjuncts for the next state, with the sleeper as a constant.        *)
LEMMA OwnedNext ==
    ASSUME \A l \in Latches : \A i \in 1..Len(sleeping'[l]) : \A f, u :
                f = sleeping'[l][i] /\ u = f.cookie[2] =>
                    f.cookie[1] = l /\ Waiting(u)' /\ entry'[u] = f
    PROVE  Owned'
BY DEF Owned, Waiting

\* The same for the number of wake-ups on their way.
LEMMA WakeCountsNext ==
    ASSUME \A l \in Latches : \A i \in 1..Len(sleeping'[l]) : \A f :
                f = sleeping'[l][i] =>
                    IF i <= waking'[l] THEN WokenOnce(f)' ELSE ~WakeUnderWay(f)'
    PROVE  WakeCounts'
<1> SUFFICES ASSUME NEW l \in Latches, NEW i \in 1..Len(sleeping'[l])
             PROVE  (IF i <= waking[l] THEN WokenOnce(sleeping[l][i])
                                       ELSE ~WakeUnderWay(sleeping[l][i]))'
  BY DEF WakeCounts
<1>1. PICK f : f = sleeping'[l][i]
  OBVIOUS
<1>2. IF i <= waking'[l] THEN WokenOnce(f)' ELSE ~WakeUnderWay(f)'
  BY <1>1
<1>3. QED
  BY <1>1, <1>2 DEF WokenOnce, WakeUnderWay, Writers

(* A step that only changes the result, or where a waiting thread stands.   *)
LEMMA ResultOnlyKeeps ==
    ASSUME TypeInv, WaitInv, UNCHANGED <<shared, sockets, entry>>, AssertionsHold',
           \A t \in Threads : Waiting(t)' = Waiting(t),
           \A t \in Threads : (pc'[t] = "writing") = (pc[t] = "writing")
    PROVE  WaitInv'
<1> USE DEF shared, sockets
<1>1. Owned' /\ Distinct'
  <2>1. ASSUME NEW l \in Latches, NEW i \in 1..Len(sleeping[l])
        PROVE  LET e == sleeping[l][i]
               IN  e.cookie[1] = l /\ Waiting(e.cookie[2])' /\ entry[e.cookie[2]] = e
    <3>1. sleeping[l][i].cookie[2] \in Threads
      BY SleeperFacts
    <3>2. QED
      BY <3>1 DEF WaitInv, Owned
  <2>2. Owned'
    BY <2>1 DEF Owned
  <2>3. QED
    BY <2>2 DEF WaitInv, Distinct
<1>2. (OwnSocket /\ InUse /\ IdleDistinct /\ QuietSockets)'
  BY DEF WaitInv, OwnSocket, InUse, IdleDistinct, QuietSockets
<1>3. Counts' /\ WriterTargets'
  BY DEF WaitInv, Counts, WriterTargets
<1>4. \A e : Writers(e)' = Writers(e)
  BY DEF Writers
<1>5. WakeCounts'
  BY <1>4 DEF WaitInv, WakeCounts, WokenOnce, WakeUnderWay
<1>6. QED
  BY <1>1, <1>2, <1>3, <1>5 DEF WaitInv

\* get() on a closed latch raises LatchError.
LEMMA GetClosedKeeps ==
    ASSUME TypeInv, WaitInv, NEW t \in Threads, NEW l \in Latches, GetClosed(t, l)
    PROVE  WaitInv'
<1>1. UNCHANGED <<shared, sockets, entry>>
  BY DEF GetClosed
<1>2. AssertionsHold'
  BY DEF GetClosed, AssertionsHold, WaitInv
<1>3. /\ \A u \in Threads : Waiting(u)' = Waiting(u)
      /\ \A u \in Threads : (pc'[u] = "writing") = (pc[u] = "writing")
  BY DEF GetClosed, Waiting
<1>4. QED
  BY <1>1, <1>2, <1>3, ResultOnlyKeeps

\* get(block=False) without a spare element raises TimeoutError.
LEMMA GetNoBlockKeeps ==
    ASSUME TypeInv, WaitInv, NEW t \in Threads, NEW l \in Latches, GetNoBlock(t, l)
    PROVE  WaitInv'
<1>1. UNCHANGED <<shared, sockets, entry>>
  BY DEF GetNoBlock
<1>2. AssertionsHold'
  BY DEF GetNoBlock, AssertionsHold, WaitInv
<1>3. /\ \A u \in Threads : Waiting(u)' = Waiting(u)
      /\ \A u \in Threads : (pc'[u] = "writing") = (pc[u] = "writing")
  BY DEF GetNoBlock, Waiting
<1>4. QED
  BY <1>1, <1>2, <1>3, ResultOnlyKeeps

\* poll() returns with a readable socket.
LEMMA PollReadyKeeps ==
    ASSUME TypeInv, WaitInv, NEW t \in Threads, PollReady(t)
    PROVE  WaitInv'
<1>1. UNCHANGED <<shared, sockets, entry>>
  BY DEF PollReady
<1>2. AssertionsHold'
  BY DEF PollReady, AssertionsHold, WaitInv
<1>3. /\ \A u \in Threads : Waiting(u)' = Waiting(u)
      /\ \A u \in Threads : (pc'[u] = "writing") = (pc[u] = "writing")
  <2>1. pc \in [Threads -> {"idle", "polling", "polled", "writing"}]
    BY DEF TypeInv, TypeOK
  <2>2. pc[t] = "polling" /\ pc' = [pc EXCEPT ![t] = "polled"]
    BY DEF PollReady
  <2>3. pc'[t] = "polled" /\ \A u \in Threads \ {t} : pc'[u] = pc[u]
    BY <2>1, <2>2
  <2>4. QED
    BY <2>2, <2>3 DEF Waiting
<1>4. QED
  BY <1>1, <1>2, <1>3, ResultOnlyKeeps

\* poll() returns with nothing.
LEMMA PollTimeoutKeeps ==
    ASSUME TypeInv, WaitInv, NEW t \in Threads, PollTimeout(t)
    PROVE  WaitInv'
<1>1. UNCHANGED <<shared, sockets, entry>>
  BY DEF PollTimeout
<1>2. AssertionsHold'
  BY DEF PollTimeout, AssertionsHold, WaitInv
<1>3. /\ \A u \in Threads : Waiting(u)' = Waiting(u)
      /\ \A u \in Threads : (pc'[u] = "writing") = (pc[u] = "writing")
  <2>1. pc \in [Threads -> {"idle", "polling", "polled", "writing"}]
    BY DEF TypeInv, TypeOK
  <2>2. pc[t] = "polling" /\ pc' = [pc EXCEPT ![t] = "polled"]
    BY DEF PollTimeout
  <2>3. pc'[t] = "polled" /\ \A u \in Threads \ {t} : pc'[u] = pc[u]
    BY <2>1, <2>2
  <2>4. QED
    BY <2>2, <2>3 DEF Waiting
<1>4. QED
  BY <1>1, <1>2, <1>3, ResultOnlyKeeps

\* get(): an element beyond those assigned to sleepers is removed.
LEMMA GetSpareKeeps ==
    ASSUME TypeInv, WaitInv, NEW t \in Threads, NEW l \in Latches, GetSpare(t, l)
    PROVE  WaitInv'
<1> USE DEF sockets
<1> DEFINE i == Len(sleeping[l]) + 1
<1>1. /\ queue[l] \in Seq(Items) /\ queue \in [Latches -> Seq(Items)]
      /\ waking \in [Latches -> Nat] /\ sleeping \in [Latches -> Seq(Entry)]
  BY DEF TypeInv, TypeOK
<1>2. i \in 1..Len(queue[l])
  BY <1>1 DEF GetSpare, HasSpare
<1>3. queue[l][i] \in Items /\ result' = <<t, queue[l][i]>>
  BY <1>1, <1>2 DEF GetSpare
<1>4. AssertionsHold'
  BY <1>3, LatchAssumption DEF AssertionsHold, Outcome
<1>5. queue' = [queue EXCEPT ![l] = RemoveAt(queue[l], i)]
  BY DEF GetSpare, Pop
<1>6. Len(queue'[l]) = Len(queue[l]) - 1
  BY <1>1, <1>2, <1>5, RemoveAtLemma
<1>7. ~closed[l] /\ waking[l] = Len(sleeping[l])
  BY <1>1, <1>2 DEF GetSpare, WaitInv, Counts
<1>8. ASSUME NEW k \in Latches
      PROVE  /\ waking[k] <= Len(sleeping[k])
             /\ ~closed[k] => /\ waking[k] <= Len(queue'[k])
                              /\ waking[k] < Len(sleeping[k]) => Len(queue'[k]) = waking[k]
             /\ closed[k] => waking[k] = Len(sleeping[k])
  <2>1. CASE k = l
    BY <1>1, <1>2, <1>6, <1>7, <2>1
  <2>2. CASE k # l
    BY <1>1, <1>5, <2>2 DEF WaitInv, Counts
  <2>3. QED
    BY <2>1, <2>2
<1>9. Counts'
  BY <1>8 DEF GetSpare, Counts
<1>10. (Owned /\ Distinct /\ OwnSocket /\ InUse /\ IdleDistinct /\ QuietSockets)'
  BY DEF GetSpare, WaitInv, Owned, Distinct, OwnSocket, InUse, IdleDistinct, QuietSockets,
         Waiting
<1>11. (WriterTargets /\ WakeCounts)'
  BY DEF GetSpare, WaitInv, WriterTargets, WakeCounts, WokenOnce, WakeUnderWay, Writers
<1>12. QED
  BY <1>4, <1>9, <1>10, <1>11 DEF WaitInv

\* _wake(): the cookie moves from the thread in put() to the socketpair.
LEMMA PutWakeKeeps ==
    ASSUME TypeInv, TypeInv', WaitInv, NEW t \in Threads, PutWake(t)
    PROVE  WaitInv'
<1> USE DEF shared
<1> DEFINE e == entry[t]
<1>1. PICK l \in Latches : \E j \in 1..Len(sleeping[l]) : j <= waking[l] /\ sleeping[l][j] = e
  BY DEF PutWake, WaitInv, WriterTargets
<1>2. PICK i \in 1..Len(sleeping[l]) : i <= waking[l] /\ sleeping[l][i] = e
  BY <1>1
<1>3. /\ e.sock \in Sockets /\ e.sock \in created
      /\ \A j \in 1..Len(idle) : idle[j] # e.sock
  BY <1>2, SleeperFacts
<1>4. t \in Writers(e)
  BY DEF PutWake, Writers
<1>5. buf[e.sock] = <<>> /\ Writers(e) = {t}
  <2>1. WokenOnce(e)
    BY <1>2 DEF WaitInv, WakeCounts
  <2>2. QED
    BY <1>4, <2>1 DEF WokenOnce
<1>6. buf' = [buf EXCEPT ![e.sock] = Append(buf[e.sock], e.cookie)]
  BY DEF PutWake
<1>7. buf'[e.sock] = <<e.cookie>> /\ \A s \in Sockets \ {e.sock} : buf'[s] = buf[s]
  <2>1. Append(buf[e.sock], e.cookie) = <<e.cookie>>
    BY <1>5
  <2>2. buf \in [Sockets -> Seq(Latches \X Threads)]
    BY DEF TypeInv, TypeOK
  <2>3. QED
    BY <1>3, <1>6, <2>1, <2>2
<1>8. \A u \in Threads : /\ (pc'[u] = "writing") <=> (pc[u] = "writing" /\ u # t)
                         /\ Waiting(u)' <=> Waiting(u)
                         /\ u # t => entry'[u] = entry[u]
  BY DEF PutWake, Waiting, TypeInv, TypeOK
<1>9. ~Waiting(t)
  BY DEF PutWake, Waiting
<1>10. \A f : Writers(f)' = Writers(f) \ {t}
  BY <1>8 DEF Writers
<1>11. UNCHANGED <<sleeping, waking, queue, closed, idle, created, result>>
  BY DEF PutWake
<1>12. Owned' /\ Distinct'
  <2>1. ASSUME NEW k \in Latches, NEW j \in 1..Len(sleeping[k])
        PROVE  LET f == sleeping[k][j]
                   u == f.cookie[2]
               IN  f.cookie[1] = k /\ pc'[u] \in {"polling", "polled"} /\ entry'[u] = f
    <3>1. PICK f, u : f = sleeping[k][j] /\ u = f.cookie[2]
      OBVIOUS
    <3>2. f.cookie = <<k, u>> /\ u \in Threads /\ Waiting(u) /\ entry[u] = f
      BY <3>1, SleeperFacts
    <3>3. pc'[u] \in {"polling", "polled"} /\ entry'[u] = f
      BY <1>8, <1>9, <3>2 DEF Waiting
    <3>4. QED
      BY <3>1, <3>2, <3>3
  <2>2. Owned'
    BY <1>11, <2>1 DEF Owned, Waiting
  <2>3. QED
    BY <1>11, <2>2 DEF WaitInv, Distinct
<1>13. (OwnSocket /\ InUse /\ IdleDistinct)'
  BY <1>8, <1>9, <1>11 DEF WaitInv, OwnSocket, InUse, IdleDistinct
<1>14. QuietSockets'
  BY <1>3, <1>7, <1>11 DEF WaitInv, QuietSockets
<1>15. Counts' /\ AssertionsHold'
  BY <1>11 DEF WaitInv, Counts, AssertionsHold
<1>16. WriterTargets'
  BY <1>8, <1>11 DEF WaitInv, WriterTargets
<1>17. WakeCounts'
  <2>1. ASSUME NEW k \in Latches, NEW j \in 1..Len(sleeping[k]), NEW f, f = sleeping[k][j]
        PROVE  IF j <= waking[k] THEN WokenOnce(f)' ELSE ~WakeUnderWay(f)'
    <3>1. CASE k = l /\ j = i
      <4>1. f = e /\ j <= waking[k]
        BY <1>2, <2>1, <3>1
      <4>2. buf'[f.sock] = <<f.cookie>> /\ Writers(f)' = {}
        BY <1>5, <1>7, <1>10, <4>1
      <4>3. QED
        BY <4>1, <4>2 DEF WokenOnce
    <3>2. CASE ~(k = l /\ j = i)
      <4>1. f # e /\ f.sock # e.sock /\ f.sock \in Sockets
        BY <1>2, <2>1, <3>2, SleepersDiffer, SleeperFacts
      <4>2. buf'[f.sock] = buf[f.sock]
        BY <1>7, <4>1
      <4>3. t \notin Writers(f)
        BY <4>1 DEF Writers
      <4>4. Writers(f)' = Writers(f)
        BY <1>10, <4>3
      <4>5. IF j <= waking[k] THEN WokenOnce(f) ELSE ~WakeUnderWay(f)
        BY <2>1 DEF WaitInv, WakeCounts
      <4>6. QED
        BY <4>2, <4>4, <4>5 DEF WokenOnce, WakeUnderWay
    <3>3. QED
      BY <3>1, <3>2
  <2>2. QED
    BY <1>11, <2>1, WakeCountsNext
<1>18. QED
  BY <1>12, <1>13, <1>14, <1>15, <1>16, <1>17 DEF WaitInv

\* put(): the new element goes to nobody, or to the first sleeper not woken.
LEMMA PutKeeps ==
    ASSUME TypeInv, WaitInv, NEW t \in Threads, NEW l \in Latches, NEW x \in Items,
           Put(t, l, x)
    PROVE  WaitInv'
<1> USE DEF sockets
<1>1. /\ queue \in [Latches -> Seq(Items)] /\ waking \in [Latches -> Nat]
      /\ sleeping \in [Latches -> Seq(Entry)] /\ entry \in [Threads -> Entry]
      /\ pc \in [Threads -> {"idle", "polling", "polled", "writing"}]
  BY DEF TypeInv, TypeOK
<1>2. UNCHANGED <<sleeping, closed, idle, created, buf, result>> /\ pc[t] = "idle" /\ ~closed[l]
  BY DEF Put
<1>3. Len(queue'[l]) = Len(queue[l]) + 1 /\ \A k \in Latches \ {l} : queue'[k] = queue[k]
  BY <1>1 DEF Put
<1>4. \A u \in Threads : /\ Waiting(u)' <=> Waiting(u)
                         /\ u # t => entry'[u] = entry[u] /\ pc'[u] = pc[u]
  BY <1>1 DEF Put, Waiting
<1>5. ~Waiting(t)
  BY <1>2 DEF Waiting
<1>6. \A u \in Threads : Waiting(u) => entry'[u] = entry[u]
  BY <1>4, <1>5
<1>7. Owned' /\ Distinct'
  <2>1. ASSUME NEW k \in Latches, NEW j \in 1..Len(sleeping'[k]), NEW f, NEW u,
               f = sleeping'[k][j], u = f.cookie[2]
        PROVE  f.cookie[1] = k /\ Waiting(u)' /\ entry'[u] = f
    <3>1. f = sleeping[k][j] /\ j \in 1..Len(sleeping[k])
      BY <1>2, <2>1
    <3>2. f.cookie = <<k, u>> /\ u \in Threads /\ Waiting(u) /\ entry[u] = f
      BY <2>1, <3>1, SleeperFacts
    <3>3. QED
      BY <1>4, <1>6, <3>2
  <2>2. Owned'
    BY <2>1, OwnedNext
  <2>3. QED
    BY <1>2, <2>2 DEF WaitInv, Distinct
<1>8. (OwnSocket /\ InUse /\ IdleDistinct /\ QuietSockets)'
  BY <1>2, <1>4, <1>6 DEF WaitInv, OwnSocket, InUse, IdleDistinct, QuietSockets
<1>9. AssertionsHold'
  BY <1>2 DEF WaitInv, AssertionsHold
<1>10. CASE SleeperToWake(l)
  <2> DEFINE i == waking[l] + 1
  <2>1. i \in 1..Len(sleeping[l]) /\ ~(i <= waking[l])
    BY <1>1, <1>10 DEF SleeperToWake
  <2>2. PICK e : e = sleeping[l][i]
    OBVIOUS
  <2>3. /\ waking' = [waking EXCEPT ![l] = i]
        /\ entry' = [entry EXCEPT ![t] = e]
        /\ pc' = [pc EXCEPT ![t] = "writing"]
    BY <1>10, <2>2 DEF Put
  <2>4. /\ waking'[l] = i /\ \A k \in Latches \ {l} : waking'[k] = waking[k]
        /\ entry'[t] = e /\ pc'[t] = "writing"
    BY <1>1, <2>3
  <2>5. Counts'
    <3>1. Len(queue[l]) = waking[l]
      BY <1>2, <1>10 DEF WaitInv, Counts, SleeperToWake
    <3>2. ASSUME NEW k \in Latches
          PROVE  /\ waking'[k] <= Len(sleeping[k])
                 /\ ~closed[k] => /\ waking'[k] <= Len(queue'[k])
                                  /\ waking'[k] < Len(sleeping[k]) => Len(queue'[k]) = waking'[k]
                 /\ closed[k] => waking'[k] = Len(sleeping[k])
      <4>1. CASE k = l
        BY <1>1, <1>2, <1>3, <2>1, <2>4, <3>1, <4>1
      <4>2. CASE k # l
        BY <1>3, <2>4, <4>2 DEF WaitInv, Counts
      <4>3. QED
        BY <4>1, <4>2
    <3>3. QED
      BY <1>2, <3>2 DEF Counts
  <2>6. WriterTargets'
    <3>1. ASSUME NEW u \in Threads, pc'[u] = "writing"
          PROVE  \E k \in Latches : \E j \in 1..Len(sleeping[k]) :
                    j <= waking'[k] /\ sleeping[k][j] = entry'[u]
      <4>1. CASE u = t
        BY <1>1, <2>1, <2>2, <2>4, <4>1
      <4>2. CASE u # t
        <5>1. pc[u] = "writing" /\ entry'[u] = entry[u]
          BY <1>4, <3>1, <4>2
        <5>2. PICK k \in Latches : \E j \in 1..Len(sleeping[k]) :
                    j <= waking[k] /\ sleeping[k][j] = entry[u]
          BY <5>1 DEF WaitInv, WriterTargets
        <5>3. waking'[k] >= waking[k] /\ waking[k] \in Nat /\ waking'[k] \in Nat
          <6>1. CASE k = l
            BY <1>1, <2>4, <6>1
          <6>2. CASE k # l
            BY <1>1, <2>4, <6>2
          <6>3. QED
            BY <6>1, <6>2
        <5>4. QED
          BY <5>1, <5>2, <5>3
      <4>3. QED
        BY <4>1, <4>2
    <3>2. QED
      BY <1>2, <3>1 DEF WriterTargets
  <2>7. \A f : Writers(f)' = IF f = e THEN Writers(f) \cup {t} ELSE Writers(f)
    BY <1>2, <1>4, <2>4 DEF Writers
  <2>8. ASSUME NEW k \in Latches, NEW j \in 1..Len(sleeping'[k]), NEW f, f = sleeping'[k][j]
        PROVE  IF j <= waking'[k] THEN WokenOnce(f)' ELSE ~WakeUnderWay(f)'
    <3>1. f = sleeping[k][j] /\ j \in 1..Len(sleeping[k])
      BY <1>2, <2>8
    <3>2. IF j <= waking[k] THEN WokenOnce(f) ELSE ~WakeUnderWay(f)
      BY <3>1 DEF WaitInv, WakeCounts
    <3>3. CASE k = l /\ j = i
      <4>1. f = e /\ buf[f.sock] = <<>> /\ Writers(f) = {}
        BY <2>1, <2>2, <3>1, <3>2, <3>3 DEF WakeUnderWay
      <4>2. buf'[f.sock] = <<>> /\ Writers(f)' = {t}
        BY <1>2, <2>7, <4>1
      <4>3. WokenOnce(f)'
        BY <4>2 DEF WokenOnce
      <4>4. QED
        BY <2>1, <2>4, <3>3, <4>3
    <3>4. CASE ~(k = l /\ j = i)
      <4>1. f # e
        BY <2>1, <2>2, <3>1, <3>4, SleepersDiffer
      <4>2. buf'[f.sock] = buf[f.sock] /\ Writers(f)' = Writers(f)
        BY <1>2, <2>7, <4>1
      <4>3. (j <= waking'[k]) <=> (j <= waking[k])
        BY <1>1, <2>4, <3>1, <3>4
      <4>4. QED
        BY <3>2, <4>2, <4>3 DEF WokenOnce, WakeUnderWay
    <3>5. QED
      BY <3>3, <3>4
  <2>9. WakeCounts'
    BY <2>8, WakeCountsNext
  <2>10. QED
    BY <1>7, <1>8, <1>9, <2>5, <2>6, <2>9 DEF WaitInv
<1>11. CASE ~SleeperToWake(l)
  <2>1. UNCHANGED <<waking, entry, pc>>
    BY <1>11 DEF Put
  <2>2. ASSUME NEW k \in Latches
        PROVE  /\ waking[k] <= Len(sleeping[k])
               /\ ~closed[k] => /\ waking[k] <= Len(queue'[k])
                                /\ waking[k] < Len(sleeping[k]) => Len(queue'[k]) = waking[k]
               /\ closed[k] => waking[k] = Len(sleeping[k])
    <3>1. CASE k = l
      <4>1. waking[l] <= Len(sleeping[l]) /\ ~(waking[l] < Len(sleeping[l]))
            /\ waking[l] <= Len(queue[l])
        BY <1>2, <1>11 DEF WaitInv, Counts, SleeperToWake
      <4>2. QED
        BY <1>1, <1>2, <1>3, <3>1, <4>1
    <3>2. CASE k # l
      BY <1>3, <3>2 DEF WaitInv, Counts
    <3>3. QED
      BY <3>1, <3>2
  <2>3. Counts'
    BY <1>2, <2>1, <2>2 DEF Counts
  <2>4. (WriterTargets /\ WakeCounts)'
    BY <1>2, <2>1 DEF WaitInv, WriterTargets, WakeCounts, WokenOnce, WakeUnderWay, Writers
  <2>5. QED
    BY <1>7, <1>8, <1>9, <2>3, <2>4 DEF WaitInv
<1>12. QED
  BY <1>10, <1>11

\* close(): every sleeper not yet woken gets its cookie at once.
LEMMA CloseKeeps ==
    ASSUME TypeInv, WaitInv, NEW t \in Threads, NEW l \in Latches, Close(t, l)
    PROVE  WaitInv'
<1>1. /\ waking \in [Latches -> Nat] /\ closed \in [Latches -> BOOLEAN]
      /\ sleeping \in [Latches -> Seq(Entry)]
      /\ buf \in [Sockets -> Seq(Latches \X Threads)]
  BY DEF TypeInv, TypeOK
<1>2. UNCHANGED <<queue, sleeping, idle, created, pc, entry, result>>
  BY DEF Close
<1> DEFINE Targets == {sleeping[l][i] : i \in Unwoken(l)}
           cookie(s) == (CHOOSE e \in Targets : e.sock = s).cookie
<1>3. buf' = [s \in Sockets |-> IF \E e \in Targets : e.sock = s
                               THEN Append(buf[s], cookie(s)) ELSE buf[s]]
  BY DEF Close
<1>4. \A i : i \in Unwoken(l) <=> i \in 1..Len(sleeping[l]) /\ i > waking[l]
  BY <1>1 DEF Unwoken
<1>5. waking[l] <= Len(sleeping[l])
  BY DEF WaitInv, Counts
<1>6. waking'[l] = Len(sleeping[l]) /\ \A k \in Latches \ {l} : waking'[k] = waking[k]
  <2>1. CASE Unwoken(l) = {}
    <3>1. waking[l] = Len(sleeping[l])
      <4>1. SUFFICES ASSUME waking[l] < Len(sleeping[l]) PROVE FALSE
        BY <1>1, <1>5
      <4>2. Len(sleeping[l]) \in 1..Len(sleeping[l]) /\ Len(sleeping[l]) > waking[l]
        BY <1>1, <4>1
      <4>3. QED
        BY <1>4, <2>1, <4>2
    <3>2. QED
      BY <1>1, <2>1, <3>1 DEF Close
  <2>2. CASE Unwoken(l) # {}
    BY <1>1, <2>2 DEF Close
  <2>3. QED
    BY <2>1, <2>2
<1>7. closed'[l] = TRUE /\ \A k \in Latches \ {l} : closed'[k] = closed[k]
  BY <1>1 DEF Close
<1>8. (Owned /\ Distinct /\ OwnSocket /\ InUse /\ IdleDistinct /\ AssertionsHold)'
  <2>1. Owned' /\ Distinct'
    BY <1>2 DEF WaitInv, Owned, Distinct, Waiting
  <2>2. OwnSocket' /\ InUse' /\ IdleDistinct'
    BY <1>2 DEF WaitInv, OwnSocket, InUse, IdleDistinct, Waiting
  <2>3. AssertionsHold'
    BY <1>2 DEF WaitInv, AssertionsHold
  <2>4. QED
    BY <2>1, <2>2, <2>3
<1>9. Counts'
  <2>1. ASSUME NEW k \in Latches
        PROVE  /\ waking'[k] <= Len(sleeping[k])
               /\ ~closed'[k] => /\ waking'[k] <= Len(queue[k])
                                 /\ waking'[k] < Len(sleeping[k]) => Len(queue[k]) = waking'[k]
               /\ closed'[k] => waking'[k] = Len(sleeping[k])
    <3>1. CASE k = l
      BY <1>1, <1>6, <1>7, <3>1
    <3>2. CASE k # l
      BY <1>6, <1>7, <3>2 DEF WaitInv, Counts
    <3>3. QED
      BY <3>1, <3>2
  <2>2. QED
    BY <1>2, <2>1 DEF Counts
<1>10. WriterTargets'
  <2>1. ASSUME NEW k \in Latches
        PROVE  waking'[k] \in Nat /\ waking[k] \in Nat /\ waking'[k] >= waking[k]
    <3>1. CASE k = l
      BY <1>1, <1>5, <1>6, <3>1
    <3>2. CASE k # l
      BY <1>1, <1>6, <3>2
    <3>3. QED
      BY <3>1, <3>2
  <2>2. \A k \in Latches : \A j \in 1..Len(sleeping[k]) : j <= waking[k] => j <= waking'[k]
    BY <2>1
  <2>3. QED
    BY <1>2, <2>2 DEF WaitInv, WriterTargets
<1>11. \A e \in Targets : \E i \in 1..Len(sleeping[l]) : i > waking[l] /\ e = sleeping[l][i]
  BY <1>4
<1>12. QuietSockets'
  <2>1. ASSUME NEW e \in Targets
        PROVE  e.sock \in created /\ \A j \in 1..Len(idle) : idle[j] # e.sock
    <3>1. PICK i \in 1..Len(sleeping[l]) : e = sleeping[l][i]
      BY <1>11
    <3>2. QED
      BY <3>1, SleeperFacts
  <2>2. ASSUME NEW s \in Sockets, s \notin created \/ (\E j \in 1..Len(idle) : idle[j] = s)
        PROVE  buf'[s] = <<>>
    <3>1. ~\E e \in Targets : e.sock = s
      BY <2>1, <2>2
    <3>2. buf'[s] = buf[s]
      BY <1>3, <3>1
    <3>3. QED
      BY <2>2, <3>2 DEF WaitInv, QuietSockets
  <2>3. QED
    BY <1>2, <2>2 DEF QuietSockets
<1>13. \A f : Writers(f)' = Writers(f)
  BY <1>2 DEF Writers
<1>14. ASSUME NEW k \in Latches, NEW j \in 1..Len(sleeping'[k]), NEW f, f = sleeping'[k][j]
       PROVE  IF j <= waking'[k] THEN WokenOnce(f)' ELSE ~WakeUnderWay(f)'
  <2>1. f = sleeping[k][j] /\ j \in 1..Len(sleeping[k])
    BY <1>2, <1>14
  <2>2. IF j <= waking[k] THEN WokenOnce(f) ELSE ~WakeUnderWay(f)
    BY <2>1 DEF WaitInv, WakeCounts
  <2>3. f.sock \in Sockets
    BY <2>1, SleeperFacts
  <2>4. CASE k = l /\ j > waking[l]
    <3>1. f \in Targets
      BY <1>4, <2>1, <2>4
    <3>2. ASSUME NEW e \in Targets, e.sock = f.sock PROVE e = f
      <4>1. PICK i \in 1..Len(sleeping[l]) : e = sleeping[l][i]
        BY <1>11
      <4>2. i # j => e.sock # f.sock
        BY <2>1, <2>4, <4>1, SleepersDiffer
      <4>3. QED
        BY <2>1, <2>4, <3>2, <4>1, <4>2
    <3>3. cookie(f.sock) = f.cookie
      BY <3>1, <3>2
    <3>4. buf'[f.sock] = Append(buf[f.sock], f.cookie)
      BY <1>3, <2>3, <3>1, <3>3
    <3>5. buf[f.sock] = <<>> /\ Writers(f) = {}
      BY <1>1, <2>1, <2>2, <2>4 DEF WakeUnderWay
    <3>6. Append(buf[f.sock], f.cookie) = <<f.cookie>>
      BY <3>5
    <3>7. WokenOnce(f)'
      BY <1>13, <3>4, <3>5, <3>6 DEF WokenOnce
    <3>8. j <= waking'[k]
      BY <1>6, <2>1, <2>4
    <3>9. QED
      BY <3>7, <3>8
  <2>5. CASE ~(k = l /\ j > waking[l])
    <3>1. ASSUME NEW e \in Targets PROVE e.sock # f.sock
      <4>1. PICK i \in 1..Len(sleeping[l]) : i > waking[l] /\ e = sleeping[l][i]
        BY <1>11
      <4>2. ~(l = k /\ i = j)
        BY <2>5, <4>1
      <4>3. QED
        BY <2>1, <4>1, <4>2, SleepersDiffer
    <3>2. buf'[f.sock] = buf[f.sock]
      BY <1>3, <2>3, <3>1
    <3>3. (j <= waking'[k]) <=> (j <= waking[k])
      BY <1>1, <1>6, <2>1, <2>5
    <3>4. QED
      BY <1>13, <2>2, <3>2, <3>3 DEF WokenOnce, WakeUnderWay
  <2>6. QED
    BY <2>4, <2>5
<1>15. WakeCounts'
  BY <1>14, WakeCountsNext
<1>16. QED
  BY <1>8, <1>9, <1>10, <1>12, <1>15 DEF WaitInv

\* get(): a thread goes to sleep on a socketpair nobody else has.
LEMMA GetSleepKeeps ==
    ASSUME TypeInv, TypeInv', WaitInv, NEW t \in Threads, NEW l \in Latches, GetSleep(t, l)
    PROVE  WaitInv'
<1>1. /\ waking \in [Latches -> Nat] /\ sleeping \in [Latches -> Seq(Entry)]
      /\ queue \in [Latches -> Seq(Items)]
      /\ entry \in [Threads -> Entry] /\ idle \in Seq(Sockets) /\ created \subseteq Sockets
      /\ pc \in [Threads -> {"idle", "polling", "polled", "writing"}]
  BY DEF TypeInv, TypeOK
<1>2. UNCHANGED <<closed, queue, waking, buf, result>> /\ pc[t] = "idle" /\ ~closed[l]
  BY DEF GetSleep
<1> DEFINE new == CHOOSE s \in Sockets : s \notin created
           own == [sock |-> IF idle # <<>> THEN idle[Len(idle)] ELSE new, cookie |-> <<l, t>>]
<1> HIDE DEF own
<1>3. PICK e : e = own
  OBVIOUS
<1>4. /\ sleeping' = [sleeping EXCEPT ![l] = Append(sleeping[l], e)]
      /\ entry' = [entry EXCEPT ![t] = e]
      /\ pc' = [pc EXCEPT ![t] = "polling"]
  BY <1>3 DEF GetSleep, own
<1>5. e.cookie = <<l, t>> /\ entry'[t] = e
  BY <1>1, <1>3, <1>4 DEF own
\* The socketpair: it was not in use, and nothing is in it.
<1>6. /\ e.sock \in Sockets /\ e.sock \in created' /\ created \subseteq created'
      /\ e.sock \notin created \/ (\E j \in 1..Len(idle) : idle[j] = e.sock)
      /\ \A j \in 1..Len(idle') : j \in 1..Len(idle) /\ idle'[j] = idle[j] /\ idle'[j] # e.sock
      /\ \A s \in Sockets : (s \notin created' \/ \E j \in 1..Len(idle') : idle'[j] = s)
                        => (s \notin created \/ \E j \in 1..Len(idle) : idle[j] = s)
  <2>1. CASE idle # <<>>
    <3>1. idle' = SubSeq(idle, 1, Len(idle) - 1) /\ created' = created
      BY <1>2, <2>1 DEF GetSleep, Front
    <3>2. Len(idle) \in 1..Len(idle) /\ e.sock = idle[Len(idle)]
      BY <1>1, <1>3, <2>1 DEF own
    <3>3. Len(idle') = Len(idle) - 1 /\ \A j \in 1..Len(idle) - 1 : idle'[j] = idle[j]
      BY <1>1, <3>1, <3>2, PrefixLemma
    <3>4. \A j \in 1..Len(idle') : j \in 1..Len(idle) /\ idle'[j] = idle[j] /\ j # Len(idle)
      <4>1. Len(idle) \in Nat
        BY <1>1
      <4>2. QED
        BY <3>3, <4>1
    <3>5. \A j \in 1..Len(idle') : idle'[j] # e.sock
      BY <3>2, <3>4 DEF WaitInv, IdleDistinct
    <3>6. e.sock \in created
      BY <3>2 DEF WaitInv, IdleDistinct
    <3>7. QED
      BY <1>1, <3>1, <3>2, <3>4, <3>5, <3>6
  <2>2. CASE idle = <<>>
    <3>1. idle' = idle /\ created' = created \cup {new} /\ e.sock = new /\ created # Sockets
      BY <1>3, <2>2 DEF GetSleep, own
    <3>2. \E s \in Sockets : s \notin created
      BY <1>1, <3>1
    <3>3. e.sock \in Sockets /\ e.sock \notin created
      BY <3>1, <3>2
    <3>4. Len(idle) = 0
      BY <2>2
    <3>5. QED
      BY <3>1, <3>3, <3>4
  <2>3. QED
    BY <2>1, <2>2
<1> HIDE DEF new
<1>7. buf[e.sock] = <<>> /\ \A u \in Threads : Waiting(u) => entry[u].sock # e.sock
  BY <1>6 DEF WaitInv, QuietSockets, InUse
<1>8. \A u \in Threads : /\ Waiting(u)' <=> Waiting(u) \/ u = t
                         /\ (pc'[u] = "writing") <=> (pc[u] = "writing")
                         /\ u # t => entry'[u] = entry[u]
  BY <1>1, <1>2, <1>4 DEF Waiting
<1>9. ~Waiting(t)
  BY <1>2 DEF Waiting
<1>10. \A f : Writers(f)' = Writers(f)
  BY <1>2, <1>8 DEF Writers
\* The entries: those that were there, and the new one at the end.
<1> DEFINE n == Len(sleeping[l]) + 1
<1>11. /\ Len(sleeping'[l]) = n /\ sleeping'[l][n] = e /\ Len(sleeping[l]) \in Nat
       /\ \A j \in 1..Len(sleeping[l]) : sleeping'[l][j] = sleeping[l][j]
       /\ \A k \in Latches \ {l} : sleeping'[k] = sleeping[k]
  BY <1>1, <1>4
<1>12. ASSUME NEW k \in Latches, NEW j \in 1..Len(sleeping'[k]), NEW f, f = sleeping'[k][j]
       PROVE  \/ k = l /\ j = n /\ f = e
              \/ j \in 1..Len(sleeping[k]) /\ f = sleeping[k][j]
  <2>1. CASE k = l
    BY <1>11, <1>12, <2>1
  <2>2. CASE k # l
    BY <1>11, <1>12, <2>2
  <2>3. QED
    BY <2>1, <2>2
<1>13. ASSUME NEW k \in Latches, NEW j \in 1..Len(sleeping[k])
       PROVE  /\ j \in 1..Len(sleeping'[k]) /\ sleeping'[k][j] = sleeping[k][j]
              /\ sleeping[k][j].cookie[2] # t /\ sleeping[k][j] # e
  <2>1. j \in 1..Len(sleeping'[k]) /\ sleeping'[k][j] = sleeping[k][j]
    <3>1. CASE k = l
      BY <1>11, <3>1
    <3>2. CASE k # l
      BY <1>11, <3>2
    <3>3. QED
      BY <3>1, <3>2
  <2>2. Waiting(sleeping[k][j].cookie[2])
    BY SleeperFacts
  <2>3. QED
    BY <1>5, <1>9, <2>1, <2>2
<1> HIDE DEF n
<1>14. Owned'
  <2>1. ASSUME NEW k \in Latches, NEW j \in 1..Len(sleeping'[k]), NEW f, NEW u,
               f = sleeping'[k][j], u = f.cookie[2]
        PROVE  f.cookie[1] = k /\ Waiting(u)' /\ entry'[u] = f
    <3>1. CASE k = l /\ f = e
      BY <1>5, <1>8, <2>1, <3>1
    <3>2. CASE j \in 1..Len(sleeping[k]) /\ f = sleeping[k][j]
      <4>1. f.cookie = <<k, u>> /\ u \in Threads /\ Waiting(u) /\ entry[u] = f
        BY <2>1, <3>2, SleeperFacts
      <4>2. QED
        BY <1>8, <1>9, <4>1
    <3>3. QED
      BY <1>12, <2>1, <3>1, <3>2
  <2>2. QED
    BY <2>1, OwnedNext
<1>15. Distinct'
  <2>1. ASSUME NEW k \in Latches, NEW i \in 1..Len(sleeping'[k]), NEW j \in 1..Len(sleeping'[k]),
               sleeping'[k][i] = sleeping'[k][j]
        PROVE  i = j
    <3>1. PICK f : f = sleeping'[k][i] /\ f = sleeping'[k][j]
      BY <2>1
    <3>2. CASE f = e
      <4>1. k = l /\ i = n /\ j = n
        <5>1. ~(i \in 1..Len(sleeping[k]) /\ f = sleeping[k][i])
          BY <1>13, <3>2
        <5>2. ~(j \in 1..Len(sleeping[k]) /\ f = sleeping[k][j])
          BY <1>13, <3>2
        <5>3. QED
          BY <1>12, <3>1, <5>1, <5>2
      <4>2. QED
        BY <4>1
    <3>3. CASE f # e
      <4>1. i \in 1..Len(sleeping[k]) /\ j \in 1..Len(sleeping[k])
            /\ f = sleeping[k][i] /\ f = sleeping[k][j]
        BY <1>12, <3>1, <3>3
      <4>2. QED
        BY <4>1 DEF WaitInv, Distinct
    <3>4. QED
      BY <3>2, <3>3
  <2>2. QED
    BY <2>1 DEF Distinct
<1>16. (OwnSocket /\ InUse)'
  <2>1. ASSUME NEW u \in Threads, NEW w \in Threads, Waiting(u)', Waiting(w)', u # w
        PROVE  entry'[u].sock # entry'[w].sock
    <3>1. CASE u = t
      BY <1>5, <1>7, <1>8, <2>1, <3>1
    <3>2. CASE w = t
      BY <1>5, <1>7, <1>8, <2>1, <3>2
    <3>3. CASE u # t /\ w # t
      BY <1>8, <2>1, <3>3 DEF WaitInv, OwnSocket
    <3>4. QED
      BY <3>1, <3>2, <3>3
  <2>2. ASSUME NEW u \in Threads, Waiting(u)'
        PROVE  entry'[u].sock \in created' /\ \A j \in 1..Len(idle') : idle'[j] # entry'[u].sock
    <3>1. CASE u = t
      BY <1>5, <1>6, <3>1
    <3>2. CASE u # t
      BY <1>6, <1>8, <2>2, <3>2 DEF WaitInv, InUse
    <3>3. QED
      BY <3>1, <3>2
  <2>3. QED
    BY <2>1, <2>2 DEF OwnSocket, InUse
<1>17. IdleDistinct'
  BY <1>6 DEF WaitInv, IdleDistinct
<1>18. QuietSockets'
  BY <1>2, <1>6 DEF WaitInv, QuietSockets
<1>19. Counts'
  <2>1. ASSUME NEW k \in Latches
        PROVE  /\ waking[k] <= Len(sleeping'[k])
               /\ ~closed[k] => /\ waking[k] <= Len(queue[k])
                                /\ waking[k] < Len(sleeping'[k]) => Len(queue[k]) = waking[k]
               /\ closed[k] => waking[k] = Len(sleeping'[k])
    <3>1. CASE k = l
      <4>1. Len(queue[l]) <= Len(sleeping[l]) /\ Len(queue[l]) \in Nat /\ waking[l] \in Nat
        BY <1>1 DEF GetSleep, HasSpare
      <4>2. Len(queue[l]) = waking[l] /\ waking[l] <= Len(sleeping[l])
        BY <1>2, <1>11, <4>1 DEF WaitInv, Counts
      <4>3. QED
        BY <1>2, <1>11, <3>1, <4>1, <4>2 DEF n
    <3>2. CASE k # l
      BY <1>11, <3>2 DEF WaitInv, Counts
    <3>3. QED
      BY <3>1, <3>2
  <2>2. QED
    BY <1>2, <2>1 DEF Counts
<1>20. WriterTargets'
  <2>1. ASSUME NEW u \in Threads, pc'[u] = "writing"
        PROVE  \E k \in Latches : \E j \in 1..Len(sleeping'[k]) :
                    j <= waking[k] /\ sleeping'[k][j] = entry'[u]
    <3>1. u # t /\ pc[u] = "writing" /\ entry'[u] = entry[u]
      BY <1>2, <1>8, <2>1
    <3>2. PICK k \in Latches : \E j \in 1..Len(sleeping[k]) :
                    j <= waking[k] /\ sleeping[k][j] = entry[u]
      BY <3>1 DEF WaitInv, WriterTargets
    <3>3. QED
      BY <1>13, <3>1, <3>2
  <2>2. QED
    BY <1>2, <2>1 DEF WriterTargets
<1>21. ASSUME NEW k \in Latches, NEW j \in 1..Len(sleeping'[k]), NEW f, f = sleeping'[k][j]
       PROVE  IF j <= waking'[k] THEN WokenOnce(f)' ELSE ~WakeUnderWay(f)'
  <2>1. CASE k = l /\ j = n /\ f = e
    <3>1. waking[l] < n
      BY <1>1, <1>11 DEF WaitInv, Counts, n
    <3>2. Writers(e) = {}
      <4>1. SUFFICES ASSUME NEW u \in Threads, pc[u] = "writing", entry[u] = e PROVE FALSE
        BY DEF Writers
      <4>2. \E m \in Latches : \E i \in 1..Len(sleeping[m]) : sleeping[m][i] = e
        BY <4>1 DEF WaitInv, WriterTargets
      <4>3. QED
        BY <1>13, <4>2
    <3>3. ~WakeUnderWay(f)'
      BY <1>2, <1>7, <1>10, <2>1, <3>2 DEF WakeUnderWay
    <3>4. QED
      BY <1>1, <1>2, <1>11, <2>1, <3>1, <3>3 DEF n
  <2>2. CASE j \in 1..Len(sleeping[k]) /\ f = sleeping[k][j]
    BY <1>2, <1>10, <2>2 DEF WaitInv, WakeCounts, WokenOnce, WakeUnderWay
  <2>3. QED
    BY <1>12, <1>21, <2>1, <2>2
<1>22. WakeCounts'
  BY <1>21, WakeCountsNext
<1>23. AssertionsHold'
  BY <1>2 DEF WaitInv, AssertionsHold
<1>24. QED
  BY <1>14, <1>15, <1>16, <1>17, <1>18, <1>19, <1>20, <1>22, <1>23 DEF WaitInv

\* What _get_sleep() does after the poll: e is the thread's entry, the i-th of
\* latch l, and v what it ends with.  A thread that was woken leaves with its
\* element, or because the latch was closed; one that was not, with a timeout.
Resumes(t, e, l, i, v) ==
    /\ e \in Entry /\ l \in Latches /\ e.cookie[2] = t /\ e.sock \in Sockets
    /\ i \in 1..Len(sleeping[l]) /\ sleeping[l][i] = e /\ e = entry[t]
    /\ sleeping' = [sleeping EXCEPT ![l] = RemoveAt(sleeping[l], i)]
    /\ buf' = [buf EXCEPT ![e.sock] = Received(buf[e.sock])]
    /\ idle' = Append(idle, e.sock)
    /\ pc' = [pc EXCEPT ![t] = "idle"]
    /\ entry' = [entry EXCEPT ![t] = NoEntry(t)]
    /\ v = "item" => /\ i <= Len(queue[l])
                     /\ queue' = [queue EXCEPT ![l] = RemoveAt(queue[l], i)]
                     /\ result' = <<t, queue[l][i]>>
    /\ v # "item" => result' = <<t, v>> /\ queue' = queue
    /\ UNCHANGED <<closed, created>>
    /\ i <= waking[l] => /\ buf[e.sock] = <<e.cookie>> /\ Writers(e) = {}
                         /\ v \in {"LatchError", "item"} /\ (v = "item" <=> ~closed[l])
    /\ ~(i <= waking[l]) => buf[e.sock] = <<>> /\ Writers(e) = {} /\ v = "TimeoutError"
    /\ waking'[l] = IF i <= waking[l] THEN waking[l] - 1 ELSE waking[l]
    /\ \A k \in Latches \ {l} : waking'[k] = waking[k]
    /\ Len(sleeping'[l]) = Len(sleeping[l]) - 1
    /\ \A n \in 1..Len(sleeping[l]) - 1 :
          sleeping'[l][n] = IF n < i THEN sleeping[l][n] ELSE sleeping[l][n + 1]
    /\ \A k \in Latches \ {l} : sleeping'[k] = sleeping[k]

\* Every step of a thread after its poll, unless it abandons an element.
LEMMA ResumeOutcome ==
    ASSUME TypeInv, WaitInv, NEW t \in Threads, Resume(t), ~abandoned'
    PROVE  \E e, l, i, v : Resumes(t, e, l, i, v)
<1> DEFINE ee == entry[t]
           ll == ee.cookie[1]
           ii == Position(ee, sleeping[ll])
           vv == Verdict(ee, ll, ii)
<1>1. Waiting(t) /\ pc[t] = "polled"
  BY DEF Resume, Waiting
<1>2. /\ ee \in Entry /\ ll \in Latches /\ ee.cookie[2] = t /\ ee.sock \in Sockets
      /\ ii \in 1..Len(sleeping[ll]) /\ sleeping[ll][ii] = ee
  BY <1>1, PositionLemma
<1>3. PICK e, l, i, v : e = ee /\ l = ll /\ i = ii /\ v = vv
  OBVIOUS
<1>4. /\ sleeping' = [sleeping EXCEPT ![l] = RemoveAt(sleeping[l], i)]
      /\ buf' = [buf EXCEPT ![e.sock] = Received(buf[e.sock])]
      /\ idle' = Append(idle, e.sock)
      /\ waking' = [waking EXCEPT ![l] = IF GivesBack(v) THEN waking[l] - 1 ELSE waking[l]]
      /\ pc' = [pc EXCEPT ![t] = "idle"]
      /\ entry' = [entry EXCEPT ![t] = NoEntry(t)]
      /\ abandoned' = (abandoned \/ (v = "TimeoutError" /\ i <= waking[l]))
      /\ v = "item" => queue' = [queue EXCEPT ![l] = RemoveAt(queue[l], i)]
                       /\ result' = <<t, queue[l][i]>>
      /\ v # "item" => result' = <<t, v>> /\ queue' = queue
      /\ UNCHANGED <<closed, created>>
  BY <1>3 DEF Resume, Pop
<1>5. v = Verdict(e, l, i)
  BY <1>3
<1>6. /\ e \in Entry /\ l \in Latches /\ e.cookie[2] = t /\ e.sock \in Sockets
      /\ i \in 1..Len(sleeping[l]) /\ sleeping[l][i] = e /\ e = entry[t]
  BY <1>2, <1>3
<1> HIDE DEF ee, ll, ii, vv
<1>7. /\ waking \in [Latches -> Nat] /\ sleeping \in [Latches -> Seq(Entry)]
      /\ queue \in [Latches -> Seq(Items)] /\ closed \in [Latches -> BOOLEAN]
      /\ buf \in [Sockets -> Seq(Latches \X Threads)]
      /\ entry \in [Threads -> Entry] /\ idle \in Seq(Sockets) /\ created \subseteq Sockets
      /\ pc \in [Threads -> {"idle", "polling", "polled", "writing"}]
  BY DEF TypeInv, TypeOK
<1>8. IF i <= waking[l] THEN WokenOnce(e) ELSE ~WakeUnderWay(e)
  BY <1>6 DEF WaitInv, WakeCounts
<1>9. ~(v = "TimeoutError" /\ i <= waking[l])
  BY <1>4
<1>10. i <= waking[l] => /\ buf[e.sock] = <<e.cookie>> /\ Writers(e) = {}
                        /\ v \in {"LatchError", "item"} /\ (v = "item" <=> ~closed[l])
  <2>1. SUFFICES ASSUME i <= waking[l]
                 PROVE  /\ buf[e.sock] = <<e.cookie>> /\ Writers(e) = {}
                        /\ v \in {"LatchError", "item"} /\ (v = "item" <=> ~closed[l])
    OBVIOUS
  <2>2. buf[e.sock] # <<>>
    BY <1>5, <1>9, <2>1 DEF Verdict
  <2>3. buf[e.sock] = <<e.cookie>> /\ Writers(e) = {}
    BY <1>8, <2>1, <2>2 DEF WokenOnce
  <2>4. Head(buf[e.sock]) = e.cookie
    BY <2>3
  <2>5. ~closed[l] => i <= Len(queue[l])
    BY <1>6, <1>7, <2>1 DEF WaitInv, Counts
  <2>6. ~(i > waking[l]) /\ (~closed[l] => ~(i > Len(queue[l])))
    BY <1>6, <1>7, <2>1, <2>5
  <2>7. v \in {"LatchError", "item"} /\ (v = "item" <=> ~closed[l])
    BY <1>5, <2>2, <2>4, <2>6 DEF Verdict
  <2>8. QED
    BY <2>3, <2>7
<1>11. ~(i <= waking[l]) => buf[e.sock] = <<>> /\ Writers(e) = {} /\ v = "TimeoutError"
  BY <1>5, <1>8 DEF WakeUnderWay, Verdict
<1>12. /\ waking'[l] = IF i <= waking[l] THEN waking[l] - 1 ELSE waking[l]
       /\ \A k \in Latches \ {l} : waking'[k] = waking[k]
  BY <1>4, <1>6, <1>7, <1>10, <1>11 DEF GivesBack
<1>13. /\ Len(sleeping'[l]) = Len(sleeping[l]) - 1
       /\ \A n \in 1..Len(sleeping[l]) - 1 :
            sleeping'[l][n] = IF n < i THEN sleeping[l][n] ELSE sleeping[l][n + 1]
       /\ \A k \in Latches \ {l} : sleeping'[k] = sleeping[k]
  <2>1. sleeping[l] \in Seq(Entry) /\ sleeping'[l] = RemoveAt(sleeping[l], i)
    BY <1>4, <1>6, <1>7
  <2>2. \A k \in Latches \ {l} : sleeping'[k] = sleeping[k]
    BY <1>4, <1>7
  <2>3. PICK s : s = sleeping[l]
    OBVIOUS
  <2>4. s \in Seq(Entry) /\ i \in 1..Len(s)
    BY <1>6, <2>1, <2>3
  <2>5. /\ Len(RemoveAt(s, i)) = Len(s) - 1
        /\ \A n \in 1..Len(s) - 1 : RemoveAt(s, i)[n] = IF n < i THEN s[n] ELSE s[n + 1]
    BY <2>4, RemoveAtLemma
  <2>6. QED
    BY <2>1, <2>2, <2>3, <2>5
<1>14. v = "item" => i <= Len(queue[l])
  <2>1. v = "item" => ~(i > Len(queue[l]))
    BY <1>5 DEF Verdict
  <2>2. i \in Nat /\ Len(queue[l]) \in Nat
    BY <1>6, <1>7
  <2>3. QED
    BY <2>1, <2>2
<1>15. Resumes(t, e, l, i, v)
  BY <1>4, <1>6, <1>10, <1>11, <1>12, <1>13, <1>14 DEF Resumes
<1>16. QED
  BY <1>15

\* _get_sleep() after the poll: a sleeper leaves, and with it its element if it
\* was woken; those behind it move up by one.
LEMMA ResumeKeeps ==
    ASSUME TypeInv, TypeInv', WaitInv, NEW t \in Threads, Resume(t), ~abandoned'
    PROVE  WaitInv'
<1>1. Waiting(t) /\ pc[t] = "polled"
  BY DEF Resume, Waiting
<1>2. PICK e, l, i, v : Resumes(t, e, l, i, v)
  BY ResumeOutcome
<1>3. /\ sleeping' = [sleeping EXCEPT ![l] = RemoveAt(sleeping[l], i)]
      /\ buf' = [buf EXCEPT ![e.sock] = Received(buf[e.sock])]
      /\ idle' = Append(idle, e.sock)
      /\ pc' = [pc EXCEPT ![t] = "idle"]
      /\ entry' = [entry EXCEPT ![t] = NoEntry(t)]
      /\ v = "item" => queue' = [queue EXCEPT ![l] = RemoveAt(queue[l], i)]
                       /\ result' = <<t, queue[l][i]>>
      /\ v # "item" => result' = <<t, v>> /\ queue' = queue
      /\ UNCHANGED <<closed, created>>
  BY <1>2 DEF Resumes
<1>4. v = "item" => i <= Len(queue[l])
  BY <1>2 DEF Resumes
<1>5. /\ e \in Entry /\ l \in Latches /\ e.cookie[2] = t /\ e.sock \in Sockets
      /\ i \in 1..Len(sleeping[l]) /\ sleeping[l][i] = e /\ e = entry[t]
  BY <1>2 DEF Resumes
<1>6. /\ waking \in [Latches -> Nat] /\ sleeping \in [Latches -> Seq(Entry)]
      /\ queue \in [Latches -> Seq(Items)] /\ closed \in [Latches -> BOOLEAN]
      /\ buf \in [Sockets -> Seq(Latches \X Threads)]
      /\ entry \in [Threads -> Entry] /\ idle \in Seq(Sockets) /\ created \subseteq Sockets
      /\ pc \in [Threads -> {"idle", "polling", "polled", "writing"}]
  BY DEF TypeInv, TypeOK
<1>7. i <= waking[l] => /\ buf[e.sock] = <<e.cookie>> /\ Writers(e) = {}
                        /\ v \in {"LatchError", "item"} /\ (v = "item" <=> ~closed[l])
  BY <1>2 DEF Resumes
<1>8. ~(i <= waking[l]) => buf[e.sock] = <<>> /\ Writers(e) = {} /\ v = "TimeoutError"
  BY <1>2 DEF Resumes
<1>9. Writers(e) = {} /\ Received(buf[e.sock]) = <<>>
  <2>1. CASE i <= waking[l]
    <3>1. buf[e.sock] = <<e.cookie>> /\ Writers(e) = {}
      BY <1>7, <2>1
    <3>2. PICK b : b = buf[e.sock]
      OBVIOUS
    <3>3. Received(b) = Tail(b)
      BY <3>1, <3>2 DEF Received
    <3>4. Tail(b) = <<>>
      BY <3>1, <3>2
    <3>5. QED
      BY <3>1, <3>2, <3>3, <3>4
  <2>2. CASE ~(i <= waking[l])
    BY <1>8, <2>2 DEF Received
  <2>3. QED
    BY <2>1, <2>2
<1>10. buf'[e.sock] = <<>> /\ \A s \in Sockets \ {e.sock} : buf'[s] = buf[s]
  BY <1>3, <1>5, <1>6, <1>9
<1>11. /\ waking'[l] = IF i <= waking[l] THEN waking[l] - 1 ELSE waking[l]
       /\ \A k \in Latches \ {l} : waking'[k] = waking[k]
  BY <1>2 DEF Resumes
<1>12. \A u \in Threads : /\ Waiting(u)' <=> Waiting(u) /\ u # t
                          /\ (pc'[u] = "writing") <=> (pc[u] = "writing")
                          /\ u # t => entry'[u] = entry[u]
  BY <1>1, <1>3, <1>6 DEF Waiting
<1>13. \A f : Writers(f)' = Writers(f)
  BY <1>1, <1>12 DEF Writers
\* The entries that remain: where each one was before.
<1> DEFINE old(k, n) == IF k = l /\ n >= i THEN n + 1 ELSE n
<1>14. /\ Len(sleeping'[l]) = Len(sleeping[l]) - 1
       /\ \A n \in 1..Len(sleeping[l]) - 1 :
            sleeping'[l][n] = IF n < i THEN sleeping[l][n] ELSE sleeping[l][n + 1]
       /\ \A k \in Latches \ {l} : sleeping'[k] = sleeping[k]
  BY <1>2 DEF Resumes
<1>15. ASSUME NEW k \in Latches, NEW n \in 1..Len(sleeping'[k])
       PROVE  /\ old(k, n) \in 1..Len(sleeping[k])
              /\ sleeping'[k][n] = sleeping[k][old(k, n)]
              /\ ~(k = l /\ old(k, n) = i)
              /\ n <= waking'[k] <=> old(k, n) <= waking[k]
  <2>1. CASE k = l
    <3>1. n \in 1..Len(sleeping[l]) - 1 /\ Len(sleeping[l]) \in Nat /\ waking[l] \in Nat
      BY <1>5, <1>6, <1>14, <1>15, <2>1
    <3>2. CASE n < i
      BY <1>5, <1>11, <1>14, <2>1, <3>1, <3>2
    <3>3. CASE ~(n < i)
      BY <1>5, <1>11, <1>14, <2>1, <3>1, <3>3
    <3>4. QED
      BY <3>2, <3>3
  <2>2. CASE k # l
    BY <1>11, <1>14, <1>15, <2>2
  <2>3. QED
    BY <2>1, <2>2
<1>16. ASSUME NEW k \in Latches, NEW j \in 1..Len(sleeping[k]), ~(k = l /\ j = i)
       PROVE  \E n \in 1..Len(sleeping'[k]) : old(k, n) = j
  <2>1. CASE k = l /\ j < i
    <3>1. j \in 1..Len(sleeping'[l]) /\ old(l, j) = j
      BY <1>5, <1>6, <1>14, <2>1
    <3>2. QED
      BY <2>1, <3>1
  <2>2. CASE k = l /\ ~(j < i)
    <3>1. j - 1 \in 1..Len(sleeping'[l]) /\ old(l, j - 1) = j
      BY <1>5, <1>6, <1>14, <1>16, <2>2
    <3>2. QED
      BY <2>2, <3>1
  <2>3. CASE k # l
    BY <1>14, <2>3
  <2>4. QED
    BY <2>1, <2>2, <2>3
<1>17. ASSUME NEW k \in Latches, NEW n \in 1..Len(sleeping'[k]), NEW f, f = sleeping'[k][n]
       PROVE  /\ f = sleeping[k][old(k, n)] /\ f.sock \in Sockets /\ f.sock # e.sock
              /\ f.cookie[1] = k /\ f.cookie[2] \in Threads \ {t}
              /\ Waiting(f.cookie[2]) /\ entry[f.cookie[2]] = f
  <2>1. PICK j : j = old(k, n)
    OBVIOUS
  <2>2. j \in 1..Len(sleeping[k]) /\ f = sleeping[k][j] /\ ~(k = l /\ j = i)
    BY <1>15, <1>17, <2>1
  <2>3. /\ f.sock \in Sockets /\ f.cookie[2] \in Threads /\ f.cookie = <<k, f.cookie[2]>>
        /\ Waiting(f.cookie[2]) /\ entry[f.cookie[2]] = f
    BY <2>2, SleeperFacts
  <2>4. f.sock # e.sock /\ f.cookie[2] # t
    BY <1>5, <2>2, SleepersDiffer
  <2>5. QED
    BY <2>1, <2>2, <2>3, <2>4
<1>18. Owned'
  <2>1. ASSUME NEW k \in Latches, NEW n \in 1..Len(sleeping'[k]), NEW f, NEW u,
               f = sleeping'[k][n], u = f.cookie[2]
        PROVE  f.cookie[1] = k /\ Waiting(u)' /\ entry'[u] = f
    BY <1>12, <1>17, <2>1
  <2>2. QED
    BY <2>1, OwnedNext
<1>19. Distinct'
  <2>1. ASSUME NEW k \in Latches, NEW m \in 1..Len(sleeping'[k]), NEW n \in 1..Len(sleeping'[k]),
               sleeping'[k][m] = sleeping'[k][n]
        PROVE  m = n
    <3>1. old(k, m) = old(k, n)
      BY <1>15, <2>1 DEF WaitInv, Distinct
    <3>2. QED
      BY <1>5, <3>1
  <2>2. QED
    BY <2>1 DEF Distinct
<1>20. OwnSocket' /\ InUse'
  <2>1. Len(idle') = Len(idle) + 1 /\ idle'[Len(idle) + 1] = e.sock /\ Len(idle) \in Nat
        /\ \A j \in 1..Len(idle) : idle'[j] = idle[j]
    BY <1>3, <1>5, <1>6
  <2>2. ASSUME NEW u \in Threads, Waiting(u)'
        PROVE  entry'[u].sock \in created' /\ \A j \in 1..Len(idle') : idle'[j] # entry'[u].sock
    <3>1. u # t /\ Waiting(u) /\ entry'[u] = entry[u]
      BY <1>12, <2>2
    <3>2. entry[u].sock # e.sock
      BY <1>1, <1>5, <3>1 DEF WaitInv, OwnSocket
    <3>3. entry[u].sock \in created /\ \A j \in 1..Len(idle) : idle[j] # entry[u].sock
      BY <3>1 DEF WaitInv, InUse
    <3>4. QED
      BY <1>3, <2>1, <3>1, <3>2, <3>3
  <2>3. OwnSocket'
    BY <1>12 DEF WaitInv, OwnSocket
  <2>4. QED
    BY <2>2, <2>3 DEF InUse
<1>21. IdleDistinct' /\ QuietSockets'
  <2>1. Len(idle') = Len(idle) + 1 /\ idle'[Len(idle) + 1] = e.sock /\ Len(idle) \in Nat
        /\ \A j \in 1..Len(idle) : idle'[j] = idle[j]
    BY <1>3, <1>5, <1>6
  <2>2. e.sock \in created /\ \A j \in 1..Len(idle) : idle[j] # e.sock
    BY <1>1, <1>5 DEF WaitInv, InUse
  <2>3. \A j \in 1..Len(idle') : idle'[j] \in created'
    BY <1>3, <2>1, <2>2 DEF WaitInv, IdleDistinct
  <2>4. ASSUME NEW j \in 1..Len(idle'), NEW k \in 1..Len(idle'), idle'[j] = idle'[k]
        PROVE  j = k
    BY <2>1, <2>2, <2>4 DEF WaitInv, IdleDistinct
  <2>5. ASSUME NEW s \in Sockets, s \notin created' \/ (\E j \in 1..Len(idle') : idle'[j] = s)
        PROVE  buf'[s] = <<>>
    <3>1. CASE s = e.sock
      BY <1>10, <3>1
    <3>2. CASE s # e.sock
      <4>1. s \notin created \/ (\E j \in 1..Len(idle) : idle[j] = s)
        BY <1>3, <2>1, <2>5, <3>2
      <4>2. QED
        BY <1>10, <3>2, <4>1 DEF WaitInv, QuietSockets
    <3>3. QED
      BY <3>1, <3>2
  <2>6. QED
    BY <2>3, <2>4, <2>5 DEF IdleDistinct, QuietSockets
<1>22. Counts'
  <2>1. ASSUME NEW k \in Latches
        PROVE  /\ waking'[k] <= Len(sleeping'[k])
               /\ ~closed[k] => /\ waking'[k] <= Len(queue'[k])
                                /\ waking'[k] < Len(sleeping'[k]) => Len(queue'[k]) = waking'[k]
               /\ closed[k] => waking'[k] = Len(sleeping'[k])
    <3>1. CASE k # l
      <4>1. queue'[k] = queue[k]
        BY <1>3, <1>6, <3>1
      <4>2. QED
        BY <1>11, <1>14, <3>1, <4>1 DEF WaitInv, Counts
    <3>2. CASE k = l /\ i <= waking[l]
      <4>1. closed[l] => queue'[l] = queue[l]
        BY <1>3, <1>7, <3>2
      <4>2. ~closed[l] => Len(queue'[l]) = Len(queue[l]) - 1
        <5>1. SUFFICES ASSUME ~closed[l] PROVE Len(queue'[l]) = Len(queue[l]) - 1
          OBVIOUS
        <5>2. i \in 1..Len(queue[l]) /\ queue[l] \in Seq(Items)
          BY <1>5, <1>6, <3>2, <5>1 DEF WaitInv, Counts
        <5>3. queue'[l] = RemoveAt(queue[l], i)
          BY <1>3, <1>6, <1>5, <1>7, <3>2, <5>1
        <5>4. QED
          BY <5>2, <5>3, RemoveAtLemma
      <4>3. /\ waking[l] <= Len(sleeping[l]) /\ waking[l] \in Nat /\ Len(queue[l]) \in Nat
            /\ ~closed[l] => /\ waking[l] <= Len(queue[l])
                             /\ waking[l] < Len(sleeping[l]) => Len(queue[l]) = waking[l]
            /\ closed[l] => waking[l] = Len(sleeping[l])
        BY <1>5, <1>6 DEF WaitInv, Counts
      <4>4. waking'[l] = waking[l] - 1 /\ Len(sleeping'[l]) = Len(sleeping[l]) - 1
            /\ Len(sleeping[l]) \in Nat
        BY <1>5, <1>6, <1>11, <1>14, <3>2
      <4>5. QED
        BY <3>2, <4>1, <4>2, <4>3, <4>4
    <3>3. CASE k = l /\ ~(i <= waking[l])
      <4>1. queue' = queue
        BY <1>3, <1>8, <3>3
      <4>2. waking'[l] = waking[l] /\ Len(sleeping'[l]) = Len(sleeping[l]) - 1
            /\ Len(sleeping[l]) \in Nat /\ waking[l] \in Nat
        BY <1>5, <1>6, <1>11, <1>14, <3>3
      <4>3. waking[l] < Len(sleeping[l])
        BY <1>5, <3>3, <4>2
      <4>4. /\ ~closed[l] => /\ waking[l] <= Len(queue[l])
                             /\ waking[l] < Len(sleeping[l]) => Len(queue[l]) = waking[l]
            /\ closed[l] => waking[l] = Len(sleeping[l])
        BY <1>5 DEF WaitInv, Counts
      <4>5. ~closed[l] /\ Len(queue[l]) = waking[l]
        BY <1>5, <1>6, <4>2, <4>3, <4>4
      <4>6. QED
        BY <3>3, <4>1, <4>2, <4>3, <4>5
    <3>4. QED
      BY <3>1, <3>2, <3>3
  <2>2. QED
    BY <1>3, <2>1 DEF Counts
<1>23. WriterTargets'
  <2>1. ASSUME NEW u \in Threads, pc'[u] = "writing"
        PROVE  \E k \in Latches : \E n \in 1..Len(sleeping'[k]) :
                    n <= waking'[k] /\ sleeping'[k][n] = entry'[u]
    <3>1. u # t /\ pc[u] = "writing" /\ entry'[u] = entry[u]
      BY <1>1, <1>12, <2>1
    <3>2. PICK k \in Latches : \E j \in 1..Len(sleeping[k]) :
                    j <= waking[k] /\ sleeping[k][j] = entry[u]
      BY <3>1 DEF WaitInv, WriterTargets
    <3>3. PICK j \in 1..Len(sleeping[k]) : j <= waking[k] /\ sleeping[k][j] = entry[u]
      BY <3>2
    <3>4. entry[u] # e
      BY <1>9, <3>1 DEF Writers
    <3>5. ~(k = l /\ j = i)
      BY <1>5, <3>3, <3>4
    <3>6. PICK n \in 1..Len(sleeping'[k]) : old(k, n) = j
      BY <1>16, <3>5
    <3>7. n <= waking'[k] /\ sleeping'[k][n] = entry[u]
      BY <1>15, <3>3, <3>6
    <3>8. QED
      BY <3>1, <3>7
  <2>2. QED
    BY <2>1 DEF WriterTargets
<1>24. WakeCounts'
  <2>1. ASSUME NEW k \in Latches, NEW n \in 1..Len(sleeping'[k]), NEW f, f = sleeping'[k][n]
        PROVE  IF n <= waking'[k] THEN WokenOnce(f)' ELSE ~WakeUnderWay(f)'
    <3>1. f = sleeping[k][old(k, n)] /\ old(k, n) \in 1..Len(sleeping[k])
          /\ (n <= waking'[k] <=> old(k, n) <= waking[k])
      BY <1>15, <2>1
    <3>2. IF old(k, n) <= waking[k] THEN WokenOnce(f) ELSE ~WakeUnderWay(f)
      BY <3>1 DEF WaitInv, WakeCounts
    <3>3. buf'[f.sock] = buf[f.sock]
      BY <1>10, <1>17, <2>1
    <3>4. QED
      BY <1>13, <3>1, <3>2, <3>3 DEF WokenOnce, WakeUnderWay
  <2>2. QED
    BY <2>1, WakeCountsNext
<1>25. AssertionsHold'
  <2>1. CASE v = "item"
    <3>1. i \in 1..Len(queue[l]) /\ queue[l] \in Seq(Items)
      BY <1>4, <1>5, <1>6, <2>1
    <3>2. queue[l][i] \in Items /\ result' = <<t, queue[l][i]>>
      BY <1>3, <2>1, <3>1
    <3>3. QED
      BY <3>2, LatchAssumption DEF AssertionsHold, Outcome
  <2>2. CASE v # "item"
    <3>1. v \in {"LatchError", "TimeoutError"} /\ result' = <<t, v>>
      BY <1>3, <1>7, <1>8, <2>2
    <3>2. QED
      BY <3>1 DEF AssertionsHold
  <2>3. QED
    BY <2>1, <2>2
<1>26. QED
  BY <1>18, <1>19, <1>20, <1>21, <1>22, <1>23, <1>24, <1>25 DEF WaitInv

----------------------------------------------------------------------------
(* The inductive invariant, and what follows from it.                       *)

\* Every step of the latch, on any number of latches and threads, keeps the
\* wait queue in order until a wait is abandoned.
LEMMA WaitStep ==
    ASSUME TypeInv, TypeInv', WaitInv, [Next]_vars, ~abandoned'
    PROVE  WaitInv'
<1>1. ASSUME NEW t \in Threads, NEW l \in Latches, GetClosed(t, l) PROVE WaitInv'
  BY <1>1, GetClosedKeeps
<1>2. ASSUME NEW t \in Threads, NEW l \in Latches, GetNoBlock(t, l) PROVE WaitInv'
  BY <1>2, GetNoBlockKeeps
<1>3. ASSUME NEW t \in Threads, NEW l \in Latches, GetSpare(t, l) PROVE WaitInv'
  BY <1>3, GetSpareKeeps
<1>4. ASSUME NEW t \in Threads, NEW l \in Latches, GetSleep(t, l) PROVE WaitInv'
  BY <1>4, GetSleepKeeps
<1>5. ASSUME NEW t \in Threads, NEW l \in Latches, Close(t, l) PROVE WaitInv'
  BY <1>5, CloseKeeps
<1>6. ASSUME NEW t \in Threads, NEW l \in Latches, NEW x \in Items, Put(t, l, x) PROVE WaitInv'
  BY <1>6, PutKeeps
<1>7. ASSUME NEW t \in Threads, PollReady(t) PROVE WaitInv'
  BY <1>7, PollReadyKeeps
<1>8. ASSUME NEW t \in Threads, PollTimeout(t) PROVE WaitInv'
  BY <1>8, PollTimeoutKeeps
<1>9. ASSUME NEW t \in Threads, PollInterrupt(t) PROVE WaitInv'
  BY <1>9 DEF PollInterrupt
<1>10. ASSUME NEW t \in Threads, Resume(t) PROVE WaitInv'
  BY <1>10, ResumeKeeps
<1>11. ASSUME NEW t \in Threads, PutWake(t) PROVE WaitInv'
  BY <1>11, PutWakeKeeps
<1>12. CASE UNCHANGED vars
  <2>1. UNCHANGED <<shared, sockets, entry, pc, result>>
    BY <1>12 DEF vars
  <2>2. AssertionsHold'
    BY <2>1 DEF AssertionsHold, WaitInv
  <2>3. QED
    BY <2>1, <2>2, ResultOnlyKeeps DEF Waiting
<1>13. QED
  BY <1>1, <1>2, <1>3, <1>4, <1>5, <1>6, <1>7, <1>8, <1>9, <1>10, <1>11, <1>12 DEF Next

\* abandoned is a history variable that is never reset.
LEMMA AbandonedStays == ASSUME [Next]_vars, abandoned PROVE abandoned'
<1>1. ASSUME NEW t \in Threads, NEW l \in Latches,
             GetClosed(t, l) \/ GetSpare(t, l) \/ GetNoBlock(t, l) \/ GetSleep(t, l)
      PROVE  abandoned'
  BY <1>1 DEF GetClosed, GetSpare, GetNoBlock, GetSleep, history
<1>2. ASSUME NEW t \in Threads, NEW l \in Latches, Close(t, l) PROVE abandoned'
  BY <1>2 DEF Close, history
<1>3. ASSUME NEW t \in Threads, NEW l \in Latches, NEW x \in Items, Put(t, l, x)
      PROVE  abandoned'
  BY <1>3 DEF Put, history
<1>4. ASSUME NEW t \in Threads, PollReady(t) \/ PollTimeout(t) \/ PollInterrupt(t)
      PROVE  abandoned'
  BY <1>4 DEF PollReady, PollTimeout, PollInterrupt, history
<1>5. ASSUME NEW t \in Threads, Resume(t) PROVE abandoned'
  BY <1>5 DEF Resume, history
<1>6. ASSUME NEW t \in Threads, PutWake(t) PROVE abandoned'
  BY <1>6 DEF PutWake, history
<1>7. CASE UNCHANGED vars
  BY <1>7 DEF vars, history
<1>8. QED
  BY <1>1, <1>2, <1>3, <1>4, <1>5, <1>6, <1>7 DEF Next

\* Every step keeps the inductive invariant; once a wait was abandoned only the
\* types are claimed.
LEMMA IInvStep == IInv /\ [Next]_vars => IInv'
<1>1. SUFFICES ASSUME IInv, [Next]_vars PROVE IInv'
  OBVIOUS
<1>2. TypeInv'
  BY <1>1, TypeStep DEF IInv
<1>3. ASSUME ~abandoned' PROVE WaitInv'
  <2>1. ~abandoned
    BY <1>1, <1>3, AbandonedStays
  <2>2. QED
    BY <1>1, <1>2, <1>3, <2>1, WaitStep DEF IInv
<1>4. QED
  BY <1>2, <1>3 DEF IInv

\* The inductive invariant holds in every reachable state: the wait queue of
\* each latch is in order until a wait is abandoned.
THEOREM WaitQueueInOrder == Spec => []IInv
<1>1. Init => IInv
  BY TypeInit, WaitInit DEF IInv
<1>2. QED
  BY <1>1, IInvStep, PTL DEF Spec

\* A sleeper that nothing is about to wake is beyond the first _waking, and then
\* the queue has _waking elements only.
LEMMA NoStarvedWaiterFromInv == IInv => NoStarvedWaiter
<1>1. SUFFICES ASSUME IInv, ~abandoned, NEW l \in Latches, NEW i \in DOMAIN sleeping[l],
                      ~closed[l], ~WakeUnderWay(sleeping[l][i])
               PROVE  Len(queue[l]) < i
  BY DEF NoStarvedWaiter
<1>2. WaitInv
  BY <1>1 DEF IInv
<1>3. /\ sleeping[l] \in Seq(Entry) /\ queue[l] \in Seq(Items) /\ waking[l] \in Nat
      /\ i \in 1..Len(sleeping[l])
  BY <1>1 DEF IInv, TypeInv, TypeOK
<1>4. IF i <= waking[l] THEN WokenOnce(sleeping[l][i]) ELSE ~WakeUnderWay(sleeping[l][i])
  BY <1>2, <1>3 DEF WaitInv, WakeCounts
<1>5. WokenOnce(sleeping[l][i]) => WakeUnderWay(sleeping[l][i])
  <2>1. PICK e : e = sleeping[l][i]
    OBVIOUS
  <2>2. ASSUME buf[e.sock] = <<e.cookie>> PROVE buf[e.sock] # <<>>
    BY <2>2
  <2>3. WokenOnce(e) => WakeUnderWay(e)
    BY <2>2 DEF WokenOnce, WakeUnderWay
  <2>4. QED
    BY <2>1, <2>3
<1>6. ~(i <= waking[l])
  BY <1>1, <1>4, <1>5
<1>7. waking[l] < Len(sleeping[l]) /\ waking[l] < i
  BY <1>3, <1>6
<1>8. Len(queue[l]) = waking[l]
  BY <1>1, <1>2, <1>7 DEF WaitInv, Counts
<1>9. QED
  BY <1>7, <1>8

\* One of the conjuncts, over DOMAIN instead of 1..Len.
LEMMA OneWakeEachFromInv == IInv => OneWakeEach
<1>1. SUFFICES ASSUME IInv, ~abandoned, NEW l \in Latches, NEW i \in DOMAIN sleeping[l], NEW e,
                      e = sleeping[l][i]
               PROVE  IF i <= waking[l]
                      THEN \/ buf[e.sock] = <<e.cookie>> /\ Writers(e) = {}
                           \/ buf[e.sock] = <<>> /\ \E t \in Threads : Writers(e) = {t}
                      ELSE ~WakeUnderWay(e)
  BY DEF OneWakeEach
<1>2. WaitInv
  BY <1>1 DEF IInv
<1>3. i \in 1..Len(sleeping[l])
  BY <1>1 DEF IInv, TypeInv, TypeOK
<1>4. QED
  BY <1>1, <1>2, <1>3 DEF WaitInv, WakeCounts, WokenOnce

\* core.py:2999 and core.py:3003: the assertions of _get_sleep() hold, and the
\* queue has the element it removes, until a wait is abandoned.
THEOREM AssertionsNeverFail == Spec => []NoAssertFailure
<1>1. IInv => NoAssertFailure
  BY DEF IInv, WaitInv, NoAssertFailure
<1>2. QED
  BY <1>1, WaitQueueInOrder, PTL

\* put() and close() wake every thread that has something to return with: a
\* sleeper that nothing is about to wake has no element of the queue.
THEOREM NoWakeUpLost == Spec => []NoStarvedWaiter
  BY NoStarvedWaiterFromInv, WaitQueueInOrder, PTL

\* The _waking first sleepers have one cookie each on its way, and no thread
\* finds a cookie in a socketpair that was written for someone else.
THEOREM EachWokenOnce == Spec => []OneWakeEach
  BY OneWakeEachFromInv, WaitQueueInOrder, PTL

----------------------------------------------------------------------------
(* Conservation, whatever times out or is interrupted: an item that was    *)
(* put and not taken is in one place, and any other is in none.            *)

OnePlace ==
    \A l, m \in Latches : \A i \in 1..Len(queue[l]), j \in 1..Len(queue[m]) :
        queue[l][i] = queue[m][j] => l = m /\ i = j
QueuedIsOut == \A l \in Latches : \A i \in 1..Len(queue[l]) : queue[l][i] \notin fresh \cup taken
Placed(x) == \E l \in Latches : \E i \in 1..Len(queue[l]) : queue[l][i] = x
NoneLost == \A x \in Items \ (fresh \cup taken) : Placed(x)

ItemInv == OnePlace /\ QueuedIsOut /\ NoneLost /\ fresh \cap taken = {}

\* An element that get() removes is taken, and the others stay.
LEMMA TakeKeepsItems ==
    ASSUME TypeInv, ItemInv, NEW l \in Latches, NEW n \in 1..Len(queue[l]), NEW x, x = queue[l][n],
           queue' = [queue EXCEPT ![l] = RemoveAt(queue[l], n)],
           taken' = taken \cup {x}, fresh' = fresh
    PROVE  ItemInv'
<1>1. PICK q \in Seq(Items) : q = queue[l]
  BY DEF TypeInv, TypeOK
<1>2. PICK r : r = RemoveAt(q, n)
  OBVIOUS
<1>3. /\ r \in Seq(Items) /\ Len(r) = Len(q) - 1
      /\ \A j \in 1..Len(q) - 1 : r[j] = IF j < n THEN q[j] ELSE q[j + 1]
  BY <1>1, <1>2, RemoveAtLemma
<1>4. queue'[l] = r /\ \A m \in Latches : m # l => queue'[m] = queue[m]
  BY <1>1, <1>2 DEF TypeInv, TypeOK
<1> DEFINE From(m, i) == IF m = l /\ ~(i < n) THEN i + 1 ELSE i
<1>5. ASSUME NEW m \in Latches, NEW i \in 1..Len(queue'[m])
      PROVE  /\ From(m, i) \in 1..Len(queue[m]) /\ queue'[m][i] = queue[m][From(m, i)]
             /\ ~(m = l /\ From(m, i) = n)
  <2>1. CASE m = l
    <3>1. Len(q) \in Nat /\ i \in 1..Len(q) - 1
      BY <1>3, <1>4, <2>1
    <3> QED
      BY <1>1, <1>3, <1>4, <2>1, <3>1
  <2>2. CASE m # l
    BY <1>4, <2>2
  <2> QED
    BY <2>1, <2>2
<1>6. \A m \in Latches : Len(queue'[m]) \in Nat /\ Len(queue[m]) \in Nat
  BY <1>3, <1>4 DEF TypeInv, TypeOK
<1>7. OnePlace'
  <2> SUFFICES ASSUME NEW m \in Latches, NEW k \in Latches, NEW i \in 1..Len(queue'[m]),
                      NEW j \in 1..Len(queue'[k]), queue'[m][i] = queue'[k][j]
               PROVE  m = k /\ i = j
    BY DEF OnePlace
  <2>1. PICK a \in 1..Len(queue[m]) : a = From(m, i) /\ queue'[m][i] = queue[m][a]
    BY <1>5, SMTT(30)
  <2>2. PICK b \in 1..Len(queue[k]) : b = From(k, j) /\ queue'[k][j] = queue[k][b]
    BY <1>5, SMTT(30)
  <2>3. m = k /\ a = b
    BY <2>1, <2>2 DEF ItemInv, OnePlace
  <2> QED
    BY <1>6, <2>1, <2>2, <2>3
<1>8. QueuedIsOut'
  <2> SUFFICES ASSUME NEW m \in Latches, NEW i \in 1..Len(queue'[m])
               PROVE  queue'[m][i] \notin fresh' \cup taken'
    BY DEF QueuedIsOut
  <2>1. PICK j \in 1..Len(queue[m]) : j = From(m, i) /\ queue'[m][i] = queue[m][j] /\ ~(m = l /\ j = n)
    BY <1>5, SMTT(30)
  <2>2. queue[m][j] # x
    BY <2>1 DEF ItemInv, OnePlace
  <2> QED
    BY <2>1, <2>2 DEF ItemInv, QueuedIsOut
<1>9. NoneLost'
  <2> SUFFICES ASSUME NEW y \in Items, y \notin fresh \cup taken, y # x PROVE Placed(y)'
    BY DEF NoneLost
  <2>0. PICK m \in Latches : \E j \in 1..Len(queue[m]) : queue[m][j] = y
    BY DEF ItemInv, NoneLost, Placed
  <2>1. PICK j \in 1..Len(queue[m]) : queue[m][j] = y
    BY <2>0
  <2>2. CASE m # l
    BY <1>4, <2>1, <2>2 DEF Placed
  <2>3. CASE m = l /\ j < n
    <3>1. j \in 1..Len(q) - 1 /\ r[j] = q[j]
      BY <1>1, <1>3, <2>3
    <3> QED
      BY <1>1, <1>3, <1>4, <2>1, <2>3, <3>1 DEF Placed
  <2>4. CASE m = l /\ j > n
    <3>1. j - 1 \in 1..Len(q) - 1 /\ ~(j - 1 < n) /\ (j - 1) + 1 = j
      BY <1>1, <2>4
    <3>2. r[j - 1] = q[j]
      BY <1>3, <3>1
    <3> QED
      BY <1>1, <1>3, <1>4, <2>1, <2>4, <3>1, <3>2 DEF Placed
  <2>5. ~(m = l /\ j = n)
    BY <2>1
  <2> QED
    BY <2>2, <2>3, <2>4, <2>5
<1>10. x \notin fresh
  BY DEF ItemInv, QueuedIsOut
<1> QED
  BY <1>7, <1>8, <1>9, <1>10 DEF ItemInv

\* An item that is put is at the end of one queue.
LEMMA PutKeepsItems ==
    ASSUME TypeInv, ItemInv, NEW t \in Threads, NEW l \in Latches, NEW x \in Items, Put(t, l, x)
    PROVE  ItemInv'
<1>1. /\ x \in fresh /\ queue' = [queue EXCEPT ![l] = Append(queue[l], x)]
      /\ fresh' = fresh \ {x} /\ taken' = taken
  BY DEF Put
<1>2. PICK q \in Seq(Items) : q = queue[l]
  BY DEF TypeInv, TypeOK
<1>3. PICK r : r = Append(q, x)
  OBVIOUS
<1>4. Len(q) \in Nat /\ Len(r) = Len(q) + 1 /\ r[Len(q) + 1] = x /\ \A j \in 1..Len(q) : r[j] = q[j]
  BY <1>2, <1>3
<1>5. queue'[l] = r /\ \A m \in Latches : m # l => queue'[m] = queue[m]
  BY <1>1, <1>2, <1>3 DEF TypeInv, TypeOK
<1>6. ASSUME NEW m \in Latches, NEW i \in 1..Len(queue'[m])
      PROVE  \/ i \in 1..Len(queue[m]) /\ queue'[m][i] = queue[m][i]
             \/ m = l /\ i = Len(q) + 1 /\ queue'[m][i] = x
  BY <1>2, <1>4, <1>5
<1>7. \A m \in Latches : \A i \in 1..Len(queue[m]) : queue[m][i] # x
  BY <1>1 DEF ItemInv, QueuedIsOut
<1>8. OnePlace'
  <2> SUFFICES ASSUME NEW m \in Latches, NEW k \in Latches, NEW i \in 1..Len(queue'[m]),
                      NEW j \in 1..Len(queue'[k]), queue'[m][i] = queue'[k][j]
               PROVE  m = k /\ i = j
    BY DEF OnePlace
  <2> QED
    BY <1>6, <1>7 DEF ItemInv, OnePlace
<1>9. QueuedIsOut'
  BY <1>1, <1>6, <1>7 DEF ItemInv, QueuedIsOut
<1>10. \A y : Placed(y) => Placed(y)'
  <2> SUFFICES ASSUME NEW m \in Latches, NEW i \in 1..Len(queue[m])
               PROVE  i \in 1..Len(queue'[m]) /\ queue'[m][i] = queue[m][i]
    BY DEF Placed
  <2>1. CASE m = l
    BY <1>2, <1>4, <1>5, <2>1
  <2> QED
    BY <1>5, <2>1
<1>11. Placed(x)'
  BY <1>4, <1>5 DEF Placed
<1>12. NoneLost'
  BY <1>1, <1>10, <1>11 DEF ItemInv, NoneLost
<1> QED
  BY <1>1, <1>8, <1>9, <1>12 DEF ItemInv

\* A step of a thread after its poll removes its element, or none.
LEMMA ResumeKeepsItems ==
    ASSUME TypeInv, ItemInv, NEW t \in Threads, Resume(t) PROVE ItemInv'
<1> DEFINE ee == entry[t]
           ll == ee.cookie[1]
           ii == Position(ee, sleeping[ll])
           vv == Verdict(ee, ll, ii)
<1>1. Waiting(t)
  BY DEF Resume, Waiting
<1>2. ll \in Latches /\ ii \in 1..Len(sleeping[ll])
  BY <1>1, PositionLemma
<1>3. PICK l, i, v : l = ll /\ i = ii /\ v = vv
  OBVIOUS
<1>4. /\ fresh' = fresh
      /\ v = "item" => /\ queue' = [queue EXCEPT ![l] = RemoveAt(queue[l], i)]
                       /\ taken' = taken \cup {queue[l][i]}
      /\ v # "item" => queue' = queue /\ taken' = taken
  BY <1>3 DEF Resume, Pop
<1>5. v = "item" => ~(i > Len(queue[l]))
  BY <1>3 DEF Verdict
<1>6. l \in Latches /\ i \in 1..Len(sleeping[l]) /\ Len(queue[l]) \in Nat
  BY <1>2, <1>3 DEF TypeInv, TypeOK
<1> HIDE DEF ee, ll, ii, vv
<1>7. CASE v = "item"
  <2>1. i \in 1..Len(queue[l])
    BY <1>5, <1>6, <1>7
  <2> QED
    BY <1>4, <1>6, <1>7, <2>1, TakeKeepsItems
<1>8. CASE v # "item"
  BY <1>4, <1>8 DEF ItemInv, OnePlace, QueuedIsOut, NoneLost, Placed
<1> QED
  BY <1>7, <1>8

\* Each step keeps the items.
LEMMA ItemStep == ASSUME TypeInv, ItemInv, [Next]_vars PROVE ItemInv'
<1>1. ASSUME NEW t \in Threads, NEW l \in Latches, GetSpare(t, l) PROVE ItemInv'
  <2>1. PICK n : n = Len(sleeping[l]) + 1
    OBVIOUS
  <2>2. /\ queue' = [queue EXCEPT ![l] = RemoveAt(queue[l], n)]
        /\ taken' = taken \cup {queue[l][n]} /\ fresh' = fresh
    BY <1>1, <2>1 DEF GetSpare, Pop
  <2>3. n \in 1..Len(queue[l])
    BY <1>1, <2>1 DEF GetSpare, HasSpare, TypeInv, TypeOK
  <2> QED
    BY <2>2, <2>3, TakeKeepsItems
<1>2. ASSUME UNCHANGED <<queue, fresh, taken>> PROVE ItemInv'
  BY <1>2 DEF ItemInv, OnePlace, QueuedIsOut, NoneLost, Placed
<1>3. ASSUME NEW t \in Threads, NEW l \in Latches,
             GetClosed(t, l) \/ GetNoBlock(t, l) \/ GetSleep(t, l) \/ Close(t, l)
      PROVE  ItemInv'
  BY <1>2, <1>3 DEF GetClosed, GetNoBlock, GetSleep, Close, shared, history
<1>4. ASSUME NEW t \in Threads, PollReady(t) \/ PollTimeout(t) \/ PollInterrupt(t) \/ PutWake(t)
      PROVE  ItemInv'
  BY <1>2, <1>4 DEF PollReady, PollTimeout, PollInterrupt, PutWake, shared, history
<1>5. CASE UNCHANGED vars
  BY <1>2, <1>5 DEF vars, shared, history
<1> QED
  BY <1>1, <1>3, <1>4, <1>5, PutKeepsItems, ResumeKeepsItems DEF Next

\* Latch: for any number of latches, threads and items, no item is lost or delivered twice,
\* whichever waits time out or are interrupted.
THEOREM ItemsAreConserved == Spec => []Conservation
<1>1. Init => ItemInv
  BY DEF Init, ItemInv, OnePlace, QueuedIsOut, NoneLost, Placed
<1>2. TypeInv /\ ItemInv /\ [Next]_vars => ItemInv'
  BY ItemStep
<1>3. TypeInv /\ ItemInv => Conservation
  <2> SUFFICES ASSUME TypeInv, ItemInv, NEW x \in Items
               PROVE  Cardinality(Places(x)) = IF x \in fresh \cup taken THEN 0 ELSE 1
    BY DEF Conservation
  <2>1. \A l \in Latches : DOMAIN queue[l] = 1..Len(queue[l])
    BY DEF TypeInv, TypeOK
  <2>2. \A p \in Places(x) : \E l \in Latches : \E i \in 1..Len(queue[l]) : p = <<l, i>> /\ queue[l][i] = x
    BY <2>1 DEF Places
  <2>3. \A l \in Latches : \A i \in 1..Len(queue[l]) : queue[l][i] = x => <<l, i>> \in Places(x)
    BY <2>1 DEF Places
  <2>4. CASE x \in fresh \cup taken
    <3>1. Places(x) = {}
      BY <2>2, <2>4 DEF ItemInv, QueuedIsOut
    <3> QED
      BY <2>4, <3>1, FS_EmptySet
  <2>5. CASE x \notin fresh \cup taken
    <3>0. PICK l \in Latches : \E i \in 1..Len(queue[l]) : queue[l][i] = x
      BY <2>5 DEF ItemInv, NoneLost, Placed
    <3>1. PICK i \in 1..Len(queue[l]) : queue[l][i] = x
      BY <3>0
    <3>2. Places(x) = {<<l, i>>}
      BY <2>2, <2>3, <3>1 DEF ItemInv, OnePlace
    <3> QED
      BY <2>5, <3>2, FS_Singleton
  <2> QED
    BY <2>4, <2>5
<1> QED
  BY TypeInit, TypeStep, <1>1, <1>2, <1>3, PTL DEF Spec

----------------------------------------------------------------------------
(***************************************************************************)
(* Latch implements HandOff, for any number of latches, threads, items and *)
(* socketpairs: every step up to the one that abandons a promised item is  *)
(* a step of HandOff or changes nothing HandOff sees.  The invariant of    *)
(* the wait queue says what the mapped state is made of; one lemma per     *)
(* kind of step then finds the step of HandOff it is.                      *)
(***************************************************************************)
----------------------------------------------------------------------------
(* The mapped state, read off the wait queue.                              *)

\* The thread that sleeps at position i.
Owner(l, i) == sleeping[l][i].cookie[2]

\* A waiting thread is the owner of one position of one latch.
OwnersKnown ==
    /\ \A l \in Latches : \A i \in 1..Len(sleeping[l]) :
          Owner(l, i) \in Threads /\ Waiting(Owner(l, i))
    /\ \A k, l \in Latches : \A i \in 1..Len(sleeping[k]), j \in 1..Len(sleeping[l]) :
          Owner(k, i) = Owner(l, j) => k = l /\ i = j
    /\ \A t \in Threads : Waiting(t) =>
          \E l \in Latches : \E i \in 1..Len(sleeping[l]) : Owner(l, i) = t

\* Who stands in line: the sleepers beyond the first _waking.
LinesKnown ==
    /\ Lines \in [Latches -> Seq(Threads)]
    /\ \A l \in Latches :
          /\ Len(Lines[l]) = Len(sleeping[l]) - waking[l]
          /\ \A i \in 1..Len(Lines[l]) : Lines[l][i] = Owner(l, waking[l] + i)

\* What is spare: the elements beyond the first _waking, unless the latch is closed.
SparesKnown ==
    /\ Spares \in [Latches -> Seq(Items)]
    /\ \A l \in Latches :
          /\ closed[l] => Spares[l] = <<>>
          /\ ~closed[l] =>
                /\ Len(Spares[l]) = Len(queue[l]) - waking[l]
                /\ \A i \in 1..Len(Spares[l]) : Spares[l][i] = queue[l][waking[l] + i]

\* What the sleeper at position i was promised.
Due(l, i) ==
    IF i > waking[l] THEN <<>>
    ELSE <<[latch |-> l, value |-> IF closed[l] THEN "LatchError" ELSE queue[l][i]]>>

PromisesKnown ==
    /\ Promises = [t \in Threads |-> Promises[t]]
    /\ \A t \in Threads : ~Waiting(t) => Promises[t] = <<>>
    /\ \A l \in Latches : \A i \in 1..Len(sleeping[l]) : Promises[Owner(l, i)] = Due(l, i)

CountsKnown ==
    /\ closed \in [Latches -> BOOLEAN] /\ queue \in [Latches -> Seq(Items)]
    /\ sleeping \in [Latches -> Seq(Entry)] /\ waking \in [Latches -> Nat]
    /\ Counts

MapInv == OwnersKnown /\ LinesKnown /\ SparesKnown /\ PromisesKnown /\ CountsKnown

\* The owner of a position is waiting, and waits nowhere else.
LEMMA OwnersLemma == ASSUME TypeInv, WaitInv PROVE OwnersKnown
<1>1. ASSUME NEW l \in Latches, NEW i \in 1..Len(sleeping[l])
      PROVE  Owner(l, i) \in Threads /\ Waiting(Owner(l, i))
  BY SleeperFacts DEF Owner
<1>2. ASSUME NEW k \in Latches, NEW l \in Latches, NEW i \in 1..Len(sleeping[k]),
             NEW j \in 1..Len(sleeping[l]), Owner(k, i) = Owner(l, j)
      PROVE  k = l /\ i = j
  BY <1>2, SleepersDiffer DEF Owner
<1>3. ASSUME NEW t \in Threads, Waiting(t)
      PROVE  \E l \in Latches : \E i \in 1..Len(sleeping[l]) : Owner(l, i) = t
  BY <1>3, PositionLemma DEF Owner
<1>4. QED
  BY <1>1, <1>2, <1>3 DEF OwnersKnown

\* The line of a latch, as a sequence of threads.
LEMMA LinesLemma == ASSUME TypeInv, WaitInv PROVE LinesKnown
<1>1. ASSUME NEW l \in Latches
      PROVE  /\ LineOf(l) \in Seq(Threads)
             /\ Len(LineOf(l)) = Len(sleeping[l]) - waking[l]
             /\ \A i \in 1..Len(LineOf(l)) : LineOf(l)[i] = Owner(l, waking[l] + i)
  <2>1. waking[l] \in Nat /\ Len(sleeping[l]) \in Nat /\ waking[l] <= Len(sleeping[l])
    BY DEF WaitInv, Counts, TypeInv, TypeOK
  <2>2. \A i \in 1..Len(sleeping[l]) - waking[l] : Owner(l, waking[l] + i) \in Threads
    BY <2>1, OwnersLemma DEF OwnersKnown
  <2>3. LineOf(l) = [i \in 1..Len(sleeping[l]) - waking[l] |-> Owner(l, waking[l] + i)]
    BY DEF LineOf, Owner
  <2>4. PICK n \in Nat : n = Len(sleeping[l]) - waking[l]
    BY <2>1
  <2>5. QED
    BY <2>2, <2>3, <2>4
<1>2. QED
  BY <1>1 DEF LinesKnown, Lines

\* The spare elements of a latch.
LEMMA SparesLemma == ASSUME TypeInv, WaitInv PROVE SparesKnown
<1>1. ASSUME NEW l \in Latches
      PROVE  /\ SpareOf(l) \in Seq(Items)
             /\ closed[l] => SpareOf(l) = <<>>
             /\ ~closed[l] =>
                  /\ Len(SpareOf(l)) = Len(queue[l]) - waking[l]
                  /\ \A i \in 1..Len(SpareOf(l)) : SpareOf(l)[i] = queue[l][waking[l] + i]
  <2>1. waking[l] \in Nat /\ queue[l] \in Seq(Items) /\ closed[l] \in BOOLEAN
    BY DEF TypeInv, TypeOK
  <2>2. ~closed[l] => waking[l] <= Len(queue[l])
    BY DEF WaitInv, Counts
  <2>3. PICK q, w : q = queue[l] /\ w = waking[l]
    OBVIOUS
  <2>4. CASE closed[l]
    BY <2>4 DEF SpareOf
  <2>5. CASE ~closed[l]
    <3>1. SpareOf(l) = SubSeq(q, w + 1, Len(q))
      BY <2>3, <2>5 DEF SpareOf
    <3>2. q \in Seq(Items) /\ w \in Nat /\ w <= Len(q)
      BY <2>1, <2>2, <2>3, <2>5
    <3>3. /\ SubSeq(q, w + 1, Len(q)) \in Seq(Items)
          /\ Len(SubSeq(q, w + 1, Len(q))) = Len(q) - w
          /\ \A i \in 1..Len(q) - w : SubSeq(q, w + 1, Len(q))[i] = q[w + i]
      BY <3>2
    <3>4. QED
      BY <2>3, <2>5, <3>1, <3>3
  <2>6. QED
    BY <2>1, <2>4, <2>5
<1>2. QED
  BY <1>1 DEF SparesKnown, Spares

\* The promise of the owner of a position is what it is due.
LEMMA PromisesLemma == ASSUME TypeInv, WaitInv PROVE PromisesKnown
<1>1. \A t \in Threads : Promises[t] = PromiseOf(t)
  BY DEF Promises
<1>2. Promises = [t \in Threads |-> Promises[t]]
  BY DEF Promises
<1>3. ASSUME NEW t \in Threads, ~Waiting(t) PROVE PromiseOf(t) = <<>>
  BY <1>3 DEF PromiseOf, Waiting
<1>4. ASSUME NEW l \in Latches, NEW i \in 1..Len(sleeping[l])
      PROVE  PromiseOf(Owner(l, i)) = Due(l, i)
  <2>1. PICK u : u = Owner(l, i)
    OBVIOUS
  <2>2. u \in Threads /\ Waiting(u) /\ entry[u] = sleeping[l][i] /\ entry[u].cookie = <<l, u>>
    BY <2>1, SleeperFacts DEF Owner
  <2>3. /\ Position(entry[u], sleeping[l]) \in 1..Len(sleeping[l])
        /\ sleeping[l][Position(entry[u], sleeping[l])] = entry[u]
    BY <2>2, PositionLemma
  <2>4. Position(entry[u], sleeping[l]) = i
    BY <2>2, <2>3 DEF WaitInv, Distinct
  <2>5. entry[u].cookie[1] = l /\ pc[u] \in {"polling", "polled"}
    BY <2>2 DEF Waiting
  <2>6. QED
    BY <2>1, <2>4, <2>5 DEF PromiseOf, Due
<1>5. \A l \in Latches : \A i \in 1..Len(sleeping[l]) : Promises[Owner(l, i)] = Due(l, i)
  BY <1>1, <1>4, OwnersLemma DEF OwnersKnown
<1>6. QED
  BY <1>1, <1>2, <1>3, <1>5 DEF PromisesKnown

\* In every state in which the wait queue is in order, the mapping is known.
LEMMA MapKnown == TypeInv /\ WaitInv => MapInv
BY OwnersLemma, LinesLemma, SparesLemma, PromisesLemma
   DEF MapInv, CountsKnown, TypeInv, TypeOK, WaitInv

\* The same of the next state.
LEMMA MapKnownNext == TypeInv' /\ WaitInv' => MapInv'
BY MapKnown, PTL
----------------------------------------------------------------------------
(* Parts of the mapped state that a step leaves alone.                     *)

\* A latch whose sleepers and counter are the same has the same line.
LEMMA LineKept ==
    ASSUME NEW l \in Latches, sleeping'[l] = sleeping[l], waking'[l] = waking[l]
    PROVE  Lines'[l] = Lines[l]
BY DEF Lines, LineOf

\* A latch with the same elements and counter has the same spare elements.
LEMMA SpareKept ==
    ASSUME NEW l \in Latches, queue'[l] = queue[l], waking'[l] = waking[l],
           closed'[l] = closed[l]
    PROVE  Spares'[l] = Spares[l]
BY DEF Spares, SpareOf

\* A function of the mapped state is its values.
LEMMA MappedEqual ==
    ASSUME MapInv, MapInv'
    PROVE  /\ (\A l \in Latches : Lines'[l] = Lines[l]) => Lines' = Lines
           /\ (\A l \in Latches : Spares'[l] = Spares[l]) => Spares' = Spares
           /\ (\A t \in Threads : Promises'[t] = Promises[t]) => Promises' = Promises
           /\ (\A l \in Latches : closed'[l] = closed[l]) => OpenLatches' = OpenLatches
<1>1. Lines \in [Latches -> Seq(Threads)] /\ Lines' \in [Latches -> Seq(Threads)]
  BY DEF MapInv, LinesKnown
<1>2. Spares \in [Latches -> Seq(Items)] /\ Spares' \in [Latches -> Seq(Items)]
  BY DEF MapInv, SparesKnown
<1>3. /\ Promises = [t \in Threads |-> Promises[t]]
      /\ Promises' = [t \in Threads |-> Promises'[t]]
  BY DEF MapInv, PromisesKnown
<1>4. (\A l \in Latches : closed'[l] = closed[l]) => OpenLatches' = OpenLatches
  BY DEF OpenLatches
<1>5. (\A t \in Threads : Promises'[t] = Promises[t]) => Promises' = Promises
  <2>1. SUFFICES ASSUME \A t \in Threads : Promises'[t] = Promises[t]
                 PROVE  Promises' = Promises
    OBVIOUS
  <2>2. PICK p, q : p = Promises /\ q = Promises'
    OBVIOUS
  <2>3. p = [t \in Threads |-> p[t]] /\ q = [t \in Threads |-> q[t]]
    BY <1>3, <2>2
  <2>4. \A t \in Threads : q[t] = p[t]
    BY <2>1, <2>2
  <2>5. QED
    BY <2>2, <2>3, <2>4
<1>6. QED
  BY <1>1, <1>2, <1>4, <1>5

\* The same sleepers, who are due the same, were promised the same.
LEMMA SamePromises ==
    ASSUME MapInv, MapInv', sleeping' = sleeping,
           \A t \in Threads : Waiting(t)' <=> Waiting(t),
           \A l \in Latches : \A i \in 1..Len(sleeping[l]) : Due(l, i)' = Due(l, i)
    PROVE  Promises' = Promises
<1>1. ASSUME NEW t \in Threads, ~Waiting(t) PROVE Promises'[t] = Promises[t]
  BY <1>1 DEF MapInv, PromisesKnown
<1>2. ASSUME NEW t \in Threads, Waiting(t) PROVE Promises'[t] = Promises[t]
  <2>1. PICK l \in Latches : \E i \in 1..Len(sleeping[l]) : Owner(l, i) = t
    BY <1>2 DEF MapInv, OwnersKnown
  <2>2. PICK i \in 1..Len(sleeping[l]) : Owner(l, i) = t
    BY <2>1
  <2>3. Promises[t] = Due(l, i)
    BY <2>2 DEF MapInv, PromisesKnown
  <2>4. Owner(l, i)' = t /\ Due(l, i)' = Due(l, i)
    BY <2>2 DEF Owner
  <2>5. \A j \in 1..Len(sleeping'[l]) : Promises'[Owner(l, j)'] = Due(l, j)'
    BY DEF MapInv, PromisesKnown
  <2>6. QED
    BY <2>3, <2>4, <2>5
<1>3. QED
  BY <1>1, <1>2, MappedEqual

\* A step of the latch that moves nobody in or out of a wait.
LEMMA NobodyMoves ==
    ASSUME MapInv, MapInv', UNCHANGED shared,
           \A t \in Threads : Waiting(t)' <=> Waiting(t)
    PROVE  UNCHANGED <<OpenLatches, Spares, Lines, Promises>>
<1>1. Lines' = Lines /\ Spares' = Spares /\ OpenLatches' = OpenLatches
  BY LineKept, SpareKept, MappedEqual DEF shared
<1>2. \A l \in Latches : \A i \in 1..Len(sleeping[l]) : Due(l, i)' = Due(l, i)
  BY DEF Due, shared
<1>3. QED
  BY <1>1, <1>2, SamePromises DEF shared

\* A thread outside _get_sleep() waits for nothing in HandOff either.
LEMMA FreeThread ==
    ASSUME MapInv, NEW t \in Threads, ~Waiting(t)
    PROVE  ~HO!Waiting(t)
<1>1. Promises[t] = <<>>
  BY DEF MapInv, PromisesKnown
<1>2. ASSUME NEW l \in Latches, NEW i \in DOMAIN Lines[l] PROVE Lines[l][i] # t
  <2>1. i \in 1..Len(Lines[l]) /\ Len(Lines[l]) = Len(sleeping[l]) - waking[l]
    BY DEF MapInv, LinesKnown
  <2>2. waking[l] \in Nat /\ Len(sleeping[l]) \in Nat
    BY DEF MapInv, CountsKnown
  <2>3. waking[l] + i \in 1..Len(sleeping[l])
    BY <2>1, <2>2
  <2>4. Lines[l][i] = Owner(l, waking[l] + i)
    BY <2>1 DEF MapInv, LinesKnown
  <2>5. QED
    BY <2>3, <2>4 DEF MapInv, OwnersKnown
<1>3. QED
  BY <1>1, <1>2 DEF HO!Waiting, HO!InLine

\* get() finds no element beyond the sleepers: none is spare.
LEMMA NothingSpare ==
    ASSUME MapInv, NEW l \in Latches, ~closed[l], ~HasSpare(l)
    PROVE  Spares[l] = <<>>
<1>1. /\ queue[l] \in Seq(Items) /\ sleeping[l] \in Seq(Entry) /\ waking[l] \in Nat
      /\ waking[l] <= Len(queue[l]) /\ waking[l] <= Len(sleeping[l])
      /\ waking[l] < Len(sleeping[l]) => Len(queue[l]) = waking[l]
  BY DEF MapInv, CountsKnown, Counts
<1>2. Len(queue[l]) <= Len(sleeping[l])
  BY <1>1 DEF HasSpare
<1>3. Len(queue[l]) = waking[l]
  BY <1>1, <1>2
<1>4. Spares[l] \in Seq(Items) /\ Len(Spares[l]) = Len(queue[l]) - waking[l]
  BY DEF MapInv, SparesKnown
<1>5. QED
  BY <1>1, <1>3, <1>4

----------------------------------------------------------------------------
(* Steps that change nothing HandOff sees, and those that end a get() at   *)
(* once.                                                                   *)

\* poll() returning and the write of a cookie are invisible.
LEMMA PollAndWakeStutter ==
    ASSUME MapInv, MapInv', TypeInv, NEW t \in Threads,
           PollReady(t) \/ PollTimeout(t) \/ PutWake(t)
    PROVE  UNCHANGED HO!vars
<1>1. UNCHANGED shared /\ result' = result
  BY DEF PollReady, PollTimeout, PutWake
<1>2. \/ pc[t] = "polling" /\ pc' = [pc EXCEPT ![t] = "polled"]
      \/ pc[t] = "writing" /\ pc' = [pc EXCEPT ![t] = "idle"]
  BY DEF PollReady, PollTimeout, PutWake
<1>3. pc \in [Threads -> {"idle", "polling", "polled", "writing"}]
  BY DEF TypeInv, TypeOK
<1>4. \A u \in Threads : Waiting(u)' <=> Waiting(u)
  BY <1>2, <1>3 DEF Waiting
<1>5. QED
  BY <1>1, <1>4, NobodyMoves DEF HO!vars

\* get() on a closed latch, and get(block=False) with nothing spare.
LEMMA TurnedAwayAtOnce ==
    ASSUME MapInv, MapInv', NEW t \in Threads, NEW l \in Latches,
           GetClosed(t, l) \/ GetNoBlock(t, l)
    PROVE  HO!TurnedAway(t, l)
<1>1. UNCHANGED shared /\ UNCHANGED pc /\ pc[t] = "idle"
  BY DEF GetClosed, GetNoBlock
<1>2. \A u \in Threads : Waiting(u)' <=> Waiting(u)
  BY <1>1 DEF Waiting
<1>3. UNCHANGED <<OpenLatches, Spares, Lines, Promises>>
  BY <1>1, <1>2, NobodyMoves
<1>4. ~HO!Waiting(t)
  BY <1>1, FreeThread DEF Waiting
<1>5. CASE GetClosed(t, l)
  BY <1>3, <1>4, <1>5 DEF GetClosed, OpenLatches, HO!TurnedAway, HO!Dismissal
<1>6. CASE GetNoBlock(t, l)
  <2>1. ~closed[l] /\ ~HasSpare(l) /\ result' = <<t, "TimeoutError">>
    BY <1>6 DEF GetNoBlock
  <2>2. Spares[l] = <<>>
    BY <2>1, NothingSpare
  <2>3. QED
    BY <1>3, <1>4, <2>1, <2>2 DEF OpenLatches, HO!TurnedAway
<1>7. QED
  BY <1>5, <1>6
----------------------------------------------------------------------------
(* get(): an item at once, or a place in line.                             *)

\* The element get() returns is the oldest spare one.
LEMMA SpareTaken ==
    ASSUME MapInv, MapInv', NEW t \in Threads, NEW l \in Latches, GetSpare(t, l)
    PROVE  HO!TakeSpare(t, l)
<1>1. PICK q, w : q = queue[l] /\ w = waking[l]
  OBVIOUS
<1>2. /\ q \in Seq(Items) /\ w \in Nat /\ sleeping[l] \in Seq(Entry)
      /\ w <= Len(sleeping[l])
      /\ ~closed[l] => (w < Len(sleeping[l]) => Len(q) = w)
      /\ queue \in [Latches -> Seq(Items)]
  BY <1>1 DEF MapInv, CountsKnown, Counts
<1>3. ~closed[l] /\ Len(q) > Len(sleeping[l]) /\ pc[t] = "idle"
  BY <1>1 DEF GetSpare, HasSpare
<1>4. Len(sleeping[l]) = w /\ w + 1 \in 1..Len(q)
  BY <1>2, <1>3
<1>5. /\ result' = <<t, q[w + 1]>>
      /\ queue' = [queue EXCEPT ![l] = RemoveAt(q, w + 1)]
      /\ UNCHANGED <<closed, sleeping, waking, pc>>
  BY <1>1, <1>4 DEF GetSpare, Pop
<1>6. /\ Len(RemoveAt(q, w + 1)) = Len(q) - 1
      /\ \A j \in 1..Len(q) - 1 :
            RemoveAt(q, w + 1)[j] = IF j < w + 1 THEN q[j] ELSE q[j + 1]
  BY <1>2, <1>4, RemoveAtLemma
<1>7. queue'[l] = RemoveAt(q, w + 1) /\ \A k \in Latches \ {l} : queue'[k] = queue[k]
  BY <1>2, <1>5
<1>8. /\ Spares[l] \in Seq(Items) /\ Len(Spares[l]) = Len(q) - w
      /\ \A i \in 1..Len(q) - w : Spares[l][i] = q[w + i]
  BY <1>1, <1>3 DEF MapInv, SparesKnown
<1>9. /\ Spares'[l] \in Seq(Items) /\ Len(Spares'[l]) = Len(q) - 1 - w
      /\ \A i \in 1..Len(q) - 1 - w : Spares'[l][i] = q[w + i + 1]
  <2>1. /\ Spares'[l] \in Seq(Items) /\ Len(Spares'[l]) = Len(queue'[l]) - w
        /\ \A i \in 1..Len(queue'[l]) - w : Spares'[l][i] = queue'[l][w + i]
    BY <1>1, <1>3, <1>5 DEF MapInv, SparesKnown
  <2>2. \A i \in 1..Len(q) - 1 - w : w + i \in 1..Len(q) - 1 /\ ~(w + i < w + 1)
    BY <1>2, <1>4
  <2>3. QED
    BY <1>6, <1>7, <2>1, <2>2
<1>10. Spares[l] # <<>> /\ Head(Spares[l]) = q[w + 1] /\ Spares'[l] = Tail(Spares[l])
  <2>1. PICK a, b : a = Spares[l] /\ b = Spares'[l]
    OBVIOUS
  <2>2. a \in Seq(Items) /\ Len(a) = Len(q) - w /\ \A i \in 1..Len(q) - w : a[i] = q[w + i]
    BY <1>8, <2>1
  <2>3. /\ b \in Seq(Items) /\ Len(b) = Len(a) - 1
        /\ \A i \in 1..Len(a) - 1 : b[i] = q[w + i + 1]
    BY <1>2, <1>9, <2>1, <2>2
  <2>4. 1 <= Len(a) /\ a # <<>> /\ Head(a) = q[w + 1]
    BY <1>2, <1>4, <2>2
  <2>5. \A i \in 1..Len(a) - 1 : Tail(a)[i] = a[i + 1] /\ a[i + 1] = q[w + (i + 1)]
    BY <1>2, <2>2, <2>4
  <2>6. Tail(a) \in Seq(Items) /\ Len(Tail(a)) = Len(a) - 1
    BY <2>2, <2>4
  <2>7. b = Tail(a)
    BY <1>2, <2>3, <2>5, <2>6, SeqEqual
  <2>8. QED
    BY <2>1, <2>4, <2>7
<1>11. \A k \in Latches \ {l} : Spares'[k] = Spares[k]
  BY <1>5, <1>7, SpareKept
<1>12. Spares' = [Spares EXCEPT ![l] = Tail(Spares[l])]
  <2>1. Spares \in [Latches -> Seq(Items)] /\ Spares' \in [Latches -> Seq(Items)]
    BY DEF MapInv, SparesKnown
  <2>2. QED
    BY <1>10, <1>11, <2>1
<1>13. OpenLatches' = OpenLatches /\ Lines' = Lines
  BY <1>5, LineKept, MappedEqual
<1>14. Promises' = Promises
  <2>1. \A u \in Threads : Waiting(u)' <=> Waiting(u)
    BY <1>5 DEF Waiting
  <2>2. ASSUME NEW k \in Latches, NEW i \in 1..Len(sleeping[k])
        PROVE  Due(k, i)' = Due(k, i)
    <3>1. CASE k # l
      BY <1>5, <1>7, <3>1 DEF Due
    <3>2. CASE k = l
      <4>1. i <= w /\ i \in 1..Len(q) - 1 /\ i < w + 1
        BY <1>2, <1>4, <3>2
      <4>2. queue'[l][i] = q[i]
        BY <1>6, <1>7, <4>1
      <4>3. QED
        BY <1>1, <1>5, <3>2, <4>2 DEF Due
    <3>3. QED
      BY <3>1, <3>2
  <2>3. QED
    BY <1>5, <2>1, <2>2, SamePromises
<1>15. ~HO!Waiting(t)
  BY <1>3, FreeThread DEF Waiting
<1>16. QED
  BY <1>3, <1>5, <1>10, <1>12, <1>13, <1>14, <1>15 DEF HO!TakeSpare, OpenLatches
\* A thread that must wait stands at the end of the line.
LEMMA LineJoined ==
    ASSUME MapInv, MapInv', TypeInv, NEW t \in Threads, NEW l \in Latches, GetSleep(t, l)
    PROVE  HO!JoinLine(t, l)
<1>1. ~closed[l] /\ ~HasSpare(l) /\ pc[t] = "idle"
  BY DEF GetSleep
<1>2. PICK e : /\ sleeping' = [sleeping EXCEPT ![l] = Append(sleeping[l], e)]
               /\ e.cookie = <<l, t>>
  <2>1. entry \in [Threads -> Entry]
    BY DEF TypeInv, TypeOK
  <2>2. /\ sleeping' = [sleeping EXCEPT ![l] = Append(sleeping[l], entry'[t])]
        /\ entry'[t].cookie = <<l, t>>
    BY <2>1 DEF GetSleep
  <2>3. QED
    BY <2>2
<1>3. UNCHANGED <<closed, queue, waking, result>> /\ pc' = [pc EXCEPT ![t] = "polling"]
  BY DEF GetSleep
<1>4. PICK s, w : s = sleeping[l] /\ w = waking[l]
  OBVIOUS
<1>5. /\ sleeping \in [Latches -> Seq(Entry)] /\ sleeping' \in [Latches -> Seq(Entry)]
      /\ s \in Seq(Entry) /\ w \in Nat /\ w <= Len(s)
  BY <1>4 DEF MapInv, CountsKnown, Counts
<1>6. sleeping'[l] = Append(s, e) /\ \A k \in Latches \ {l} : sleeping'[k] = sleeping[k]
  BY <1>2, <1>4, <1>5
<1>7. Append(s, e) \in Seq(Entry)
  BY <1>5, <1>6
<1>8. /\ Len(Append(s, e)) = Len(s) + 1 /\ Append(s, e)[Len(s) + 1] = e
      /\ \A i \in 1..Len(s) : Append(s, e)[i] = s[i]
  BY <1>5, <1>7
<1>9. /\ Owner(l, Len(s) + 1)' = t
      /\ \A k \in Latches : \A i \in 1..Len(sleeping[k]) : Owner(k, i)' = Owner(k, i)
  BY <1>2, <1>4, <1>6, <1>8 DEF Owner
<1>10. Lines' = [Lines EXCEPT ![l] = Append(Lines[l], t)]
  <2>1. Lines \in [Latches -> Seq(Threads)] /\ Lines' \in [Latches -> Seq(Threads)]
    BY DEF MapInv, LinesKnown
  <2>2. PICK a, b : a = Lines[l] /\ b = Lines'[l]
    OBVIOUS
  <2>3. /\ a \in Seq(Threads) /\ Len(a) = Len(s) - w
        /\ \A i \in 1..Len(a) : a[i] = Owner(l, w + i)
    BY <1>4, <2>1, <2>2 DEF MapInv, LinesKnown
  <2>4. /\ b \in Seq(Threads) /\ Len(b) = Len(s) + 1 - w
        /\ \A i \in 1..Len(b) : b[i] = sleeping'[l][w + i].cookie[2]
    <3>1. b \in Seq(Threads) /\ Len(b) = Len(sleeping'[l]) - waking'[l]
      BY <2>1, <2>2 DEF MapInv, LinesKnown
    <3>2. ASSUME NEW i \in 1..Len(b) PROVE b[i] = sleeping'[l][waking'[l] + i].cookie[2]
      BY <2>2 DEF MapInv, LinesKnown, Owner
    <3>3. waking'[l] = w /\ Len(sleeping'[l]) = Len(s) + 1
      BY <1>3, <1>4, <1>6, <1>8
    <3>4. Len(b) = Len(s) + 1 - w
      BY <1>5, <3>1, <3>3
    <3>5. ASSUME NEW i \in 1..Len(b) PROVE b[i] = sleeping'[l][w + i].cookie[2]
      BY <3>2, <3>3
    <3>6. QED
      BY <3>1, <3>4, <3>5
  <2>5. Append(a, t) \in Seq(Threads) /\ Len(Append(a, t)) = Len(a) + 1
    BY <2>3
  <2>6. ASSUME NEW i \in 1..Len(a) + 1 PROVE Append(a, t)[i] = b[i]
    <3>1. CASE i \in 1..Len(a)
      <4>1. w + i \in 1..Len(s) /\ i \in 1..Len(b) /\ Append(a, t)[i] = a[i]
        BY <1>5, <2>3, <2>4, <3>1
      <4>2. Owner(l, w + i)' = Owner(l, w + i)
        BY <1>4, <1>9, <4>1
      <4>3. QED
        BY <2>3, <2>4, <3>1, <4>1, <4>2 DEF Owner
    <3>2. CASE i = Len(a) + 1
      <4>1. w + i = Len(s) + 1 /\ i \in 1..Len(b) /\ Append(a, t)[i] = t
        <5>1. Len(a) \in Nat /\ Append(a, t)[Len(a) + 1] = t
          BY <2>3
        <5>2. w + i = Len(s) + 1 /\ i \in 1..Len(b)
          BY <1>5, <2>3, <2>4, <3>2, <5>1
        <5>3. QED
          BY <3>2, <5>1, <5>2
      <4>2. b[i] = Owner(l, Len(s) + 1)'
        BY <2>4, <4>1 DEF Owner
      <4>3. QED
        BY <1>9, <4>1, <4>2
    <3>3. QED
      BY <2>3, <3>1, <3>2
  <2>7. b = Append(a, t)
    <3>1. Len(b) = Len(a) + 1 /\ Len(a) \in Nat
      BY <1>5, <2>3, <2>4
    <3>2. QED
      BY <2>4, <2>5, <2>6, <3>1, SeqEqual
  <2>8. \A k \in Latches \ {l} : Lines'[k] = Lines[k]
    BY <1>3, <1>6, LineKept
  <2>9. QED
    BY <2>1, <2>2, <2>7, <2>8
<1>11. OpenLatches' = OpenLatches /\ Spares' = Spares
  BY <1>3, SpareKept, MappedEqual
<1>12. Promises' = Promises
  <2>1. pc \in [Threads -> {"idle", "polling", "polled", "writing"}]
    BY DEF TypeInv, TypeOK
  <2>2. ~Waiting(t) /\ \A u \in Threads \ {t} : Waiting(u)' <=> Waiting(u)
    BY <1>1, <1>3, <2>1 DEF Waiting
  <2>3. Promises[t] = <<>>
    BY <2>2 DEF MapInv, PromisesKnown
  <2>4. Promises'[t] = <<>>
    <3>1. Len(s) + 1 \in 1..Len(sleeping'[l]) /\ Len(s) + 1 > w
      BY <1>5, <1>6, <1>8
    <3>2. Due(l, Len(s) + 1)' = <<>>
      BY <1>3, <1>4, <3>1 DEF Due
    <3>3. \A j \in 1..Len(sleeping'[l]) : Promises'[Owner(l, j)'] = Due(l, j)'
      BY DEF MapInv, PromisesKnown
    <3>4. QED
      BY <1>9, <3>1, <3>2, <3>3
  <2>5. ASSUME NEW u \in Threads \ {t}, ~Waiting(u) PROVE Promises'[u] = Promises[u]
    BY <2>2, <2>5 DEF MapInv, PromisesKnown
  <2>6. ASSUME NEW u \in Threads \ {t}, Waiting(u) PROVE Promises'[u] = Promises[u]
    <3>1. PICK k \in Latches : \E i \in 1..Len(sleeping[k]) : Owner(k, i) = u
      BY <2>6 DEF MapInv, OwnersKnown
    <3>2. PICK i \in 1..Len(sleeping[k]) : Owner(k, i) = u
      BY <3>1
    <3>3. Promises[u] = Due(k, i)
      BY <3>2 DEF MapInv, PromisesKnown
    <3>4. Owner(k, i)' = u /\ Due(k, i)' = Due(k, i)
      BY <1>3, <1>9, <3>2 DEF Due
    <3>5. i \in 1..Len(sleeping'[k])
      <4>1. CASE k = l
        <5>1. Len(sleeping'[k]) = Len(s) + 1 /\ i \in 1..Len(s) /\ Len(s) \in Nat
          BY <1>4, <1>5, <1>6, <1>8, <4>1
        <5>2. QED
          BY <5>1
      <4>2. CASE k # l
        BY <1>6, <4>2
      <4>3. QED
        BY <4>1, <4>2
    <3>6. \A j \in 1..Len(sleeping'[k]) : Promises'[Owner(k, j)'] = Due(k, j)'
      BY DEF MapInv, PromisesKnown
    <3>7. QED
      BY <3>3, <3>4, <3>5, <3>6
  <2>7. QED
    BY <2>3, <2>4, <2>5, <2>6, MappedEqual
<1>13. Spares[l] = <<>> /\ ~HO!Waiting(t)
  BY <1>1, NothingSpare, FreeThread DEF Waiting
<1>14. QED
  BY <1>1, <1>3, <1>10, <1>11, <1>12, <1>13 DEF HO!JoinLine, OpenLatches
----------------------------------------------------------------------------
(* put(): handed to the head of the line, or stored.                       *)

\* put() while a sleeper has not been woken: the first of those is promised x.
LEMMA HandedOver ==
    ASSUME MapInv, MapInv', TypeInv, NEW t \in Threads, NEW l \in Latches, NEW x \in Items,
           Put(t, l, x), SleeperToWake(l)
    PROVE  HO!HandOver(l, x)
<1>1. PICK q, w, s : q = queue[l] /\ w = waking[l] /\ s = sleeping[l]
  OBVIOUS
<1>2. /\ q \in Seq(Items) /\ w \in Nat /\ s \in Seq(Entry)
      /\ queue \in [Latches -> Seq(Items)] /\ waking \in [Latches -> Nat]
      /\ ~closed[l] => (w < Len(s) => Len(q) = w)
  BY <1>1 DEF MapInv, CountsKnown, Counts
<1>3. ~closed[l] /\ w < Len(s)
  BY <1>1 DEF Put, SleeperToWake
<1>4. Len(q) = w /\ w + 1 \in 1..Len(s)
  BY <1>2, <1>3
<1>5. /\ queue' = [queue EXCEPT ![l] = Append(q, x)] /\ waking' = [waking EXCEPT ![l] = w + 1]
      /\ pc[t] = "idle" /\ pc' = [pc EXCEPT ![t] = "writing"]
      /\ UNCHANGED <<closed, sleeping, result>>
  BY <1>1 DEF Put
<1>6. /\ queue'[l] = Append(q, x) /\ waking'[l] = w + 1
      /\ \A k \in Latches \ {l} : queue'[k] = queue[k] /\ waking'[k] = waking[k]
  BY <1>2, <1>5
<1>7. /\ Append(q, x) \in Seq(Items) /\ Len(Append(q, x)) = w + 1 /\ Append(q, x)[w + 1] = x
      /\ \A i \in 1..w : Append(q, x)[i] = q[i]
  BY <1>2, <1>4, SMTT(30)
<1>8. PICK h : h = Owner(l, w + 1)
  OBVIOUS
<1>9. h \in Threads /\ Waiting(h)
  BY <1>1, <1>4, <1>8 DEF MapInv, OwnersKnown
<1>10. Lines[l] # <<>> /\ Head(Lines[l]) = h /\ Lines' = [Lines EXCEPT ![l] = Tail(Lines[l])]
  <2>1. Lines \in [Latches -> Seq(Threads)] /\ Lines' \in [Latches -> Seq(Threads)]
    BY DEF MapInv, LinesKnown
  <2>2. PICK a, b : a = Lines[l] /\ b = Lines'[l]
    OBVIOUS
  <2>3. /\ a \in Seq(Threads) /\ Len(a) = Len(s) - w
        /\ \A i \in 1..Len(a) : a[i] = s[w + i].cookie[2]
    BY <1>1, <2>1, <2>2 DEF MapInv, LinesKnown, Owner
  <2>4. /\ b \in Seq(Threads) /\ Len(b) = Len(s) - (w + 1)
        /\ \A i \in 1..Len(b) : b[i] = s[(w + 1) + i].cookie[2]
    <3>1. b \in Seq(Threads) /\ Len(b) = Len(sleeping'[l]) - waking'[l]
      BY <2>1, <2>2 DEF MapInv, LinesKnown
    <3>2. ASSUME NEW i \in 1..Len(b) PROVE b[i] = sleeping'[l][waking'[l] + i].cookie[2]
      BY <2>2 DEF MapInv, LinesKnown, Owner
    <3>3. waking'[l] = w + 1 /\ sleeping'[l] = s
      BY <1>1, <1>5, <1>6
    <3>4. Len(b) = Len(s) - (w + 1)
      BY <1>2, <3>1, <3>3
    <3>5. ASSUME NEW i \in 1..Len(b) PROVE b[i] = s[(w + 1) + i].cookie[2]
      BY <3>2, <3>3
    <3>6. QED
      BY <3>1, <3>4, <3>5
  <2>5. Len(a) \in Nat /\ 1 <= Len(a) /\ Len(b) = Len(a) - 1
    BY <1>2, <1>3, <2>3, <2>4
  <2>6. a # <<>> /\ Head(a) = a[1] /\ Tail(a) \in Seq(Threads) /\ Len(Tail(a)) = Len(a) - 1
    BY <2>3, <2>5
  <2>7. Head(a) = h
    BY <1>1, <1>8, <2>3, <2>5, <2>6 DEF Owner
  <2>8. ASSUME NEW i \in 1..Len(a) - 1 PROVE b[i] = Tail(a)[i]
    <3>1. Tail(a)[i] = a[i + 1] /\ i + 1 \in 1..Len(a) /\ w + (i + 1) = (w + 1) + i
      BY <1>2, <2>3, <2>5
    <3>2. QED
      BY <2>3, <2>4, <2>5, <3>1
  <2>9. b = Tail(a)
    BY <2>4, <2>5, <2>6, <2>8, SeqEqual
  <2>10. \A k \in Latches \ {l} : Lines'[k] = Lines[k]
    BY <1>5, <1>6, LineKept
  <2>11. QED
    BY <2>1, <2>2, <2>6, <2>7, <2>9, <2>10
<1>11. OpenLatches' = OpenLatches
  BY <1>5, MappedEqual
<1>12. Spares' = Spares
  <2>1. Spares[l] \in Seq(Items) /\ Len(Spares[l]) = Len(q) - w
    BY <1>1, <1>3 DEF MapInv, SparesKnown
  <2>2. Spares'[l] \in Seq(Items) /\ Len(Spares'[l]) = Len(queue'[l]) - waking'[l]
    BY <1>3, <1>5 DEF MapInv, SparesKnown
  <2>3. Len(Spares[l]) = 0 /\ Len(Spares'[l]) = 0
    BY <1>2, <1>4, <1>6, <1>7, <2>1, <2>2
  <2>4. Spares[l] = <<>> /\ Spares'[l] = <<>>
    BY <2>1, <2>2, <2>3
  <2>5. \A k \in Latches \ {l} : Spares'[k] = Spares[k]
    BY <1>5, <1>6, SpareKept
  <2>6. QED
    BY <2>4, <2>5, MappedEqual
<1>13. Promises' = [Promises EXCEPT ![h] = <<[latch |-> l, value |-> x]>>]
  <2>1. pc \in [Threads -> {"idle", "polling", "polled", "writing"}]
    BY DEF TypeInv, TypeOK
  <2>2. \A u \in Threads : Waiting(u)' <=> Waiting(u)
    BY <1>5, <2>1 DEF Waiting
  <2>3. Promises'[h] = <<[latch |-> l, value |-> x]>>
    <3>1. w + 1 \in 1..Len(sleeping'[l]) /\ Owner(l, w + 1)' = h
      BY <1>1, <1>4, <1>5, <1>8 DEF Owner
    <3>2. Promises'[h] = Due(l, w + 1)'
      BY <3>1 DEF MapInv, PromisesKnown
    <3>3. QED
      BY <1>2, <1>3, <1>5, <1>6, <1>7, <3>2 DEF Due
  <2>4. ASSUME NEW u \in Threads \ {h}, ~Waiting(u) PROVE Promises'[u] = Promises[u]
    BY <2>2, <2>4 DEF MapInv, PromisesKnown
  <2>5. ASSUME NEW u \in Threads \ {h}, Waiting(u) PROVE Promises'[u] = Promises[u]
    <3>1. PICK k \in Latches : \E i \in 1..Len(sleeping[k]) : Owner(k, i) = u
      BY <2>5 DEF MapInv, OwnersKnown
    <3>2. PICK i \in 1..Len(sleeping[k]) : Owner(k, i) = u
      BY <3>1
    <3>3. Promises[u] = Due(k, i)
      BY <3>2 DEF MapInv, PromisesKnown
    <3>4. i \in 1..Len(sleeping'[k]) /\ Owner(k, i)' = u
      BY <1>5, <3>2 DEF Owner
    <3>5. Promises'[u] = Due(k, i)'
      BY <3>4 DEF MapInv, PromisesKnown
    <3>6. Due(k, i)' = Due(k, i)
      <4>1. CASE k # l
        BY <1>5, <1>6, <4>1 DEF Due
      <4>2. CASE k = l
        <5>1. i # w + 1
          BY <1>8, <3>2, <4>2
        <5>2. i \in Nat /\ (i > w + 1 <=> i > w) /\ (~(i > w) => i \in 1..w)
          BY <1>2, <5>1
        <5>3. QED
          BY <1>1, <1>5, <1>6, <1>7, <4>2, <5>2 DEF Due
      <4>3. QED
        BY <4>1, <4>2
    <3>7. QED
      BY <3>3, <3>5, <3>6
  <2>6. PICK p, r : p = Promises /\ r = Promises'
    OBVIOUS
  <2>7. p = [u \in Threads |-> p[u]] /\ r = [u \in Threads |-> r[u]]
    <3>1. Promises = [u \in Threads |-> Promises[u]]
      BY DEF MapInv, PromisesKnown
    <3>2. Promises' = [u \in Threads |-> Promises'[u]]
      BY DEF MapInv, PromisesKnown
    <3>3. QED
      BY <2>6, <3>1, <3>2
  <2>8. /\ r[h] = <<[latch |-> l, value |-> x]>>
        /\ \A u \in Threads \ {h} : r[u] = p[u]
    BY <2>3, <2>4, <2>5, <2>6
  <2>9. r = [p EXCEPT ![h] = <<[latch |-> l, value |-> x]>>]
    BY <1>9, <2>7, <2>8
  <2>10. QED
    BY <2>6, <2>9
<1>14. QED
  BY <1>3, <1>5, <1>10, <1>11, <1>12, <1>13 DEF HO!HandOver, OpenLatches
\* put() with nobody left to wake: x is kept.
LEMMA Stored ==
    ASSUME MapInv, MapInv', NEW t \in Threads, NEW l \in Latches, NEW x \in Items,
           Put(t, l, x), ~SleeperToWake(l)
    PROVE  HO!Store(l, x)
<1>1. PICK q, w : q = queue[l] /\ w = waking[l]
  OBVIOUS
<1>2. ~closed[l] /\ UNCHANGED <<closed, sleeping, waking, pc, result>>
  BY DEF Put
<1>3. /\ q \in Seq(Items) /\ w \in Nat /\ sleeping[l] \in Seq(Entry)
      /\ w <= Len(sleeping[l]) /\ w <= Len(q)
      /\ queue \in [Latches -> Seq(Items)]
  BY <1>1, <1>2 DEF MapInv, CountsKnown, Counts
<1>4. Len(sleeping[l]) = w
  BY <1>1, <1>3 DEF SleeperToWake
<1>5. /\ queue'[l] = Append(q, x)
      /\ \A k \in Latches \ {l} : queue'[k] = queue[k]
  BY <1>1, <1>3 DEF Put
<1>6. /\ Append(q, x) \in Seq(Items) /\ Len(Append(q, x)) = Len(q) + 1
      /\ Append(q, x)[Len(q) + 1] = x /\ \A i \in 1..Len(q) : Append(q, x)[i] = q[i]
  BY <1>3
<1>7. OpenLatches' = OpenLatches /\ Lines' = Lines
  BY <1>2, LineKept, MappedEqual
<1>8. Lines[l] = <<>>
  <2>1. Lines[l] \in Seq(Threads) /\ Len(Lines[l]) = Len(sleeping[l]) - w
    BY <1>1 DEF MapInv, LinesKnown
  <2>2. Len(Lines[l]) = 0
    BY <1>3, <1>4, <2>1
  <2>3. QED
    BY <2>1, <2>2
<1>9. Spares' = [Spares EXCEPT ![l] = Append(Spares[l], x)]
  <2>1. Spares \in [Latches -> Seq(Items)] /\ Spares' \in [Latches -> Seq(Items)]
    BY DEF MapInv, SparesKnown
  <2>2. PICK a, b : a = Spares[l] /\ b = Spares'[l]
    OBVIOUS
  <2>3. /\ a \in Seq(Items) /\ Len(a) = Len(q) - w
        /\ \A i \in 1..Len(a) : a[i] = q[w + i]
    BY <1>1, <1>2, <2>1, <2>2 DEF MapInv, SparesKnown
  <2>4. /\ b \in Seq(Items) /\ Len(b) = Len(q) + 1 - w
        /\ \A i \in 1..Len(b) : b[i] = Append(q, x)[w + i]
    <3>1. b \in Seq(Items) /\ Len(b) = Len(queue'[l]) - waking'[l]
      BY <1>2, <2>1, <2>2 DEF MapInv, SparesKnown
    <3>2. ASSUME NEW i \in 1..Len(b) PROVE b[i] = queue'[l][waking'[l] + i]
      BY <1>2, <2>2 DEF MapInv, SparesKnown
    <3>3. waking'[l] = w /\ queue'[l] = Append(q, x)
      BY <1>1, <1>2, <1>5
    <3>4. Len(b) = Len(q) + 1 - w
      BY <1>3, <1>6, <3>1, <3>3
    <3>5. ASSUME NEW i \in 1..Len(b) PROVE b[i] = Append(q, x)[w + i]
      BY <3>2, <3>3
    <3>6. QED
      BY <3>1, <3>4, <3>5
  <2>5. /\ Append(a, x) \in Seq(Items) /\ Len(Append(a, x)) = Len(a) + 1
        /\ Len(a) \in Nat /\ Len(b) = Len(a) + 1 /\ Append(a, x)[Len(a) + 1] = x
    BY <1>3, <2>3, <2>4
  <2>6. ASSUME NEW i \in 1..Len(a) + 1 PROVE Append(a, x)[i] = b[i]
    <3>1. CASE i \in 1..Len(a)
      <4>1. Append(a, x)[i] = a[i] /\ w + i \in 1..Len(q) /\ i \in 1..Len(b)
        BY <1>3, <2>3, <2>5, <3>1
      <4>2. QED
        BY <1>6, <2>3, <2>4, <3>1, <4>1
    <3>2. CASE i = Len(a) + 1
      <4>1. w + i = Len(q) + 1 /\ i \in 1..Len(b)
        BY <1>3, <2>3, <2>5, <3>2
      <4>2. QED
        BY <1>6, <2>4, <2>5, <3>2, <4>1
    <3>3. QED
      BY <2>5, <3>1, <3>2
  <2>7. b = Append(a, x)
    BY <2>4, <2>5, <2>6, SeqEqual
  <2>8. \A k \in Latches \ {l} : Spares'[k] = Spares[k]
    BY <1>2, <1>5, SpareKept
  <2>9. QED
    BY <2>1, <2>2, <2>7, <2>8
<1>10. Promises' = Promises
  <2>1. \A u \in Threads : Waiting(u)' <=> Waiting(u)
    BY <1>2 DEF Waiting
  <2>2. ASSUME NEW k \in Latches, NEW i \in 1..Len(sleeping[k])
        PROVE  Due(k, i)' = Due(k, i)
    <3>1. CASE k # l
      BY <1>2, <1>5, <3>1 DEF Due
    <3>2. CASE k = l
      <4>1. i \in 1..Len(q)
        BY <1>3, <1>4, <3>2
      <4>2. QED
        BY <1>1, <1>2, <1>5, <1>6, <3>2, <4>1 DEF Due
    <3>3. QED
      BY <3>1, <3>2
  <2>3. QED
    BY <1>2, <2>1, <2>2, SamePromises
<1>11. QED
  BY <1>2, <1>7, <1>8, <1>9, <1>10 DEF HO!Store, OpenLatches

----------------------------------------------------------------------------
(* close(): everyone who waits is dismissed, promised an item or not.      *)

\* close() counts every sleeper as woken.
LEMMA AllWoken ==
    ASSUME MapInv, NEW t \in Threads, NEW l \in Latches, Close(t, l)
    PROVE  waking'[l] = Len(sleeping[l]) /\ \A k \in Latches \ {l} : waking'[k] = waking[k]
<1>1. /\ waking \in [Latches -> Nat] /\ waking[l] <= Len(sleeping[l])
      /\ sleeping[l] \in Seq(Entry)
  BY DEF MapInv, CountsKnown, Counts
<1>2. waking' = [waking EXCEPT ![l] = IF Unwoken(l) = {} THEN waking[l] ELSE Len(sleeping[l])]
  BY DEF Close
<1>3. Unwoken(l) = {} => waking[l] = Len(sleeping[l])
  <2>1. ASSUME waking[l] # Len(sleeping[l]) PROVE Unwoken(l) # {}
    <3>1. Len(sleeping[l]) \in DOMAIN sleeping[l] /\ Len(sleeping[l]) > waking[l]
      BY <1>1, <2>1
    <3>2. QED
      BY <3>1 DEF Unwoken
  <2>2. QED
    BY <2>1
<1>4. QED
  BY <1>1, <1>2, <1>3

\* Closing a latch again changes nothing.
LEMMA ClosedAgainStutters ==
    ASSUME MapInv, MapInv', NEW t \in Threads, NEW l \in Latches, Close(t, l), closed[l]
    PROVE  UNCHANGED HO!vars
<1>1. /\ waking \in [Latches -> Nat] /\ closed \in [Latches -> BOOLEAN]
      /\ waking[l] = Len(sleeping[l])
  BY DEF MapInv, CountsKnown, Counts
<1>2. waking' = waking /\ closed' = closed
  BY <1>1 DEF Close
<1>3. UNCHANGED <<shared, pc, result>>
  BY <1>2 DEF Close, shared
<1>4. QED
  BY <1>3, NobodyMoves DEF Waiting, HO!vars

\* The threads close() dismisses are the owners of the latch's positions.
LEMMA WaitersOfLatch ==
    ASSUME MapInv, NEW u \in Threads, NEW l \in Latches
    PROVE  (HO!InLine(u, l) \/ (Promises[u] # <<>> /\ Promises[u][1].latch = l))
              <=> \E i \in 1..Len(sleeping[l]) : Owner(l, i) = u
<1>1. /\ waking[l] \in Nat /\ Len(sleeping[l]) \in Nat /\ waking[l] <= Len(sleeping[l])
      /\ Len(Lines[l]) = Len(sleeping[l]) - waking[l] /\ Lines[l] \in Seq(Threads)
      /\ \A i \in 1..Len(Lines[l]) : Lines[l][i] = Owner(l, waking[l] + i)
  BY DEF MapInv, LinesKnown, CountsKnown, Counts
<1>2. DOMAIN Lines[l] = 1..Len(Lines[l])
  BY <1>1
<1>3. ASSUME HO!InLine(u, l) PROVE \E i \in 1..Len(sleeping[l]) : Owner(l, i) = u
  <2>1. PICK j \in 1..Len(Lines[l]) : Lines[l][j] = u
    BY <1>2, <1>3 DEF HO!InLine
  <2>2. waking[l] + j \in 1..Len(sleeping[l])
    BY <1>1, <2>1
  <2>3. QED
    BY <1>1, <2>1, <2>2
<1>4. ASSUME Promises[u] # <<>>, Promises[u][1].latch = l
      PROVE  \E i \in 1..Len(sleeping[l]) : Owner(l, i) = u
  <2>1. Waiting(u)
    BY <1>4 DEF MapInv, PromisesKnown
  <2>2. PICK k \in Latches : \E i \in 1..Len(sleeping[k]) : Owner(k, i) = u
    BY <2>1 DEF MapInv, OwnersKnown
  <2>3. PICK i \in 1..Len(sleeping[k]) : Owner(k, i) = u
    BY <2>2
  <2>4. Promises[u] = Due(k, i)
    BY <2>3 DEF MapInv, PromisesKnown
  <2>5. Promises[u][1].latch = k
    BY <1>4, <2>4 DEF Due
  <2>6. QED
    BY <1>4, <2>3, <2>5
<1>5. ASSUME NEW i \in 1..Len(sleeping[l]), Owner(l, i) = u
      PROVE  HO!InLine(u, l) \/ (Promises[u] # <<>> /\ Promises[u][1].latch = l)
  <2>1. CASE i > waking[l]
    <3>1. i - waking[l] \in 1..Len(Lines[l]) /\ waking[l] + (i - waking[l]) = i
      BY <1>1, <2>1
    <3>2. Lines[l][i - waking[l]] = u
      BY <1>1, <1>5, <3>1
    <3>3. QED
      BY <1>2, <3>1, <3>2 DEF HO!InLine
  <2>2. CASE ~(i > waking[l])
    <3>1. Promises[u] = Due(l, i)
      BY <1>5 DEF MapInv, PromisesKnown
    <3>2. QED
      BY <2>2, <3>1 DEF Due
  <2>3. QED
    BY <2>1, <2>2
<1>6. QED
  BY <1>3, <1>4, <1>5
\* Closing an open latch.
LEMMA Dismissed ==
    ASSUME MapInv, MapInv', NEW t \in Threads, NEW l \in Latches, Close(t, l), ~closed[l]
    PROVE  HO!Close(l)
<1>1. /\ closed \in [Latches -> BOOLEAN] /\ closed' = [closed EXCEPT ![l] = TRUE]
      /\ UNCHANGED <<queue, sleeping, pc, result>>
  BY DEF Close, MapInv, CountsKnown
<1>2. waking'[l] = Len(sleeping[l]) /\ \A k \in Latches \ {l} : waking'[k] = waking[k]
  BY AllWoken
<1>3. closed'[l] /\ \A k \in Latches \ {l} : closed'[k] = closed[k]
  BY <1>1
<1>4. OpenLatches' = OpenLatches \ {l}
  BY <1>3 DEF OpenLatches
<1>5. Spares' = [Spares EXCEPT ![l] = <<>>]
  <2>1. Spares \in [Latches -> Seq(Items)] /\ Spares' \in [Latches -> Seq(Items)]
    BY DEF MapInv, SparesKnown
  <2>2. Spares'[l] = <<>>
    BY <1>3 DEF MapInv, SparesKnown
  <2>3. \A k \in Latches \ {l} : Spares'[k] = Spares[k]
    BY <1>1, <1>2, <1>3, SpareKept
  <2>4. QED
    BY <2>1, <2>2, <2>3
<1>6. Lines' = [Lines EXCEPT ![l] = <<>>]
  <2>1. Lines \in [Latches -> Seq(Threads)] /\ Lines' \in [Latches -> Seq(Threads)]
    BY DEF MapInv, LinesKnown
  <2>2. Lines'[l] = <<>>
    <3>1. Lines'[l] \in Seq(Threads) /\ Len(Lines'[l]) = Len(sleeping'[l]) - waking'[l]
      BY <2>1 DEF MapInv, LinesKnown
    <3>2. Len(sleeping[l]) \in Nat
      BY DEF MapInv, CountsKnown
    <3>3. Len(Lines'[l]) = 0
      BY <1>1, <1>2, <3>1, <3>2
    <3>4. QED
      BY <3>1, <3>3
  <2>3. \A k \in Latches \ {l} : Lines'[k] = Lines[k]
    BY <1>1, <1>2, LineKept
  <2>4. QED
    BY <2>1, <2>2, <2>3
<1> DEFINE Dismisses(u) == HO!InLine(u, l) \/ (Promises[u] # <<>> /\ Promises[u][1].latch = l)
<1>7. ASSUME NEW u \in Threads
      PROVE  Promises'[u] = IF Dismisses(u) THEN <<[latch |-> l, value |-> "LatchError"]>>
                            ELSE Promises[u]
  <2>1. Waiting(u)' <=> Waiting(u)
    BY <1>1 DEF Waiting
  <2>2. CASE ~Waiting(u)
    <3>1. ~(\E i \in 1..Len(sleeping[l]) : Owner(l, i) = u)
      BY <2>2 DEF MapInv, OwnersKnown
    <3>2. ~Dismisses(u)
      BY <3>1, WaitersOfLatch
    <3>3. Promises'[u] = Promises[u]
      BY <2>1, <2>2 DEF MapInv, PromisesKnown
    <3>4. QED
      BY <3>2, <3>3
  <2>3. CASE Waiting(u)
    <3>1. PICK k \in Latches : \E i \in 1..Len(sleeping[k]) : Owner(k, i) = u
      BY <2>3 DEF MapInv, OwnersKnown
    <3>2. PICK i \in 1..Len(sleeping[k]) : Owner(k, i) = u
      BY <3>1
    <3>3. Promises[u] = Due(k, i)
      BY <3>2 DEF MapInv, PromisesKnown
    <3>4. i \in 1..Len(sleeping'[k]) /\ Owner(k, i)' = u
      BY <1>1, <3>2 DEF Owner
    <3>5. Promises'[u] = Due(k, i)'
      BY <3>4 DEF MapInv, PromisesKnown
    <3>6. CASE k = l
      <4>1. Dismisses(u)
        BY <3>2, <3>6, WaitersOfLatch
      <4>2. ~(i > waking'[l])
        <5>1. Len(sleeping[l]) \in Nat /\ i \in 1..Len(sleeping[l])
          BY <3>6 DEF MapInv, CountsKnown
        <5>2. QED
          BY <1>2, <5>1
      <4>3. Due(k, i)' = <<[latch |-> l, value |-> "LatchError"]>>
        BY <1>3, <3>6, <4>2 DEF Due
      <4>4. QED
        BY <3>5, <4>1, <4>3
    <3>7. CASE k # l
      <4>1. ~(\E j \in 1..Len(sleeping[l]) : Owner(l, j) = u)
        BY <3>2, <3>7 DEF MapInv, OwnersKnown
      <4>2. ~Dismisses(u)
        BY <4>1, WaitersOfLatch
      <4>3. Due(k, i)' = Due(k, i)
        BY <1>1, <1>2, <1>3, <3>7 DEF Due
      <4>4. QED
        BY <3>3, <3>5, <4>2, <4>3
    <3>8. QED
      BY <3>6, <3>7
  <2>4. QED
    BY <2>2, <2>3
<1>8. Promises' = [u \in Threads |->
                     IF Dismisses(u) THEN <<[latch |-> l, value |-> "LatchError"]>>
                     ELSE Promises[u]]
  <2>1. Promises' = [u \in Threads |-> Promises'[u]]
    BY DEF MapInv, PromisesKnown
  <2> HIDE DEF Dismisses
  <2>2. QED
    BY <1>7, <2>1
<1>9. QED
  BY <1>1, <1>4, <1>5, <1>6, <1>8 DEF HO!Close, HO!Dismissal, OpenLatches
----------------------------------------------------------------------------
(* A waiting thread leaves: with what it was promised, or giving up.       *)

\* Those that stay behind keep their promises; the one that leaves has none.
LEMMA OthersKeepPromises ==
    ASSUME MapInv, MapInv', TypeInv, NEW t \in Threads, NEW e, NEW l, NEW i, NEW v,
           Resumes(t, e, l, i, v)
    PROVE  Promises'[t] = <<>> /\ \A u \in Threads \ {t} : Promises'[u] = Promises[u]
<1>1. PICK q, w, s : q = queue[l] /\ w = waking[l] /\ s = sleeping[l]
  OBVIOUS
<1>2. /\ l \in Latches /\ q \in Seq(Items) /\ w \in Nat /\ s \in Seq(Entry)
      /\ queue \in [Latches -> Seq(Items)] /\ i \in 1..Len(s) /\ Owner(l, i) = t
      /\ ~closed[l] => w <= Len(q)
  BY <1>1 DEF Resumes, MapInv, CountsKnown, Counts, Owner
<1>3. /\ closed' = closed /\ pc' = [pc EXCEPT ![t] = "idle"]
      /\ waking'[l] = IF i <= w THEN w - 1 ELSE w
      /\ Len(sleeping'[l]) = Len(s) - 1
      /\ \A n \in 1..Len(s) - 1 : sleeping'[l][n] = IF n < i THEN s[n] ELSE s[n + 1]
      /\ \A k \in Latches \ {l} : waking'[k] = waking[k] /\ sleeping'[k] = sleeping[k]
  BY <1>1 DEF Resumes
<1>4. \A k \in Latches \ {l} : queue'[k] = queue[k]
  BY <1>2 DEF Resumes
<1>5. ~(i <= w) => queue'[l] = q
  BY <1>1 DEF Resumes
<1>6. ASSUME i <= w, ~closed[l], NEW n \in 1..w - 1
      PROVE  queue'[l][n] = IF n < i THEN q[n] ELSE q[n + 1]
  <2>1. i \in 1..Len(q) /\ n \in 1..Len(q) - 1
    BY <1>2, <1>6
  <2>2. queue'[l] = RemoveAt(q, i)
    BY <1>1, <1>2, <1>6 DEF Resumes
  <2>3. \A m \in 1..Len(q) - 1 : RemoveAt(q, i)[m] = IF m < i THEN q[m] ELSE q[m + 1]
    BY <1>2, <2>1, RemoveAtLemma
  <2>4. QED
    BY <2>1, <2>2, <2>3
<1>7. pc \in [Threads -> {"idle", "polling", "polled", "writing"}]
  BY DEF TypeInv, TypeOK
<1>8. ~Waiting(t)' /\ \A u \in Threads \ {t} : Waiting(u)' <=> Waiting(u)
  BY <1>3, <1>7 DEF Waiting
<1>9. Promises'[t] = <<>>
  BY <1>8 DEF MapInv, PromisesKnown
<1>10. ASSUME NEW u \in Threads \ {t}, ~Waiting(u) PROVE Promises'[u] = Promises[u]
  BY <1>8, <1>10 DEF MapInv, PromisesKnown
<1>11. ASSUME NEW u \in Threads \ {t}, Waiting(u) PROVE Promises'[u] = Promises[u]
  <2>1. PICK k \in Latches : \E j \in 1..Len(sleeping[k]) : Owner(k, j) = u
    BY <1>11 DEF MapInv, OwnersKnown
  <2>2. PICK j \in 1..Len(sleeping[k]) : Owner(k, j) = u
    BY <2>1
  <2>3. Promises[u] = Due(k, j)
    BY <2>2 DEF MapInv, PromisesKnown
  <2>4. CASE k # l
    <3>1. j \in 1..Len(sleeping'[k]) /\ Owner(k, j)' = u /\ Due(k, j)' = Due(k, j)
      BY <1>3, <1>4, <2>2, <2>4 DEF Owner, Due
    <3>2. Promises'[u] = Due(k, j)'
      BY <3>1 DEF MapInv, PromisesKnown
    <3>3. QED
      BY <2>3, <3>1, <3>2
  <2>5. CASE k = l /\ j < i
    <3>1. j \in 1..Len(s) - 1 /\ Len(s) \in Nat
      BY <1>1, <1>2, <2>5
    <3>2. j \in 1..Len(sleeping'[l]) /\ Owner(l, j)' = u
      BY <1>1, <1>3, <2>2, <2>5, <3>1 DEF Owner
    <3>3. Promises'[u] = Due(l, j)'
      BY <1>2, <3>2 DEF MapInv, PromisesKnown
    <3>4. CASE i <= w
      <4>1. waking'[l] = w - 1 /\ ~(j > w) /\ ~(j > w - 1) /\ j \in 1..w - 1
        BY <1>2, <1>3, <2>5, <3>1, <3>4
      <4>2. ~closed[l] => queue'[l][j] = q[j]
        BY <1>6, <2>5, <3>4, <4>1
      <4>3. QED
        BY <1>1, <1>3, <2>3, <2>5, <3>3, <4>1, <4>2 DEF Due
    <3>5. CASE ~(i <= w)
      BY <1>1, <1>3, <1>5, <2>3, <2>5, <3>3, <3>5 DEF Due
    <3>6. QED
      BY <3>4, <3>5
  <2>6. CASE k = l /\ ~(j < i)
    <3>1. j # i
      BY <1>2, <2>2, <2>6
    <3>2. PICK n : n = j - 1
      OBVIOUS
    <3>3. n \in 1..Len(s) - 1 /\ ~(n < i) /\ n + 1 = j /\ Len(s) \in Nat
      BY <1>1, <1>2, <2>6, <3>1, <3>2
    <3>4. n \in 1..Len(sleeping'[l]) /\ Owner(l, n)' = u
      BY <1>1, <1>3, <2>2, <2>6, <3>3 DEF Owner
    <3>5. Promises'[u] = Due(l, n)'
      BY <1>2, <3>4 DEF MapInv, PromisesKnown
    <3>6. CASE i <= w /\ j <= w
      <4>1. waking'[l] = w - 1 /\ ~(j > w) /\ ~(n > w - 1) /\ n \in 1..w - 1
        BY <1>2, <1>3, <3>3, <3>6
      <4>2. ~closed[l] => queue'[l][n] = q[j]
        BY <1>6, <3>3, <3>6, <4>1
      <4>3. QED
        BY <1>1, <1>3, <2>3, <2>6, <3>5, <4>1, <4>2 DEF Due
    <3>7. CASE ~(i <= w /\ j <= w)
      <4>1. j > w /\ n > waking'[l]
        BY <1>2, <1>3, <2>6, <3>1, <3>3, <3>7
      <4>2. QED
        BY <1>1, <2>3, <2>6, <3>5, <4>1 DEF Due
    <3>8. QED
      BY <3>6, <3>7
  <2>7. QED
    BY <2>4, <2>5, <2>6
<1>12. QED
  BY <1>9, <1>10, <1>11
\* A woken thread leaves with its element, or dismissed.
LEMMA Collected ==
    ASSUME MapInv, MapInv', TypeInv, NEW t \in Threads, NEW e, NEW l, NEW i, NEW v,
           Resumes(t, e, l, i, v), i <= waking[l]
    PROVE  HO!Collect(t)
<1>1. PICK q, w, s : q = queue[l] /\ w = waking[l] /\ s = sleeping[l]
  OBVIOUS
<1>2. /\ l \in Latches /\ q \in Seq(Items) /\ w \in Nat /\ s \in Seq(Entry)
      /\ queue \in [Latches -> Seq(Items)] /\ i \in 1..Len(s) /\ Owner(l, i) = t
      /\ w <= Len(s)
      /\ ~closed[l] => w <= Len(q)
  BY <1>1 DEF Resumes, MapInv, CountsKnown, Counts, Owner
<1>3. /\ closed' = closed /\ i <= w
      /\ waking'[l] = w - 1
      /\ Len(sleeping'[l]) = Len(s) - 1
      /\ \A n \in 1..Len(s) - 1 : sleeping'[l][n] = IF n < i THEN s[n] ELSE s[n + 1]
      /\ \A k \in Latches \ {l} : waking'[k] = waking[k] /\ sleeping'[k] = sleeping[k]
  BY <1>1 DEF Resumes
<1>4. \A k \in Latches \ {l} : queue'[k] = queue[k]
  BY <1>2 DEF Resumes
<1>5. ~closed[l] => queue'[l] = RemoveAt(q, i) /\ result' = <<t, q[i]>>
  BY <1>1, <1>2, <1>3 DEF Resumes
<1>6. closed[l] => result' = <<t, "LatchError">>
  BY <1>1, <1>3 DEF Resumes
<1>7. Promises[t] = <<[latch |-> l, value |-> IF closed[l] THEN "LatchError" ELSE q[i]]>>
  <2>1. Promises[t] = Due(l, i)
    BY <1>1, <1>2 DEF MapInv, PromisesKnown
  <2>2. ~(i > w)
    BY <1>2, <1>3
  <2>3. QED
    BY <1>1, <2>1, <2>2 DEF Due
<1>8. Promises[t] # <<>> /\ result' = <<t, Promises[t][1].value>>
  BY <1>5, <1>6, <1>7
<1>9. Promises' = [Promises EXCEPT ![t] = <<>>]
  <2>1. PICK p, r : p = Promises /\ r = Promises'
    OBVIOUS
  <2>2. p = [u \in Threads |-> p[u]] /\ r = [u \in Threads |-> r[u]]
    <3>1. Promises = [u \in Threads |-> Promises[u]]
      BY DEF MapInv, PromisesKnown
    <3>2. Promises' = [u \in Threads |-> Promises'[u]]
      BY DEF MapInv, PromisesKnown
    <3>3. QED
      BY <2>1, <3>1, <3>2
  <2>3. r[t] = <<>> /\ \A u \in Threads \ {t} : r[u] = p[u]
    BY <2>1, OthersKeepPromises
  <2>4. r = [p EXCEPT ![t] = <<>>]
    BY <2>2, <2>3
  <2>5. QED
    BY <2>1, <2>4
<1>10. OpenLatches' = OpenLatches
  BY <1>3, MappedEqual
\* Counter and sleepers shrink by one: the line behind them is the same.
<1>11. Lines' = Lines
  <2>1. PICK a, b : a = Lines[l] /\ b = Lines'[l]
    OBVIOUS
  <2>2. /\ a \in Seq(Threads) /\ Len(a) = Len(s) - w
        /\ \A n \in 1..Len(a) : a[n] = s[w + n].cookie[2]
    BY <1>1, <1>2, <2>1 DEF MapInv, LinesKnown, Owner
  <2>3. b \in Seq(Threads) /\ Len(b) = Len(sleeping'[l]) - waking'[l]
    BY <1>2, <2>1 DEF MapInv, LinesKnown
  <2>4. ASSUME NEW n \in 1..Len(b) PROVE b[n] = sleeping'[l][waking'[l] + n].cookie[2]
    BY <1>2, <2>1 DEF MapInv, LinesKnown, Owner
  <2>5. Len(b) = Len(a)
    BY <1>2, <1>3, <2>2, <2>3
  <2>6. ASSUME NEW n \in 1..Len(a) PROVE a[n] = b[n]
    <3>1. PICK m : m = (w - 1) + n
      OBVIOUS
    <3>2. m \in 1..Len(s) - 1 /\ ~(m < i) /\ m + 1 = w + n
      BY <1>2, <1>3, <2>2, <3>1
    <3>3. sleeping'[l][m] = s[w + n]
      BY <1>3, <3>2
    <3>4. b[n] = sleeping'[l][m].cookie[2]
      BY <1>3, <2>4, <2>5, <3>1
    <3>5. QED
      BY <2>2, <3>3, <3>4
  <2>7. a = b
    BY <2>2, <2>3, <2>5, <2>6, SeqEqual
  <2>8. \A k \in Latches \ {l} : Lines'[k] = Lines[k]
    BY <1>3, LineKept
  <2>9. QED
    BY <2>1, <2>7, <2>8, MappedEqual
\* The element taken was promised: the spare ones are the same.
<1>12. Spares' = Spares
  <2>1. CASE closed[l]
    <3>1. Spares[l] = <<>> /\ Spares'[l] = <<>>
      BY <1>2, <1>3, <2>1 DEF MapInv, SparesKnown
    <3>2. \A k \in Latches \ {l} : Spares'[k] = Spares[k]
      BY <1>3, <1>4, SpareKept
    <3>3. QED
      BY <3>1, <3>2, MappedEqual
  <2>2. CASE ~closed[l]
    <3>1. PICK a, b, r : a = Spares[l] /\ b = Spares'[l] /\ r = queue'[l]
      OBVIOUS
    <3>2. /\ a \in Seq(Items) /\ Len(a) = Len(q) - w
          /\ \A n \in 1..Len(a) : a[n] = q[w + n]
      BY <1>1, <1>2, <2>2, <3>1 DEF MapInv, SparesKnown
    <3>3. b \in Seq(Items) /\ Len(b) = Len(queue'[l]) - waking'[l]
      BY <1>2, <1>3, <2>2, <3>1 DEF MapInv, SparesKnown
    <3>4. ASSUME NEW n \in 1..Len(b) PROVE b[n] = queue'[l][waking'[l] + n]
      BY <1>2, <1>3, <2>2, <3>1 DEF MapInv, SparesKnown
    <3>5. i \in 1..Len(q)
      <4>1. i \in Nat /\ 1 <= i
        BY <1>2
      <4>2. i <= w /\ w <= Len(q) /\ Len(q) \in Nat /\ w \in Nat
        BY <1>2, <1>3, <2>2
      <4>3. QED
        BY <4>1, <4>2
    <3>6. /\ r = RemoveAt(q, i) /\ Len(r) = Len(q) - 1
          /\ \A n \in 1..Len(q) - 1 : r[n] = IF n < i THEN q[n] ELSE q[n + 1]
      BY <1>2, <1>5, <2>2, <3>1, <3>5, RemoveAtLemma
    <3>7. Len(b) = Len(a)
      BY <1>2, <1>3, <3>1, <3>2, <3>3, <3>6
    <3>8. ASSUME NEW n \in 1..Len(a) PROVE a[n] = b[n]
      <4>1. PICK m : m = (w - 1) + n
        OBVIOUS
      <4>2. m \in 1..Len(q) - 1 /\ ~(m < i) /\ m + 1 = w + n
        BY <1>2, <1>3, <3>2, <4>1
      <4>3. r[m] = q[w + n]
        BY <3>6, <4>2
      <4>4. b[n] = r[m]
        BY <1>3, <3>1, <3>4, <3>7, <4>1
      <4>5. QED
        BY <3>2, <4>3, <4>4
    <3>9. a = b
      BY <3>2, <3>3, <3>7, <3>8, SeqEqual
    <3>10. \A k \in Latches \ {l} : Spares'[k] = Spares[k]
      BY <1>3, <1>4, SpareKept
    <3>11. QED
      BY <3>1, <3>9, <3>10, MappedEqual
  <2>3. QED
    BY <2>1, <2>2
<1>13. QED
  BY <1>8, <1>9, <1>10, <1>11, <1>12 DEF HO!Collect
\* A thread that was not woken leaves the line, wherever it stood.
LEMMA GaveUp ==
    ASSUME MapInv, MapInv', TypeInv, NEW t \in Threads, NEW e, NEW l, NEW i, NEW v,
           Resumes(t, e, l, i, v), ~(i <= waking[l])
    PROVE  l \in Latches /\ HO!GiveUp(t, l)
<1>1. PICK w, s : w = waking[l] /\ s = sleeping[l]
  OBVIOUS
<1>2. /\ l \in Latches /\ w \in Nat /\ s \in Seq(Entry) /\ i \in 1..Len(s)
      /\ s[i].cookie[2] = t /\ Owner(l, i) = t
  BY <1>1 DEF Resumes, MapInv, CountsKnown, Owner
<1>3. /\ UNCHANGED <<closed, queue>> /\ ~(i <= w) /\ result' = <<t, "TimeoutError">>
      /\ waking'[l] = w
      /\ Len(sleeping'[l]) = Len(s) - 1
      /\ \A n \in 1..Len(s) - 1 : sleeping'[l][n] = IF n < i THEN s[n] ELSE s[n + 1]
      /\ \A k \in Latches \ {l} : waking'[k] = waking[k] /\ sleeping'[k] = sleeping[k]
  BY <1>1 DEF Resumes
<1>4. Promises' = Promises
  <2>1. Promises[t] = Due(l, i)
    BY <1>1, <1>2 DEF MapInv, PromisesKnown
  <2>2. i > w
    BY <1>2, <1>3
  <2>3. Promises[t] = <<>>
    BY <1>1, <2>1, <2>2 DEF Due
  <2>4. \A u \in Threads : Promises'[u] = Promises[u]
    BY <2>3, OthersKeepPromises
  <2>5. QED
    BY <2>4, MappedEqual
<1>5. OpenLatches' = OpenLatches /\ Spares' = Spares
  <2>1. \A k \in Latches : waking'[k] = waking[k]
    BY <1>1, <1>3
  <2>2. QED
    BY <1>3, <2>1, SpareKept, MappedEqual
<1>6. PICK j : j = i - w
  OBVIOUS
<1>7. PICK a, b : a = Lines[l] /\ b = Lines'[l]
  OBVIOUS
<1>8. /\ a \in Seq(Threads) /\ Len(a) = Len(s) - w
      /\ \A n \in 1..Len(a) : a[n] = s[w + n].cookie[2]
  BY <1>1, <1>2, <1>7 DEF MapInv, LinesKnown, Owner
<1>9. b \in Seq(Threads) /\ Len(b) = Len(sleeping'[l]) - waking'[l]
  BY <1>2, <1>7 DEF MapInv, LinesKnown
<1>10. ASSUME NEW n \in 1..Len(b) PROVE b[n] = sleeping'[l][waking'[l] + n].cookie[2]
  BY <1>2, <1>7 DEF MapInv, LinesKnown, Owner
<1>11. j \in 1..Len(a) /\ w + j = i /\ Len(a) \in Nat /\ Len(b) = Len(a) - 1
  BY <1>2, <1>3, <1>6, <1>8, <1>9
<1>12. a[j] = t /\ j \in DOMAIN a
  BY <1>2, <1>8, <1>11
<1>13. /\ RemoveAt(a, j) \in Seq(Threads) /\ Len(RemoveAt(a, j)) = Len(a) - 1
       /\ \A n \in 1..Len(a) - 1 : RemoveAt(a, j)[n] = IF n < j THEN a[n] ELSE a[n + 1]
  BY <1>8, <1>11, RemoveAtLemma
<1>14. ASSUME NEW n \in 1..Len(a) - 1 PROVE b[n] = RemoveAt(a, j)[n]
  <2>1. PICK m : m = w + n
    OBVIOUS
  <2>2. b[n] = sleeping'[l][m].cookie[2]
    BY <1>3, <1>10, <1>11, <2>1
  <2>3. m \in 1..Len(s) - 1 /\ (m < i <=> n < j) /\ m + 1 = w + (n + 1) /\ n + 1 \in 1..Len(a)
        /\ n \in 1..Len(a)
    BY <1>2, <1>8, <1>11, <2>1
  <2>4. CASE n < j
    BY <1>3, <1>8, <1>13, <2>1, <2>2, <2>3, <2>4
  <2>5. CASE ~(n < j)
    BY <1>3, <1>8, <1>13, <2>1, <2>2, <2>3, <2>5, SMTT(30)
  <2>6. QED
    BY <2>4, <2>5
<1>15. b = RemoveAt(a, j)
  BY <1>9, <1>11, <1>13, <1>14, SeqEqual
<1>16. Lines' = [Lines EXCEPT ![l] = RemoveAt(Lines[l], j)]
  <2>1. Lines \in [Latches -> Seq(Threads)] /\ Lines' \in [Latches -> Seq(Threads)]
    BY DEF MapInv, LinesKnown
  <2>2. \A k \in Latches \ {l} : Lines'[k] = Lines[k]
    BY <1>3, LineKept
  <2>3. QED
    BY <1>7, <1>15, <2>1, <2>2
<1>17. j \in DOMAIN Lines[l] /\ Lines[l][j] = t
  BY <1>7, <1>12
<1>18. HO!RemoveAt(Lines[l], j) = RemoveAt(Lines[l], j)
  BY DEF HO!RemoveAt, RemoveAt
<1>19. QED
  BY <1>2, <1>3, <1>4, <1>5, <1>16, <1>17, <1>18 DEF HO!GiveUp

----------------------------------------------------------------------------
(* The refinement.                                                         *)

\* A process starts with every latch open and empty.
LEMMA InitImplements == Init => HO!Init
<1>1. SUFFICES ASSUME Init PROVE HO!Init
  OBVIOUS
<1>2. MapInv
  BY <1>1, TypeInit, WaitInit, MapKnown
<1>3. OpenLatches = Latches /\ result = <<>>
  BY <1>1 DEF Init, OpenLatches
<1>4. Spares = [l \in Latches |-> <<>>]
  <2>1. ASSUME NEW l \in Latches PROVE Spares[l] = <<>>
    <3>1. Spares[l] \in Seq(Items) /\ Len(Spares[l]) = Len(queue[l]) - waking[l]
      BY <1>1, <1>2 DEF Init, MapInv, SparesKnown
    <3>2. Len(queue[l]) = 0 /\ waking[l] = 0
      BY <1>1 DEF Init
    <3>3. QED
      BY <3>1, <3>2
  <2>2. Spares \in [Latches -> Seq(Items)]
    BY <1>2 DEF MapInv, SparesKnown
  <2>3. QED
    BY <2>1, <2>2
<1>5. Lines = [l \in Latches |-> <<>>]
  <2>1. ASSUME NEW l \in Latches PROVE Lines[l] = <<>>
    <3>1. Lines[l] \in Seq(Threads) /\ Len(Lines[l]) = Len(sleeping[l]) - waking[l]
      BY <1>2 DEF MapInv, LinesKnown
    <3>2. Len(sleeping[l]) = 0 /\ waking[l] = 0
      BY <1>1 DEF Init
    <3>3. QED
      BY <3>1, <3>2
  <2>2. Lines \in [Latches -> Seq(Threads)]
    BY <1>2 DEF MapInv, LinesKnown
  <2>3. QED
    BY <2>1, <2>2
<1>6. Promises = [t \in Threads |-> <<>>]
  <2>1. \A t \in Threads : Promises[t] = <<>>
    BY <1>1, <1>2 DEF Init, Waiting, MapInv, PromisesKnown
  <2>2. Promises = [t \in Threads |-> Promises[t]]
    BY <1>2 DEF MapInv, PromisesKnown
  <2>3. QED
    BY <2>1, <2>2
<1>7. QED
  BY <1>3, <1>4, <1>5, <1>6 DEF HO!Init

\* Every step of a latch whose wait queue is in order is a step of HandOff,
\* or invisible, or abandons a promised item.
LEMMA StepImplements ==
    ASSUME IInv, IInv', [Next]_vars
    PROVE  abandoned' \/ HO!Next \/ UNCHANGED HO!vars
<1>1. SUFFICES ASSUME ~abandoned' PROVE HO!Next \/ UNCHANGED HO!vars
  OBVIOUS
<1>2. ~abandoned
  BY <1>1, AbandonedStays
<1>3. TypeInv /\ WaitInv /\ TypeInv' /\ WaitInv'
  BY <1>1, <1>2 DEF IInv
<1>4. MapInv /\ MapInv'
  BY <1>3, MapKnown, MapKnownNext
<1>5. ASSUME NEW t \in Threads, NEW l \in Latches, GetClosed(t, l) \/ GetNoBlock(t, l)
      PROVE  HO!Next
  BY <1>4, <1>5, TurnedAwayAtOnce DEF HO!Next
<1>6. ASSUME NEW t \in Threads, NEW l \in Latches, GetSpare(t, l) PROVE HO!Next
  BY <1>4, <1>6, SpareTaken DEF HO!Next
<1>7. ASSUME NEW t \in Threads, NEW l \in Latches, GetSleep(t, l) PROVE HO!Next
  BY <1>3, <1>4, <1>7, LineJoined DEF HO!Next
<1>8. ASSUME NEW t \in Threads, NEW l \in Latches, Close(t, l)
      PROVE  HO!Next \/ UNCHANGED HO!vars
  <2>1. CASE closed[l]
    BY <1>4, <1>8, <2>1, ClosedAgainStutters
  <2>2. CASE ~closed[l]
    BY <1>4, <1>8, <2>2, Dismissed DEF HO!Next
  <2>3. QED
    BY <2>1, <2>2
<1>9. ASSUME NEW t \in Threads, NEW l \in Latches, NEW x \in Items, Put(t, l, x)
      PROVE  HO!Next
  <2>1. CASE SleeperToWake(l)
    BY <1>3, <1>4, <1>9, <2>1, HandedOver DEF HO!Next
  <2>2. CASE ~SleeperToWake(l)
    BY <1>4, <1>9, <2>2, Stored DEF HO!Next
  <2>3. QED
    BY <2>1, <2>2
<1>10. ASSUME NEW t \in Threads, PollReady(t) \/ PollTimeout(t) \/ PutWake(t)
       PROVE  UNCHANGED HO!vars
  BY <1>3, <1>4, <1>10, PollAndWakeStutter
<1>11. ASSUME NEW t \in Threads, PollInterrupt(t) PROVE FALSE
  BY <1>1, <1>11 DEF PollInterrupt
<1>12. ASSUME NEW t \in Threads, Resume(t) PROVE HO!Next
  <2>1. PICK e, l, i, v : Resumes(t, e, l, i, v)
    BY <1>1, <1>3, <1>12, ResumeOutcome
  <2>2. CASE i <= waking[l]
    <3>1. HO!Collect(t)
      BY <1>3, <1>4, <2>1, <2>2, Collected
    <3>2. QED
      BY <3>1 DEF HO!Next
  <2>3. CASE ~(i <= waking[l])
    <3>1. l \in Latches /\ HO!GiveUp(t, l)
      BY <1>3, <1>4, <2>1, <2>3, GaveUp
    <3>2. QED
      BY <3>1 DEF HO!Next
  <2>4. QED
    BY <2>2, <2>3
<1>13. CASE UNCHANGED vars
  <2>1. UNCHANGED <<shared, pc, result>>
    BY <1>13 DEF vars
  <2>2. QED
    BY <1>4, <2>1, NobodyMoves DEF Waiting, HO!vars
<1>14. QED
  BY <1>5, <1>6, <1>7, <1>8, <1>9, <1>10, <1>11, <1>12, <1>13 DEF Next

\* mitogen.core.Latch is a first-come first-served hand-off: an item goes to
\* the thread that has waited longest or is kept, a promised item belongs to
\* its thread alone, and close() dismisses everyone, until a thread leaves
\* behind an item that put() had assigned to it.
THEOREM LatchIsHandOff == Spec => ImplementsHandOff
<1>1. IInv /\ IInv' /\ [Next]_vars => [abandoned' \/ HO!Next \/ UNCHANGED HO!vars]_vars
  BY StepImplements
<1>2. QED
  BY <1>1, InitImplements, WaitQueueInOrder, PTL DEF Spec, ImplementsHandOff
=============================================================================
