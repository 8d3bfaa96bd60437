------------------------------- MODULE Latch -------------------------------
(***************************************************************************)
(* mitogen.core.Latch (src/mitogen/core.py): the queue every Receiver,     *)
(* Select and service Pool sleeps on.  get() and put() hold the latch's    *)
(* _lock for a bounded time only; a thread that must wait sleeps outside   *)
(* the lock, polling a socketpair taken from a class-wide idle list, and   *)
(* put() wakes it by writing a cookie, again outside the lock.  Each       *)
(* critical section is one action; the poll and the write between them     *)
(* are actions of their own, so every interleaving the lock allows exists. *)
(***************************************************************************)
EXTENDS Naturals, Sequences, FiniteSets, SequencesExt

CONSTANTS
    Latches,        \* Latch instances of one process
    Threads,        \* threads of that process
    Items,          \* objects to enqueue, each one put at most once
    Sockets,        \* socketpairs the process can create (its fd limit)
    Timed,          \* threads that pass a timeout to get()
    MaxInterrupts   \* bound on the number of CTRL+C during a wait

\* What get() ends with when it does not return an item.
Outcome == {"LatchError", "TimeoutError", "IndexError",
            "KeyboardInterrupt", "Cookie incorrect", "No element"}

ASSUME LatchAssumption ==
    /\ Latches # {} /\ Sockets # {}
    /\ Items \cap Outcome = {}
    /\ Timed \subseteq Threads
    /\ MaxInterrupts \in Nat

VARIABLES
    closed,     \* [Latches -> BOOLEAN]
    queue,      \* Latch._queue
    sleeping,   \* Latch._sleeping: (wsock, cookie) pairs
    waking,     \* Latch._waking
    idle,       \* Latch._cls_idle_socketpairs
    created,    \* socketpairs that exist
    buf,        \* [socketpair -> cookies written and not yet received]
    pc,         \* where each thread is
    entry,      \* locals (wsock, cookie) of _get_sleep() and put()
    result,     \* history: <<thread, outcome>> of the last get() that ended
    fresh,      \* history: items nobody has put yet
    taken,      \* history: items returned by get()
    interrupts, \* history: number of CTRL+C so far
    abandoned   \* history: a sleeper left behind an element assigned to it

shared == <<closed, queue, sleeping, waking>>
sockets == <<idle, created, buf>>
history == <<fresh, taken, interrupts, abandoned>>
vars == <<shared, sockets, pc, entry, result, history>>

\* A cookie names the latch and the thread (the process is fixed).
Entry == [sock : Sockets, cookie : Latches \X Threads]

\* The value of entry[t] while the thread is in neither function.
NoEntry(t) == [sock |-> CHOOSE s \in Sockets : TRUE,
               cookie |-> <<CHOOSE l \in Latches : TRUE, t>>]

TypeOK ==
    /\ closed \in [Latches -> BOOLEAN]
    /\ queue \in [Latches -> Seq(Items)]
    /\ sleeping \in [Latches -> Seq(Entry)]
    /\ waking \in [Latches -> Nat]
    /\ idle \in Seq(Sockets)
    /\ created \subseteq Sockets
    /\ buf \in [Sockets -> Seq(Latches \X Threads)]
    /\ pc \in [Threads -> {"idle", "polling", "polled", "writing"}]
    /\ entry \in [Threads -> Entry]
    /\ result \in {<<>>} \cup (Threads \X (Items \cup Outcome))
    /\ fresh \subseteq Items
    /\ taken \subseteq Items
    /\ interrupts \in 0..MaxInterrupts
    /\ abandoned \in BOOLEAN

Init ==
    /\ closed = [l \in Latches |-> FALSE]
    /\ queue = [l \in Latches |-> <<>>]
    /\ sleeping = [l \in Latches |-> <<>>]
    /\ waking = [l \in Latches |-> 0]
    /\ idle = <<>>
    /\ created = {}
    /\ buf = [s \in Sockets |-> <<>>]
    /\ pc = [t \in Threads |-> "idle"]
    /\ entry = [t \in Threads |-> NoEntry(t)]
    /\ result = <<>>
    /\ fresh = Items
    /\ taken = {}
    /\ interrupts = 0
    /\ abandoned = FALSE

----------------------------------------------------------------------------
(* get(): the critical section that ends in a return, a raise or a sleep.  *)

\* A queue element beyond those assigned to sleeping threads.
HasSpare(l) == Len(queue[l]) > Len(sleeping[l])

GetClosed(t, l) ==
    /\ pc[t] = "idle"
    /\ closed[l]
    /\ result' = <<t, "LatchError">>
    /\ UNCHANGED <<shared, sockets, pc, entry, history>>

\* Mutant: the first element is removed, whichever was returned.
PopFirst(s, i) == Tail(s)

Pop(s, i) == RemoveAt(s, i)

\* self._queue.pop(i), i the number of sleeping threads (0-based).
GetSpare(t, l) ==
    LET i == Len(sleeping[l]) + 1
    IN  /\ pc[t] = "idle"
        /\ ~closed[l]
        /\ HasSpare(l)
        /\ result' = <<t, queue[l][i]>>
        /\ queue' = [queue EXCEPT ![l] = Pop(@, i)]
        /\ taken' = taken \cup {queue[l][i]}
        /\ UNCHANGED <<closed, sleeping, waking, sockets, pc, entry, fresh, interrupts, abandoned>>

GetNoBlock(t, l) ==
    /\ pc[t] = "idle"
    /\ ~closed[l]
    /\ ~HasSpare(l)
    /\ result' = <<t, "TimeoutError">>
    /\ UNCHANGED <<shared, sockets, pc, entry, history>>

\* _get_socketpair(): the most recently freed pair, or a new one.
GetSleep(t, l) ==
    LET new == CHOOSE s \in Sockets : s \notin created
        e == [sock |-> IF idle # <<>> THEN idle[Len(idle)] ELSE new,
              cookie |-> <<l, t>>]
    IN  /\ pc[t] = "idle"
        /\ ~closed[l]
        /\ ~HasSpare(l)
        /\ \/ idle # <<>> /\ idle' = Front(idle) /\ UNCHANGED created
           \/ idle = <<>> /\ created # Sockets /\ created' = created \cup {new}
              /\ UNCHANGED idle
        /\ sleeping' = [sleeping EXCEPT ![l] = Append(@, e)]
        /\ entry' = [entry EXCEPT ![t] = e]
        /\ pc' = [pc EXCEPT ![t] = "polling"]
        /\ UNCHANGED <<closed, queue, waking, buf, result, history>>

----------------------------------------------------------------------------
(* _get_sleep(): the poll, and the critical section after it.              *)

PollReady(t) ==
    /\ pc[t] = "polling"
    /\ buf[entry[t].sock] # <<>>
    /\ pc' = [pc EXCEPT ![t] = "polled"]
    /\ UNCHANGED <<shared, sockets, entry, result, history>>

PollTimeout(t) ==
    /\ pc[t] = "polling"
    /\ t \in Timed
    /\ pc' = [pc EXCEPT ![t] = "polled"]
    /\ UNCHANGED <<shared, sockets, entry, result, history>>

\* CTRL+C inside poll(): KeyboardInterrupt is not an Exception, so it leaves
\* get() without taking the lock again; the sleeping entry stays behind.
PollInterrupt(t) ==
    /\ pc[t] = "polling"
    /\ interrupts < MaxInterrupts
    /\ interrupts' = interrupts + 1
    /\ pc' = [pc EXCEPT ![t] = "idle"]
    /\ entry' = [entry EXCEPT ![t] = NoEntry(t)]
    /\ result' = <<t, "KeyboardInterrupt">>
    /\ abandoned' = TRUE
    /\ UNCHANGED <<shared, sockets, fresh, taken>>

\* Mutant: the last sleeper is removed, whoever returned from poll().
PositionLast(e, s) == Len(s)

\* self._sleeping.index((wsock, cookie))
Position(e, s) == CHOOSE i \in DOMAIN s : s[i] = e

\* The tests between recv() and the return, in the code's order; an element
\* is consumed (and _waking given back) only by the outcomes after the second
\* assertion.
Verdict(e, l, i) ==
    IF buf[e.sock] = <<>> THEN "TimeoutError"
    ELSE IF Head(buf[e.sock]) # e.cookie THEN "Cookie incorrect"
    ELSE IF i > waking[l] THEN "No element"
    ELSE IF closed[l] THEN "LatchError"
    ELSE IF i > Len(queue[l]) THEN "IndexError"
    ELSE "item"

\* _waking is decremented once both assertions have passed.
GivesBack(v) == v \in {"LatchError", "IndexError", "item"}

\* Mutant: the cookie is left in the socketpair.
Unread(b) == b

\* rsock.recv(COOKIE_SIZE)
Received(b) == IF b = <<>> THEN b ELSE Tail(b)

Resume(t) ==
    LET e == entry[t]
        l == e.cookie[1]
        i == Position(e, sleeping[l])
        v == Verdict(e, l, i)
    IN  /\ pc[t] = "polled"
        /\ sleeping' = [sleeping EXCEPT ![l] = RemoveAt(@, i)]
        /\ buf' = [buf EXCEPT ![e.sock] = Received(@)]
        /\ idle' = Append(idle, e.sock)
        /\ waking' = [waking EXCEPT ![l] = IF GivesBack(v) THEN @ - 1 ELSE @]
        /\ IF v = "item"
           THEN /\ queue' = [queue EXCEPT ![l] = Pop(@, i)]
                /\ taken' = taken \cup {queue[l][i]}
                /\ result' = <<t, queue[l][i]>>
           ELSE /\ result' = <<t, v>>
                /\ UNCHANGED <<queue, taken>>
        /\ abandoned' = (abandoned \/ (v = "TimeoutError" /\ i <= waking[l]))
        /\ pc' = [pc EXCEPT ![t] = "idle"]
        /\ entry' = [entry EXCEPT ![t] = NoEntry(t)]
        /\ UNCHANGED <<closed, created, fresh, interrupts>>

----------------------------------------------------------------------------
(* put(): the critical section, and the write after it; close().           *)

\* Mutant: an off-by-one in the test for a sleeper to wake.
SleeperToWakeStrict(l) == waking[l] + 1 < Len(sleeping[l])

\* self._waking < len(self._sleeping)
SleeperToWake(l) == waking[l] < Len(sleeping[l])

\* put() on a closed latch raises LatchError and changes nothing: no action.
Put(t, l, x) ==
    /\ pc[t] = "idle"
    /\ x \in fresh
    /\ ~closed[l]
    /\ queue' = [queue EXCEPT ![l] = Append(@, x)]
    /\ fresh' = fresh \ {x}
    /\ IF SleeperToWake(l)
       THEN /\ waking' = [waking EXCEPT ![l] = @ + 1]
            /\ entry' = [entry EXCEPT ![t] = sleeping[l][waking[l] + 1]]
            /\ pc' = [pc EXCEPT ![t] = "writing"]
       ELSE UNCHANGED <<waking, entry, pc>>
    /\ UNCHANGED <<closed, sleeping, sockets, result, taken, interrupts, abandoned>>

\* _wake(), after the lock was released.
PutWake(t) ==
    /\ pc[t] = "writing"
    /\ buf' = [buf EXCEPT ![entry[t].sock] = Append(@, entry[t].cookie)]
    /\ pc' = [pc EXCEPT ![t] = "idle"]
    /\ entry' = [entry EXCEPT ![t] = NoEntry(t)]
    /\ UNCHANGED <<shared, idle, created, result, history>>

\* The sleeping threads close() has to write to.
Unwoken(l) == {i \in DOMAIN sleeping[l] : i > waking[l]}

\* close() writes every cookie while it holds the lock.
Close(t, l) ==
    LET Targets == {sleeping[l][i] : i \in Unwoken(l)}
    IN  /\ pc[t] = "idle"
        /\ closed' = [closed EXCEPT ![l] = TRUE]
        /\ buf' = [s \in Sockets |->
                     IF \E e \in Targets : e.sock = s
                     THEN Append(buf[s], (CHOOSE e \in Targets : e.sock = s).cookie)
                     ELSE buf[s]]
        /\ waking' = [waking EXCEPT ![l] = IF Unwoken(l) = {} THEN @
                                           ELSE Len(sleeping[l])]
        /\ UNCHANGED <<queue, sleeping, idle, created, pc, entry, result, history>>

----------------------------------------------------------------------------
Next ==
    \E t \in Threads :
        \/ \E l \in Latches : \/ GetClosed(t, l) \/ GetSpare(t, l)
                              \/ GetNoBlock(t, l) \/ GetSleep(t, l)
                              \/ Close(t, l)
                              \/ \E x \in Items : Put(t, l, x)
        \/ PollReady(t) \/ PollTimeout(t) \/ PollInterrupt(t)
        \/ Resume(t) \/ PutWake(t)

\* A thread inside get() or put() keeps running; nobody has to call anything.
Fairness == \A t \in Threads :
    WF_vars(PollReady(t) \/ PollTimeout(t) \/ Resume(t) \/ PutWake(t))

Spec == Init /\ [][Next]_vars
FairSpec == Spec /\ Fairness

----------------------------------------------------------------------------
(* Properties.  A wait is abandoned when its thread leaves get() although  *)
(* put() assigned it an element (the timeout expired between put()'s       *)
(* critical section and its write), or on CTRL+C: the first three hold     *)
(* until that happens, and LatchTimeoutRace shows why no longer.           *)

\* Neither assertion of _get_sleep() fails and _queue.pop(i) finds its element:
\* the cookie a sleeper receives is its own, and an element was assigned to it.
AssertionsHold ==
    result # <<>> => result[2] \notin {"Cookie incorrect", "No element", "IndexError"}

NoAssertFailure == ~abandoned => AssertionsHold

\* A wake-up of a sleeper is under way: its cookie is in the socketpair, or a
\* put() has left the lock and is about to write it.
Writers(e) == {t \in Threads : pc[t] = "writing" /\ entry[t] = e}
WakeUnderWay(e) == buf[e.sock] # <<>> \/ Writers(e) # {}

\* No lost wake-up: a sleeper of an open latch that nothing is about to wake has
\* no element of the queue at its position.
NoStarvedWaiter ==
    ~abandoned =>
    \A l \in Latches : \A i \in DOMAIN sleeping[l] :
        ~closed[l] /\ ~WakeUnderWay(sleeping[l][i]) => Len(queue[l]) < i

\* The first _waking sleepers of a latch have exactly one wake-up each, with
\* their own cookie, and the others have none.
OneWakeEach ==
    ~abandoned =>
    \A l \in Latches : \A i \in DOMAIN sleeping[l] :
        LET e == sleeping[l][i]
        IN  IF i <= waking[l]
            THEN \/ buf[e.sock] = <<e.cookie>> /\ Writers(e) = {}
                 \/ buf[e.sock] = <<>> /\ \E t \in Threads : Writers(e) = {t}
            ELSE ~WakeUnderWay(e)

\* No item is lost or delivered twice, whatever times out or is interrupted: it
\* has not been put, or it is in one place of one queue, or get() returned it.
Places(x) == {p \in UNION {{l} \X DOMAIN queue[l] : l \in Latches} :
                queue[p[1]][p[2]] = x}

Conservation ==
    \A x \in Items :
        Cardinality(Places(x)) = IF x \in fresh \cup taken THEN 0 ELSE 1
=============================================================================
