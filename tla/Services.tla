------------------------------ MODULE Services ------------------------------
(***************************************************************************)
(* Service requests in a child context: mitogen.core.Dispatcher's stub for *)
(* CALL_SERVICE, mitogen.service.get_or_create_pool(), Pool, Invoker and   *)
(* SerializedInvoker, with the mitogen.select.Select between them.         *)
(*                                                                         *)
(* The broker thread queues each request on the Receiver registered for    *)
(* the handle, then calls that Receiver's notify hook.  Until a pool       *)
(* exists the hook asks the main thread to build one; the constructor      *)
(* takes the handle over and points both Receivers' hooks at a Select, on  *)
(* which worker threads sleep.  Latches are the hand-off queues of         *)
(* HandOff.tla; everything else shared is read and written without a lock  *)
(* unless an action says so, one access per action.                        *)
(***************************************************************************)
EXTENDS Naturals, Sequences, FiniteSets

CONSTANTS
    Workers,        \* threads of the pool
    Services,       \* service classes, none activated yet
    Serialized,     \* those whose invoker_class is SerializedInvoker
    Requests,       \* CALL_SERVICE messages, each received once
    ServiceOf,      \* [Requests -> Services]
    Unprivileged,   \* requests without parent authority
    Calling,        \* requests whose method waits for a reply from another context
    Fetched         \* services whose module must be fetched to activate them

ASSUME ServicesAssumption ==
    /\ Serialized \subseteq Services /\ Fetched \subseteq Services
    /\ ServiceOf \in [Requests -> Services]
    /\ Unprivileged \subseteq Requests /\ Calling \subseteq Requests /\ IsFiniteSet(Workers)

\* The Receiver of the Dispatcher and the one the Pool makes for itself.
Receivers == {"stub", "pool"}

\* Invoker objects: activating a service makes two, one in Pool.add() and
\* one in Pool.get_invoker().
Invokers == Services \X {1, 2}
SerialInvokers == Serialized \X {1, 2}

None == "none"
NoInvoker == <<>>
ASSUME NoneAssumption == None \notin Requests

VARIABLES
    fresh,      \* requests not received yet
    answers,    \* history: [Requests -> replies sent to it]
    handler,    \* the Receiver registered for CALL_SERVICE
    waiting,    \* [Receivers -> queue of its Latch]
    notify,     \* [Receivers -> the notify hook]
    inbox,      \* STUB_CALL_SERVICE messages queued for the main thread
    inboxOpen,  \* Dispatcher.recv has not been closed
    main,       \* where the main thread is in Pool.__init__()
    left,       \* receivers Select.add() has yet to announce
    events,     \* queue of the Select's Latch
    stage,      \* how far Pool.stop() is: 1 Pool.closed, 2 own Receiver closed,
                \* 3 Select's receivers removed, 4 Select's Latch closed
    listening,  \* stop() is on the broker's list of 'shutdown' listeners
    bpc,        \* what the broker thread is doing
    msg, dest,  \* the request it delivers, and the Receiver it delivers it to
    shutdown,   \* the 'shutdown' signal: "no", "firing", "fired" or "raised"
    pc,         \* [Workers -> where the thread is]
    cur,        \* [Workers -> request (or, at "pop", Receiver) it holds]
    inv,        \* [Workers -> invoker it uses]
    invokers,   \* [Services -> entries of Pool._invoker_by_name, a history]
    lock,       \* the worker that holds Pool._lock
    queue,      \* [Invokers -> SerializedInvoker._queue]
    running     \* [Invokers -> SerializedInvoker._running]

intake == <<fresh, handler, waiting, notify, inbox, inboxOpen>>
builder == <<main, left, listening>>
broker == <<bpc, msg, dest, shutdown>>
select == <<events, stage>>
activation == <<invokers, lock>>
serial == <<queue, running>>
worker == <<pc, cur, inv>>
vars == <<intake, answers, builder, broker, select, activation, serial, worker>>

Constructing == {"overwrite", "own", "count own", "announce own", "unstub", "adopt",
                 "count stub", "announce stub", "spawn", "listen"}
Executing == {"run", "await", "return"}

IntakeTypes ==
    /\ fresh \subseteq Requests
    /\ handler \in Receivers \cup {None}
    /\ waiting \in [Receivers -> Seq(Requests)]
    /\ notify \in [Receivers -> {None, "stub", "select"}]
    /\ inbox \in Nat /\ inboxOpen \in BOOLEAN

BuilderTypes ==
    /\ main \in {"idle", "done"} \cup Constructing
    /\ left \in Nat
    /\ listening \in BOOLEAN

BrokerTypes ==
    /\ bpc \in {"idle", "put", "check", "notify", "hook", "unhook", "close", "next", "stop"}
    /\ msg \in Requests \cup {None} /\ dest \in Receivers
    /\ bpc = "put" => msg \in Requests
    /\ shutdown \in {"no", "firing", "fired", "raised"}

SelectTypes == events \in Seq(Receivers) /\ stage \in 0..4

ActivationTypes == invokers \in [Services -> Seq(Invokers)] /\ lock \in Workers \cup {None}

SerialTypes == queue \in [Invokers -> Seq(Requests)] /\ running \in [Invokers -> BOOLEAN]

Places == {"unborn", "loop", "get", "pop", "lookup", "lock", "fetch", "add", "register",
           "invoke", "drain", "exited"} \cup Executing

\* What a worker holds depends on where it is.
Holds(w) ==
    /\ pc[w] = "pop" => cur[w] \in Receivers
    /\ pc[w] \in Executing \cup {"lookup", "lock", "fetch", "add", "register", "invoke"} =>
        cur[w] \in Requests
    /\ pc[w] \in Executing \cup {"invoke", "drain"} => inv[w] \in Invokers

WorkerTypes ==
    /\ pc \in [Workers -> Places]
    /\ cur \in [Workers -> Requests \cup Receivers \cup {None}]
    /\ inv \in [Workers -> Invokers \cup {NoInvoker}]
    /\ \A w \in Workers : Holds(w)

TypeOK ==
    /\ IntakeTypes /\ BuilderTypes /\ BrokerTypes /\ SelectTypes
    /\ ActivationTypes /\ SerialTypes /\ WorkerTypes
    /\ answers \in [Requests -> Nat]

Init ==
    /\ fresh = Requests
    /\ answers = [r \in Requests |-> 0]
    /\ handler = "stub"
    /\ waiting = [c \in Receivers |-> <<>>]
    /\ notify = [c \in Receivers |-> IF c = "stub" THEN "stub" ELSE None]
    /\ inbox = 0 /\ inboxOpen = TRUE
    /\ main = "idle" /\ left = 0 /\ listening = FALSE
    /\ events = <<>> /\ stage = 0
    /\ bpc = "idle" /\ msg = None /\ dest = "stub" /\ shutdown = "no"
    /\ pc = [w \in Workers |-> "unborn"]
    /\ cur = [w \in Workers |-> None]
    /\ inv = [w \in Workers |-> NoInvoker]
    /\ invokers = [s \in Services |-> <<>>]
    /\ lock = None
    /\ queue = [i \in Invokers |-> <<>>]
    /\ running = [i \in Invokers |-> FALSE]

Answer(r) == answers' = [answers EXCEPT ![r] = @ + 1]

----------------------------------------------------------------------------
(* The broker thread delivers a request.                                   *)

\* _invoke(): no handler, or the stub's has_parent_authority policy refuses.
Refused(r) == handler = None \/ (handler = "stub" /\ r \in Unprivileged)

Receive(r) ==
    /\ bpc = "idle" /\ r \in fresh
    /\ fresh' = fresh \ {r}
    /\ IF Refused(r)
       THEN Answer(r) /\ UNCHANGED <<bpc, msg, dest>>
       ELSE bpc' = "put" /\ msg' = r /\ dest' = handler /\ UNCHANGED answers
    /\ UNCHANGED <<handler, waiting, notify, inbox, inboxOpen, builder, shutdown, select,
                   activation, serial, worker>>

\* Receiver._on_receive(): self._latch.put(msg)
Put ==
    /\ bpc = "put"
    /\ waiting' = [waiting EXCEPT ![dest] = Append(@, msg)]
    /\ bpc' = "check" /\ msg' = None
    /\ UNCHANGED <<fresh, answers, handler, notify, inbox, inboxOpen, builder, dest, shutdown,
                   select, activation, serial, worker>>

\* if self.notify:
CheckNotify ==
    /\ bpc = "check"
    /\ bpc' = IF notify[dest] = None THEN "idle" ELSE "notify"
    /\ UNCHANGED <<intake, answers, builder, msg, dest, shutdown, select, activation, serial,
                   worker>>

\* self.notify(self), a second read: Select._put(), the Dispatcher's
\* _on_call_service(), or a TypeError that Router._invoke() logs.
CallNotify ==
    /\ bpc = "notify"
    /\ bpc' = "idle"
    /\ events' = IF notify[dest] = "select" THEN Append(events, dest) ELSE events
    /\ inbox' = IF notify[dest] = "stub" /\ inboxOpen THEN inbox + 1 ELSE inbox
    /\ UNCHANGED <<fresh, answers, handler, waiting, notify, inboxOpen, builder, msg, dest,
                   shutdown, stage, activation, serial, worker>>

\* The reply an executing method, or an import, waits for.
ReplyArrives(w) ==
    /\ bpc = "idle" /\ pc[w] \in {"await", "fetch"}
    /\ pc' = [pc EXCEPT ![w] = IF pc[w] = "await" THEN "return" ELSE "add"]
    /\ UNCHANGED <<intake, answers, builder, broker, select, activation, serial, cur, inv>>

----------------------------------------------------------------------------
(* The broker thread fires 'shutdown'.                                     *)

ShutdownFires ==
    /\ bpc = "idle" /\ shutdown = "no"
    /\ bpc' = "hook" /\ shutdown' = "firing"
    /\ UNCHANGED <<intake, answers, builder, msg, dest, select, activation, serial, worker>>

\* Dispatcher._on_broker_shutdown(): the test and the assignment.
TestHook ==
    /\ bpc = "hook"
    /\ bpc' = IF notify["stub"] = "stub" THEN "unhook" ELSE "close"
    /\ UNCHANGED <<intake, answers, builder, msg, dest, shutdown, select, activation, serial,
                   worker>>

Unhook ==
    /\ bpc = "unhook"
    /\ notify' = [notify EXCEPT !["stub"] = None]
    /\ bpc' = "close"
    /\ UNCHANGED <<fresh, answers, handler, waiting, inbox, inboxOpen, builder, msg, dest,
                   shutdown, select, activation, serial, worker>>

CloseInbox ==
    /\ bpc = "close"
    /\ inboxOpen' = FALSE
    /\ bpc' = "next"
    /\ UNCHANGED <<fresh, answers, handler, waiting, notify, inbox, builder, msg, dest,
                   shutdown, select, activation, serial, worker>>

\* fire() calls the pool's listener if it is on the list by now.
NextListener ==
    /\ bpc = "next"
    /\ IF listening
       THEN bpc' = "stop" /\ UNCHANGED shutdown
       ELSE bpc' = "idle" /\ shutdown' = "fired"
    /\ UNCHANGED <<intake, answers, builder, msg, dest, select, activation, serial, worker>>

\* Pool.stop(): self.closed = True; self._receiver.close()
StopFlag ==
    /\ bpc = "stop" /\ stage = 0
    /\ stage' = 1
    /\ UNCHANGED <<intake, answers, builder, broker, events, activation, serial, worker>>

StopReceiver ==
    /\ bpc = "stop" /\ stage = 1
    /\ stage' = 2 /\ handler' = None
    /\ UNCHANGED <<fresh, answers, waiting, notify, inbox, inboxOpen, builder, broker, events,
                   activation, serial, worker>>

\* Select.close() removes every receiver; remove() raises if its hook is not the
\* Select's, and stop() ends there.
Detach ==
    /\ bpc = "stop" /\ stage = 2
    /\ IF notify["stub"] = "select"
       THEN /\ notify' = [c \in Receivers |-> None] /\ stage' = 3
            /\ UNCHANGED <<bpc, shutdown>>
       ELSE /\ notify' = [notify EXCEPT !["pool"] = None] /\ UNCHANGED stage
            /\ bpc' = "idle" /\ shutdown' = "raised"
    /\ UNCHANGED <<fresh, answers, handler, waiting, inbox, inboxOpen, builder, msg, dest,
                   events, activation, serial, worker>>

CloseSelect ==
    /\ bpc = "stop" /\ stage = 3
    /\ stage' = 4
    /\ UNCHANGED <<intake, answers, builder, broker, events, activation, serial, worker>>

AllJoined == \A w \in Workers : pc[w] = "exited"

Joined ==
    /\ bpc = "stop" /\ stage = 4
    /\ AllJoined
    /\ bpc' = "idle" /\ shutdown' = "fired"
    /\ UNCHANGED <<intake, answers, builder, msg, dest, select, activation, serial, worker>>

----------------------------------------------------------------------------
(* The main thread: Dispatcher._dispatch_calls() and Pool.__init__().      *)

MainGoes(label) == main' = label

\* Take a STUB_CALL_SERVICE message; get_or_create_pool() builds one pool only.
TakeSentinel ==
    /\ main = "idle" /\ inboxOpen /\ inbox > 0
    /\ inbox' = inbox - 1
    /\ MainGoes(IF listening THEN "idle" ELSE "overwrite")
    /\ UNCHANGED <<fresh, answers, handler, waiting, notify, inboxOpen, left, listening, broker,
                   select, activation, serial, worker>>

MainEnds ==
    /\ main = "idle" /\ ~inboxOpen
    /\ MainGoes("done")
    /\ UNCHANGED <<intake, answers, left, listening, broker, select, activation, serial, worker>>

\* Receiver(handle=CALL_SERVICE, overwrite=True)
Overwrite ==
    /\ main = "overwrite"
    /\ handler' = "pool"
    /\ MainGoes("own")
    /\ UNCHANGED <<fresh, answers, waiting, notify, inbox, inboxOpen, left, listening, broker,
                   select, activation, serial, worker>>

\* recv.notify = None, before the stub's Receiver joins the Select.
Unstub ==
    /\ main = "unstub"
    /\ notify' = [notify EXCEPT !["stub"] = None]
    /\ MainGoes("adopt")
    /\ UNCHANGED <<fresh, answers, handler, waiting, inbox, inboxOpen, left, listening, broker,
                   select, activation, serial, worker>>

\* Select.add(): install the hook, read recv.size(), announce that many items.
AddHook(c, at, next) ==
    /\ main = at
    /\ notify' = [notify EXCEPT ![c] = "select"]
    /\ MainGoes(next)
    /\ UNCHANGED <<fresh, answers, handler, waiting, inbox, inboxOpen, left, listening, broker,
                   select, activation, serial, worker>>

Queued(c) == Len(waiting[c])

CountQueued(c, at, next) ==
    /\ main = at
    /\ left' = Queued(c)
    /\ MainGoes(next)
    /\ UNCHANGED <<intake, answers, listening, broker, select, activation, serial, worker>>

Announce(c, at, next) ==
    /\ main = at
    /\ IF left = 0
       THEN MainGoes(next) /\ UNCHANGED <<left, events>>
       ELSE left' = left - 1 /\ events' = Append(events, c) /\ UNCHANGED main
    /\ UNCHANGED <<intake, answers, listening, broker, stage, activation, serial, worker>>

\* thread.start() for each worker.
StartWorker(w) ==
    /\ main = "spawn" /\ pc[w] = "unborn"
    /\ pc' = [pc EXCEPT ![w] = "loop"]
    /\ MainGoes(IF \A v \in Workers \ {w} : pc[v] # "unborn" THEN "listen" ELSE "spawn")
    /\ UNCHANGED <<intake, answers, left, listening, broker, select, activation, serial, cur, inv>>

\* listen(router.broker, 'shutdown', lambda: _pool.stop(join=True))
Listen ==
    /\ main = "listen"
    /\ listening' = TRUE
    /\ MainGoes("idle")
    /\ UNCHANGED <<intake, answers, left, broker, select, activation, serial, worker>>

MainStep ==
    \/ TakeSentinel \/ MainEnds \/ Overwrite \/ Unstub \/ Listen
    \/ AddHook("pool", "own", "count own") \/ CountQueued("pool", "count own", "announce own")
    \/ Announce("pool", "announce own", "unstub")
    \/ AddHook("stub", "adopt", "count stub") \/ CountQueued("stub", "count stub", "announce stub")
    \/ Announce("stub", "announce stub", "spawn")
    \/ \E w \in Workers : StartWorker(w)

----------------------------------------------------------------------------
(* Workers: Pool._worker_run() and Select.get_event().                     *)

Loop(w) ==
    /\ pc[w] = "loop"
    /\ pc' = [pc EXCEPT ![w] = IF stage >= 1 THEN "exited" ELSE "get"]
    /\ UNCHANGED <<intake, answers, builder, broker, select, activation, serial, cur, inv>>

\* get_event() ends the thread: select.Error if the receivers are gone already,
\* LatchError once the Latch is closed.  (A thread past the first test could still
\* take an event at stage 3: the same as taking it at stage 2.)
SelectClosed == stage >= 3

GetEvent(w) ==
    /\ pc[w] = "get"
    /\ IF SelectClosed
       THEN pc' = [pc EXCEPT ![w] = "exited"] /\ UNCHANGED <<events, cur>>
       ELSE /\ events # <<>>
            /\ events' = Tail(events)
            /\ cur' = [cur EXCEPT ![w] = Head(events)]
            /\ pc' = [pc EXCEPT ![w] = "pop"]
    /\ UNCHANGED <<intake, answers, builder, broker, stage, activation, serial, inv>>

\* Mutant: an event for a Receiver another thread drained ends the thread.
RetryEnds == "exited"

\* TimeoutError: continue, that is wait for the next event.
Retry == "get"

\* recv.get(block=False), which raises ChannelError on a closed Receiver.
PopRequest(w) ==
    LET c == cur[w]
    IN  /\ pc[w] = "pop"
        /\ IF c = "pool" /\ stage >= 2
           THEN /\ pc' = [pc EXCEPT ![w] = "exited"]
                /\ cur' = [cur EXCEPT ![w] = None] /\ UNCHANGED waiting
           ELSE IF waiting[c] = <<>>
           THEN /\ pc' = [pc EXCEPT ![w] = Retry]
                /\ cur' = [cur EXCEPT ![w] = None] /\ UNCHANGED waiting
           ELSE /\ waiting' = [waiting EXCEPT ![c] = Tail(@)]
                /\ cur' = [cur EXCEPT ![w] = Head(waiting[c])]
                /\ pc' = [pc EXCEPT ![w] = "lookup"]
        /\ UNCHANGED <<fresh, answers, handler, notify, inbox, inboxOpen, builder, broker, select,
                       activation, serial, inv>>

----------------------------------------------------------------------------
(* Pool.get_invoker() and Activator.activate().                            *)

Active(s) == invokers[s] # <<>>
Current(s) == invokers[s][Len(invokers[s])]

\* The first, unlocked _invoker_by_name.get(name).
Lookup(w) ==
    LET s == ServiceOf[cur[w]]
    IN  /\ pc[w] = "lookup"
        /\ IF Active(s)
           THEN pc' = [pc EXCEPT ![w] = "invoke"] /\ inv' = [inv EXCEPT ![w] = Current(s)]
           ELSE pc' = [pc EXCEPT ![w] = "lock"] /\ UNCHANGED inv
        /\ UNCHANGED <<intake, answers, builder, broker, select, activation, serial, cur>>

\* Back to the loop, holding nothing.
Rest(w) ==
    /\ pc' = [pc EXCEPT ![w] = "loop"]
    /\ cur' = [cur EXCEPT ![w] = None]
    /\ inv' = [inv EXCEPT ![w] = NoInvoker]

\* Pool._lock taken, the second get(name), and what follows: use the invoker,
\* reply that activation is not permitted, or start to activate.
LockAndLookup(w) ==
    LET s == ServiceOf[cur[w]]
    IN  /\ pc[w] = "lock" /\ lock = None
        /\ \/ /\ Active(s)
              /\ pc' = [pc EXCEPT ![w] = "invoke"]
              /\ inv' = [inv EXCEPT ![w] = Current(s)]
              /\ UNCHANGED <<answers, lock, cur>>
           \/ /\ ~Active(s) /\ cur[w] \in Unprivileged
              /\ Answer(cur[w]) /\ Rest(w)
              /\ UNCHANGED lock
           \/ /\ ~Active(s) /\ cur[w] \notin Unprivileged
              /\ lock' = w
              /\ pc' = [pc EXCEPT ![w] = IF s \in Fetched THEN "fetch" ELSE "add"]
              /\ UNCHANGED <<answers, cur, inv>>
        /\ UNCHANGED <<intake, builder, broker, select, invokers, serial>>

\* pool.add(service), with an invoker of its own.
AddService(w) ==
    LET s == ServiceOf[cur[w]]
    IN  /\ pc[w] = "add"
        /\ invokers' = [invokers EXCEPT ![s] = Append(@, <<s, 1>>)]
        /\ pc' = [pc EXCEPT ![w] = "register"]
        /\ UNCHANGED <<intake, answers, builder, broker, select, lock, serial, cur, inv>>

\* get_invoker() replaces it with another invoker for the same service.
Register(w) ==
    LET s == ServiceOf[cur[w]]
    IN  /\ pc[w] = "register"
        /\ invokers' = [invokers EXCEPT ![s] = Append(@, <<s, 2>>)]
        /\ lock' = None
        /\ inv' = [inv EXCEPT ![w] = <<s, 2>>]
        /\ pc' = [pc EXCEPT ![w] = "invoke"]
        /\ UNCHANGED <<intake, answers, builder, broker, select, serial, cur>>

----------------------------------------------------------------------------
(* Invoker.invoke() and SerializedInvoker.invoke(), ._run().               *)

Invoke(w) ==
    /\ pc[w] = "invoke" /\ inv[w][1] \notin Serialized
    /\ pc' = [pc EXCEPT ![w] = "run"]
    /\ UNCHANGED <<intake, answers, builder, broker, select, activation, serial, cur, inv>>

\* Mutant: invoke() returns None, to which Invoker.invoke() would reply.
AnswerNone(r) == Answer(r)

\* It returns NO_REPLY: the thread that runs the queue replies.
NoReply(r) == UNCHANGED answers

\* Under the invoker's _lock: queue the request, run the queue if nobody does.
Enqueue(w) ==
    LET i == inv[w]
    IN  /\ pc[w] = "invoke" /\ i[1] \in Serialized
        /\ queue' = [queue EXCEPT ![i] = Append(@, cur[w])]
        /\ running' = [running EXCEPT ![i] = TRUE]
        /\ NoReply(cur[w])
        /\ IF running[i]
           THEN Rest(w)
           ELSE /\ pc' = [pc EXCEPT ![w] = "drain"]
                /\ cur' = [cur EXCEPT ![w] = None] /\ UNCHANGED inv
        /\ UNCHANGED <<intake, builder, broker, select, activation>>

\* Mutant: an empty queue does not reset _running.
StaysRunning == TRUE

\* _pop() found the queue empty.
StillRunning == FALSE

Drain(w) ==
    LET i == inv[w]
    IN  /\ pc[w] = "drain"
        /\ IF queue[i] = <<>>
           THEN /\ running' = [running EXCEPT ![i] = StillRunning]
                /\ Rest(w) /\ UNCHANGED queue
           ELSE /\ queue' = [queue EXCEPT ![i] = Tail(@)]
                /\ cur' = [cur EXCEPT ![w] = Head(queue[i])]
                /\ pc' = [pc EXCEPT ![w] = "run"]
                /\ UNCHANGED <<running, inv>>
        /\ UNCHANGED <<intake, answers, builder, broker, select, activation>>

\* The method asks another context something.
Ask(w) ==
    /\ pc[w] = "run" /\ cur[w] \in Calling
    /\ pc' = [pc EXCEPT ![w] = "await"]
    /\ UNCHANGED <<intake, answers, builder, broker, select, activation, serial, cur, inv>>

\* The method returns, or raises: either way msg.reply() is called once.
Return(w) ==
    /\ pc[w] = "return" \/ (pc[w] = "run" /\ cur[w] \notin Calling)
    /\ Answer(cur[w])
    /\ IF inv[w][1] \in Serialized
       THEN /\ pc' = [pc EXCEPT ![w] = "drain"]
            /\ cur' = [cur EXCEPT ![w] = None] /\ UNCHANGED inv
       ELSE Rest(w)
    /\ UNCHANGED <<intake, builder, broker, select, activation, serial>>

----------------------------------------------------------------------------
WorkerStep(w) ==
    \/ Loop(w) \/ GetEvent(w) \/ PopRequest(w)
    \/ Lookup(w) \/ LockAndLookup(w) \/ AddService(w) \/ Register(w)
    \/ Invoke(w) \/ Enqueue(w) \/ Drain(w) \/ Ask(w) \/ Return(w)

PoolStep == \E w \in Workers : WorkerStep(w)

BrokerStep ==
    \/ Put \/ CheckNotify \/ CallNotify
    \/ TestHook \/ Unhook \/ CloseInbox \/ NextListener
    \/ StopFlag \/ StopReceiver \/ Detach \/ CloseSelect \/ Joined
    \/ \E w \in Workers : ReplyArrives(w)

Next ==
    \/ \E r \in Requests : Receive(r)
    \/ PoolStep \/ MainStep \/ BrokerStep \/ ShutdownFires

\* The broker thread, the main thread and the pool run, and a reply arrives: if
\* its context is gone, a dead one.  Requests are finitely many, so no thread can
\* be kept waiting by the others for ever.  Nothing obliges a request to come or
\* the broker to shut down.
Fairness == WF_vars(BrokerStep) /\ WF_vars(MainStep) /\ WF_vars(PoolStep)

Spec == Init /\ [][Next]_vars
FairSpec == Spec /\ Fairness

----------------------------------------------------------------------------
(* Properties.                                                             *)

\* Select.add() against a concurrent _on_receive(): while nobody shuts down,
\* a Receiver whose hook is the Select's has no more requests queued than
\* there are events for it, in the Select's Latch, with a worker, or about to
\* be put by the broker thread or the thread in Select.add().
CountIn(s, c) == Cardinality({i \in DOMAIN s : s[i] = c})
ToCount(c) == (c = "pool" /\ main = "count own") \/ (c = "stub" /\ main = "count stub")
ToAnnounce(c) ==
    IF (c = "pool" /\ main = "announce own") \/ (c = "stub" /\ main = "announce stub")
    THEN left ELSE 0

NoRequestUnannounced ==
    shutdown = "no" =>
        \A c \in Receivers : notify[c] = "select" /\ ~ToCount(c) =>
            Len(waiting[c]) <=
                CountIn(events, c) + ToAnnounce(c)
                + Cardinality({w \in Workers : pc[w] = "pop" /\ cur[w] = c})
                + (IF dest = c /\ bpc \in {"check", "notify"} THEN 1 ELSE 0)

\* A request gets one reply at most, whichever receiver, worker and invoker
\* it went through.
AnsweredOnce == \A r \in Requests : answers[r] <= 1

\* Every request is announced until somebody takes it, and answered no more than once.
RequestsAccounted == NoRequestUnannounced /\ AnsweredOnce

\* SerializedInvoker: one thread at a time runs an invoker's queue, and a queue
\* that is not empty has one.
Runs(w, i) == pc[w] \in Executing \cup {"drain"} /\ inv[w] = i

OneRunner ==
    \A i \in SerialInvokers :
        /\ \A v, w \in Workers : Runs(v, i) /\ Runs(w, i) => v = w
        /\ queue[i] # <<>> => \E w \in Workers : Runs(w, i)

\* Requests that reached the context are answered, unless it shuts down: it is
\* again and again without an unanswered one (there are finitely many).
Unanswered == {r \in Requests \ fresh : answers[r] = 0}

RequestsAnswered == []<>(Unanswered = {} \/ shutdown # "no")

\* stop(join=True) returns unless a worker waits for a reply that only the
\* broker thread, which runs stop(), could deliver.
StopStuckOnlyByWaiting ==
    bpc = "stop" ~> (bpc # "stop" \/ \E w \in Workers : pc[w] \in {"await", "fetch"})

\* Neither a caller nor stop() waits for ever, but for that.
NobodyWaitsForever == RequestsAnswered /\ StopStuckOnlyByWaiting

\* SerializedInvoker: "serialization of all calls on a single thread borrowed
\* from the pool while any request is pending".
CallsSerialized ==
    \A v, w \in Workers :
        pc[v] \in Executing /\ pc[w] \in Executing /\ inv[v][1] = inv[w][1]
            /\ inv[v][1] \in Serialized => v = w

\* Broker.shutdown(): "Request broker gracefully disconnect streams and stop":
\* the signal's listeners return, so that the broker goes on to do that.
ShutdownProceeds == shutdown = "firing" ~> shutdown # "firing"
=============================================================================
