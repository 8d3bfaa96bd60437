------------------------------- MODULE Broker -------------------------------
(***************************************************************************)
(* mitogen.core.Broker, Waker and Poller (src/mitogen/core.py): the I/O    *)
(* thread.  Other threads hand it functions through Waker.defer(), a deque *)
(* and a self-pipe; it polls descriptors in rounds, runs deferred          *)
(* functions on the broker thread, and winds down through a grace period.  *)
(* User threads and the broker thread interleave at every point where the  *)
(* code gives up the GIL between two accesses to what they share.          *)
(*                                                                         *)
(* Only the receive side of a stream is modelled: its descriptor is        *)
(* registered from start_receive() to on_disconnect().                     *)
(***************************************************************************)
EXTENDS Naturals, Sequences, FiniteSets

CONSTANTS
    Users,      \* threads other than the broker's
    Calls,      \* defer() calls they make, each once
    KindOf,     \* [Calls -> Kinds]: what the deferred function does
    Streams,    \* streams that may be opened
    Prompt,     \* streams whose protocol disconnects as soon as it is told
                \* to shut down (Protocol.on_shutdown); the others wait for
                \* their peer (MitogenProtocol.on_shutdown)
    Passive,    \* streams whose receive side has keep_alive = False
    Raising,    \* streams that have a 'disconnect' listener that may raise
    FDs,        \* descriptors streams are given, reused once closed
    PipeSize    \* bytes the self-pipe holds before write() would block

ASSUME BrokerAssumption ==
    /\ Prompt \subseteq Streams /\ Passive \subseteq Streams /\ Raising \subseteq Streams
    /\ FDs # {} /\ Calls # {}
    /\ PipeSize \in Nat \ {0}

Waker == "waker"
WakerFD == "waker_fd"
Nobody == "nobody"
ASSUME NamesAssumption == Waker \notin Streams /\ Nobody \notin Streams /\ WakerFD \notin FDs

Descriptors == FDs \cup {WakerFD}

\* The value of doing[u] outside defer().
NoCall == CHOOSE c \in Calls : TRUE

\* What a deferred function may do: raise, open a stream, disconnect one if there
\* is one, or be the function Broker.shutdown() defers.
Kinds == {"raise", "open", "close", "shutdown"}
ASSUME KindAssumption == KindOf \in [Calls -> Kinds]

VARIABLES
    alive,      \* Broker._alive
    exitted,    \* Broker._exitted
    phase,      \* where the broker thread is
    rfds,       \* Poller._rfds: [Descriptors -> stream registered for receive]
    born,       \* descriptors registered since the last poll(): their
                \* generation is the poller's current one
    ready,      \* descriptors the current poll() has yet to yield
    todo,       \* streams a shutdown or exit loop has yet to visit
    fd,         \* [Streams -> descriptor], once opened
    life,       \* [Streams -> "unopened", "open", "closed"]
    deferred,   \* Waker._deferred, oldest first
    pipe,       \* bytes in the self-pipe
    pc,         \* where each user thread is in defer()
    doing,      \* the call each user thread is making
    fate,       \* history: what became of each defer() call
    polled      \* history: rfds when the current round was polled

thread == <<pc, doing, fate>>
poller == <<rfds, born, ready, polled>>
stream == <<fd, life>>
queue == <<deferred, pipe>>
vars == <<alive, exitted, phase, poller, todo, stream, queue, thread>>

Registered == {rfds[d] : d \in Descriptors} \ {Nobody}

TypeOK ==
    /\ alive \in BOOLEAN /\ exitted \in BOOLEAN
    /\ phase \in {"loop", "round", "drain", "shutting", "grace", "exiting", "stopped", "aborted"}
    /\ rfds \in [Descriptors -> Streams \cup {Waker, Nobody}]
    /\ polled \in [Descriptors -> Streams \cup {Waker, Nobody}]
    /\ born \subseteq Descriptors /\ ready \subseteq Descriptors
    /\ todo \subseteq Streams \cup {Waker}
    /\ fd \in [Streams -> FDs]
    /\ life \in [Streams -> {"unopened", "open", "closed"}]
    /\ deferred \in Seq(Calls)
    /\ pipe \in 0..PipeSize
    /\ pc \in [Users -> {"idle", "checked", "appended"}]
    /\ doing \in [Users -> Calls]
    /\ fate \in [Calls -> {"none", "accepted", "late", "raised", "ignored", "ran"}]

Init ==
    /\ alive = TRUE /\ exitted = FALSE
    /\ phase = "loop"
    /\ rfds = [d \in Descriptors |-> IF d = WakerFD THEN Waker ELSE Nobody]
    /\ polled = rfds
    /\ born = {} /\ ready = {} /\ todo = {}
    /\ fd = [s \in Streams |-> CHOOSE d \in FDs : TRUE]
    /\ life = [s \in Streams |-> "unopened"]
    /\ deferred = <<>> /\ pipe = 0
    /\ pc = [u \in Users |-> "idle"]
    /\ doing = [u \in Users |-> NoCall]
    /\ fate = [c \in Calls |-> "none"]

----------------------------------------------------------------------------
(* User threads: defer() and shutdown().                                   *)

\* defer() tests _exitted only.
MayDefer == ~exitted

\* The tests at the head of shutdown() and defer(), before anything is queued.
Call(u, c) ==
    /\ pc[u] = "idle"
    /\ fate[c] = "none"
    /\ IF KindOf[c] = "shutdown" /\ ~alive
       THEN fate' = [fate EXCEPT ![c] = "ignored"] /\ UNCHANGED <<pc, doing>>
       ELSE IF ~MayDefer
       THEN fate' = [fate EXCEPT ![c] = "raised"] /\ UNCHANGED <<pc, doing>>
       ELSE /\ fate' = [fate EXCEPT ![c] = IF alive THEN "accepted" ELSE "late"]
            /\ pc' = [pc EXCEPT ![u] = "checked"]
            /\ doing' = [doing EXCEPT ![u] = c]
    /\ UNCHANGED <<alive, exitted, phase, poller, todo, stream, queue>>

Enqueue(u) ==
    /\ pc[u] = "checked"
    /\ deferred' = Append(deferred, doing[u])
    /\ pc' = [pc EXCEPT ![u] = "appended"]
    /\ UNCHANGED <<alive, exitted, phase, poller, todo, stream, pipe, doing, fate>>

\* Mutant: a byte is written only for the first function in the deque.
WritesForFirst == Len(deferred) = 1

\* defer() writes a byte for every function.
Writes == TRUE

Room == pipe < PipeSize

\* Waker._wake(): one byte, unless the pipe is full or closed.
Wake(u) ==
    /\ pc[u] = "appended"
    /\ pipe' = IF Writes /\ Waker \in Registered /\ Room THEN pipe + 1 ELSE pipe
    /\ pc' = [pc EXCEPT ![u] = "idle"]
    /\ doing' = [doing EXCEPT ![u] = NoCall]
    /\ UNCHANGED <<alive, exitted, phase, poller, todo, stream, deferred, fate>>

----------------------------------------------------------------------------
(* Streams.                                                                *)

\* A new descriptor is one no open stream has; the kernel may reuse it at once.
FreeFDs == FDs \ {fd[s] : s \in {x \in Streams : life[x] = "open"}}

\* Broker.start_receive() on the broker thread, for a stream just opened.
Open(s, d) ==
    /\ life[s] = "unopened"
    /\ d \in FreeFDs
    /\ life' = [life EXCEPT ![s] = "open"]
    /\ fd' = [fd EXCEPT ![s] = d]
    /\ rfds' = [rfds EXCEPT ![d] = s]
    /\ born' = born \cup {d}

FDOf(x) == IF x = Waker THEN WakerFD ELSE fd[x]

\* Protocol.on_disconnect(): unregister, then close.  A stream that was closed
\* before is unregistered again by its old descriptor number.
Disconnect(x) ==
    /\ rfds' = [rfds EXCEPT ![FDOf(x)] = Nobody]
    /\ born' = born \ {FDOf(x)}
    /\ life' = IF x = Waker THEN life ELSE [life EXCEPT ![x] = "closed"]
    /\ UNCHANGED fd

----------------------------------------------------------------------------
(* The broker thread: Poller.poll() and _loop_once().                      *)

\* The peer closed, sent something, or something went wrong: a stream may turn
\* readable at any time; the self-pipe when a byte is in it.
Readable(d) == IF d = WakerFD THEN pipe > 0 ELSE TRUE

Holding == {x \in Registered : x \notin Passive}

\* One poll(): a new generation, and the descriptors the kernel found readable.
Poll(R) ==
    /\ phase \in {"loop", "grace"}
    /\ phase = "loop" => alive
    /\ phase = "grace" => Holding # {}
    /\ R \subseteq {d \in Descriptors : rfds[d] # Nobody /\ Readable(d)}
    /\ pipe > 0 /\ rfds[WakerFD] = Waker => WakerFD \in R
    /\ R # {}
    /\ ready' = R
    /\ born' = {}
    /\ polled' = rfds
    /\ phase' = "round"
    /\ UNCHANGED <<alive, exitted, rfds, todo, stream, queue, thread>>

\* Mutant: registrations made during the round are yielded like the others.
YieldedAnyAge(d) == rfds[d] # Nobody

\* poll() yields a descriptor only if it is still registered, by a
\* registration older than this poll().
Yielded(d) == rfds[d] # Nobody /\ d \notin born

Skip(d) ==
    /\ phase = "round" /\ d \in ready /\ ~Yielded(d)
    /\ ready' = ready \ {d}
    /\ UNCHANGED <<alive, exitted, phase, rfds, born, polled, todo, stream, queue, thread>>

\* Waker.on_receive(): one byte read, then every deferred function is run.
OnWaker ==
    /\ phase = "round" /\ WakerFD \in ready /\ Yielded(WakerFD)
    /\ ready' = ready \ {WakerFD}
    /\ pipe' = pipe - 1
    /\ phase' = "drain"
    /\ UNCHANGED <<alive, exitted, rfds, born, polled, todo, stream, deferred, thread>>

\* Stream.on_receive() of any other stream: its handler does nothing modelled
\* here, opens a stream, calls Broker.shutdown(), or disconnects a stream: its
\* own (empty read, or an exception caught by _call()) or another one, as a
\* Connection does with the stderr stream beside it.
OnStream(d, effect) ==
    /\ phase = "round" /\ d \in ready \ {WakerFD} /\ Yielded(d)
    /\ ready' = ready \ {d}
    /\ \/ effect = "message" /\ UNCHANGED <<alive, rfds, born, stream>>
       \/ effect = "shutdown" /\ alive' = FALSE /\ UNCHANGED <<rfds, born, stream>>
       \/ effect = "accept" /\ UNCHANGED alive
          /\ \E s \in Streams, e \in FDs : Open(s, e)
       \/ effect = "disconnect" /\ UNCHANGED alive
          /\ \E s \in Registered \ {Waker} : Disconnect(s)
    /\ UNCHANGED <<exitted, phase, polled, todo, queue, thread>>

\* Mutant: the loop may stop before the deque is empty.
DrainedEarly == TRUE

Drained == deferred = <<>>

\* One turn of Waker.on_receive()'s loop: a function that raises (and one that
\* cannot get a descriptor) makes the broker shut itself down.
RunDeferred ==
    LET kind == KindOf[Head(deferred)]
    IN  /\ phase = "drain" /\ deferred # <<>>
        /\ deferred' = Tail(deferred)
        /\ fate' = [fate EXCEPT ![Head(deferred)] = "ran"]
        /\ \/ kind \in {"raise", "shutdown"} /\ alive' = FALSE
              /\ UNCHANGED <<rfds, born, stream>>
           \/ kind = "open" /\ (FreeFDs = {} \/ \A s \in Streams : life[s] # "unopened")
              /\ alive' = FALSE /\ UNCHANGED <<rfds, born, stream>>
           \/ /\ kind = "open"
              /\ \E s \in Streams, d \in FDs : Open(s, d)
              /\ UNCHANGED alive
           \/ /\ kind = "close"
              /\ \E s \in Registered \ {Waker} : Disconnect(s)
              /\ UNCHANGED alive
           \/ kind = "close" /\ Registered \subseteq {Waker}
              /\ UNCHANGED <<alive, rfds, born, stream>>
        /\ UNCHANGED <<exitted, phase, ready, polled, todo, pipe, pc, doing>>

DrainEnds ==
    /\ phase = "drain" /\ Drained
    /\ phase' = "round"
    /\ UNCHANGED <<alive, exitted, poller, todo, stream, queue, thread>>

\* The round is over; whether it was one of the main loop or of the grace
\* period is told by the waker, which only the shutdown unregisters.
RoundEnds ==
    /\ phase = "round" /\ ready = {}
    /\ phase' = IF Waker \in Registered THEN "loop" ELSE "grace"
    /\ UNCHANGED <<alive, exitted, poller, todo, stream, queue, thread>>

\* The streams _broker_exit() finds registered.
LeftOver == Registered

Exit ==
    /\ alive' = FALSE /\ exitted' = TRUE
    /\ phase' = "exiting"
    /\ todo' = LeftOver
    /\ ready' = {}
    /\ UNCHANGED <<rfds, born, polled, stream, queue, thread>>

\* An exception nobody catches ends the main loop, the walk that tells every stream
\* to shut down or the grace period: except clause of _do_broker_main(). Timers and
\* 'shutdown' listeners raise one, and so does a 'disconnect' listener: _call()
\* answers the first time by calling on_disconnect() again.
Crash ==
    /\ \/ phase \in {"loop", "grace"}
       \/ phase \in {"round", "shutting"} /\ Raising \cap Registered # {}
    /\ Exit

----------------------------------------------------------------------------
(* The broker thread: _broker_shutdown() and _broker_exit().               *)

BeginShutdown ==
    /\ phase = "loop" /\ ~alive
    /\ phase' = "shutting"
    /\ todo' = Registered
    /\ UNCHANGED <<alive, exitted, poller, stream, queue, thread>>

DisconnectsAtOnce(x) == x = Waker \/ x \in Prompt

ShutdownStream(x) ==
    /\ phase = "shutting" /\ x \in todo
    /\ todo' = todo \ {x}
    /\ IF DisconnectsAtOnce(x) THEN Disconnect(x) ELSE UNCHANGED <<rfds, born, stream>>
    /\ UNCHANGED <<alive, exitted, phase, ready, polled, queue, thread>>

BeginGrace ==
    /\ phase = "shutting" /\ todo = {}
    /\ phase' = "grace"
    /\ UNCHANGED <<alive, exitted, poller, todo, stream, queue, thread>>

\* Mutant: there is no deadline.
NoDeadline == FALSE

\* Any look at the clock may find the deadline passed.
DeadlinePassed == TRUE

\* while self.keep_alive() and now() < deadline
GraceEnds ==
    /\ phase = "grace"
    /\ Holding = {} \/ DeadlinePassed
    /\ Exit

ForceDisconnect(x) ==
    /\ phase = "exiting" /\ x \in todo
    /\ todo' = todo \ {x}
    /\ Disconnect(x)
    /\ UNCHANGED <<alive, exitted, phase, ready, polled, queue, thread>>

\* _broker_exit() catches nothing: a listener that raises, before its stream is
\* unregistered or closed, ends the walk and the thread.
ListenerRaises(x) ==
    /\ phase = "exiting" /\ x \in todo \cap Raising
    /\ phase' = "aborted"
    /\ UNCHANGED <<alive, exitted, poller, todo, stream, queue, thread>>

Stop ==
    /\ phase = "exiting" /\ todo = {}
    /\ phase' = "stopped"
    /\ UNCHANGED <<alive, exitted, poller, todo, stream, queue, thread>>

----------------------------------------------------------------------------
BrokerStep ==
    \/ \E d \in Descriptors : Skip(d)
    \/ \E d \in FDs, e \in {"message", "shutdown", "accept", "disconnect"} : OnStream(d, e)
    \/ OnWaker \/ RunDeferred \/ DrainEnds \/ RoundEnds
    \/ BeginShutdown \/ BeginGrace \/ GraceEnds \/ Stop
    \/ \E x \in Streams \cup {Waker} : ShutdownStream(x) \/ ForceDisconnect(x) \/ ListenerRaises(x)

UserStep(u) == Enqueue(u) \/ Wake(u)

Next ==
    \/ \E R \in SUBSET Descriptors : Poll(R)
    \/ BrokerStep
    \/ Crash
    \/ \E u \in Users : UserStep(u) \/ \E c \in Calls : Call(u, c)

\* The broker thread and the user threads keep running; a deadline is reached
\* however many rounds the grace period takes.
Fairness ==
    /\ WF_vars(BrokerStep \/ \E R \in SUBSET Descriptors : Poll(R))
    /\ SF_vars(GraceEnds)
    /\ \A u \in Users : WF_vars(UserStep(u))

Spec == Init /\ [][Next]_vars
FairSpec == Spec /\ Fairness

----------------------------------------------------------------------------
(* Properties.                                                             *)

\* No lost wake-up: while the waker is registered, a non-empty deque means a
\* byte is in the pipe, a defer() is about to write one, or the broker thread
\* is draining ("defer() and on_receive() can conspire to ensure only one byte
\* needs to be pending regardless of queue length").
WakeupPending ==
    Waker \in Registered /\ deferred # <<>> =>
        \/ pipe > 0
        \/ phase = "drain"
        \/ \E u \in Users : pc[u] = "appended"

\* An event polled for one stream is never dispatched to another one that was
\* given the same descriptor during the round.
NoStaleEvent ==
    phase \in {"round", "drain"} =>
        \A d \in ready : Yielded(d) => rfds[d] = polled[d]

\* A function deferred while the broker is alive runs, unless the broker stops.
DeferredRuns ==
    \A c \in Calls : fate[c] = "accepted" ~> (fate[c] = "ran" \/ ~alive)

\* shutdown(), a crashed function, a crashed loop or a 'disconnect' listener that
\* raises all lead to the end of the thread. It leaves no stream open or registered,
\* unless a listener raised once more in _broker_exit(): then what is left is that
\* stream and those the walk had not come to.
OpenStreams == {s \in Streams : life[s] = "open"}
Disconnected == Registered = {} /\ OpenStreams = {}
CutShort ==
    /\ phase = "aborted" /\ todo \cap Raising # {}
    /\ Registered \cup OpenStreams \subseteq todo

ShutdownCompletes == ~alive ~> (phase = "stopped" /\ Disconnected) \/ CutShort

\* "Forcefully call Stream.on_disconnect() on any streams that failed to shut down
\* gracefully" (Broker._broker_exit()): when the thread has ended none is connected.
ExitForcesAll == phase \in {"stopped", "aborted"} => Disconnected

\* "Error: defer() was called after Broker has begun shutdown": a call made then
\* is not accepted.
DeferRaisesOnceShuttingDown == \A c \in Calls : fate[c] # "late"
=============================================================================
