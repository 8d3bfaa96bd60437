---------------------------- MODULE BrokerProofs ----------------------------
(***************************************************************************)
(* Theorems about Broker, for any number of threads, streams and           *)
(* descriptors and any capacity of the self-pipe: types, no lost wake-up,  *)
(* and no event for a stream that took over a descriptor.                  *)
(***************************************************************************)
EXTENDS Broker, TLAPS

(***************************************************************************)
(* What handlers and deferred functions do to registrations.               *)
(***************************************************************************)
Registers ==
    \/ UNCHANGED <<rfds, born, stream>>
    \/ \E s \in Streams, d \in FDs : Open(s, d)
    \/ \E x \in Streams \cup {Waker} : Disconnect(x)

\* What is registered is a stream or the waker.
LEMMA RegisteredType == ASSUME TypeOK PROVE Registered \subseteq Streams \cup {Waker}
  BY DEF TypeOK, Registered

\* Every step but poll() registers or unregisters one stream at most.
LEMMA StepRegisters ==
    ASSUME TypeOK, [Next]_vars, ~\E R \in SUBSET Descriptors : Poll(R) PROVE Registers
<1>1. ASSUME NEW d \in FDs, NEW e, OnStream(d, e) PROVE Registers
  BY <1>1, RegisteredType DEF OnStream, Registers
<1>2. CASE RunDeferred
  BY <1>2, RegisteredType DEF RunDeferred, Registers
<1>3. ASSUME NEW x \in Streams \cup {Waker}, ShutdownStream(x) \/ ForceDisconnect(x) \/ ListenerRaises(x) PROVE Registers
  BY <1>3 DEF ShutdownStream, ForceDisconnect, ListenerRaises, poller, Registers
<1>4. CASE (\E d \in Descriptors : Skip(d)) \/ OnWaker
  BY <1>4 DEF Skip, OnWaker, Registers
<1>5. CASE DrainEnds \/ RoundEnds \/ BeginShutdown \/ BeginGrace \/ Stop
  BY <1>5 DEF DrainEnds, RoundEnds, BeginShutdown, BeginGrace, Stop, Registers, poller
<1>6. CASE GraceEnds \/ Crash
  BY <1>6 DEF GraceEnds, Crash, Exit, Registers
<1>7. ASSUME NEW u \in Users, UserStep(u) \/ \E c \in Calls : Call(u, c) PROVE Registers
  BY <1>7 DEF UserStep, Enqueue, Wake, Call, Registers, poller
<1>8. CASE UNCHANGED vars
  BY <1>8 DEF vars, Registers, poller
<1> QED
  BY <1>1, <1>2, <1>3, <1>4, <1>5, <1>6, <1>7, <1>8 DEF Next, BrokerStep

\* The waker is registered once, before the first round.
LEMMA WakerStays ==
    ASSUME TypeOK, Registers, Waker \in Registered' PROVE Waker \in Registered
<1>1. PICK d \in Descriptors : rfds'[d] = Waker
  BY DEF Registered
<1>2. rfds[d] = Waker
  BY <1>1, NamesAssumption DEF Registers, Open, Disconnect, TypeOK, Nobody, Waker
<1> QED
  BY <1>2, NamesAssumption DEF Registered

\* A registration that may be yielded after a step could be before it.
LEMMA YieldedStays ==
    ASSUME TypeOK, Registers, NEW d \in Descriptors, Yielded(d)'
    PROVE Yielded(d) /\ rfds'[d] = rfds[d]
  BY DEF Registers, Open, Disconnect, Yielded, TypeOK

(***************************************************************************)
(* Types.  That pipe stays a natural number when a byte is read is not a   *)
(* matter of types: the self-pipe is yielded only while a byte is in it.   *)
(***************************************************************************)
ByteToRead == WakerFD \in ready => pipe > 0

TypeInv == TypeOK /\ ByteToRead

RegistrationTypes ==
    /\ rfds \in [Descriptors -> Streams \cup {Waker, Nobody}]
    /\ born \subseteq Descriptors
    /\ fd \in [Streams -> FDs]
    /\ life \in [Streams -> {"unopened", "open", "closed"}]

\* A step that registers or unregisters one stream keeps these types.
LEMMA RegistersTypes == ASSUME TypeOK, Registers PROVE RegistrationTypes'
<1>1. CASE UNCHANGED <<rfds, born, stream>>
  BY <1>1 DEF TypeOK, stream, RegistrationTypes
<1>2. ASSUME NEW s \in Streams, NEW d \in FDs, Open(s, d) PROVE RegistrationTypes'
  BY <1>2 DEF TypeOK, Open, Descriptors, RegistrationTypes
<1>3. ASSUME NEW x \in Streams \cup {Waker}, Disconnect(x) PROVE RegistrationTypes'
  BY <1>3 DEF TypeOK, Disconnect, RegistrationTypes
<1> QED
  BY <1>1, <1>2, <1>3 DEF Registers

\* The variables of the broker thread, of the queue and of the user threads.
BrokerTypes ==
    /\ alive \in BOOLEAN /\ exitted \in BOOLEAN
    /\ phase \in {"loop", "round", "drain", "shutting", "grace", "exiting", "stopped", "aborted"}
    /\ polled \in [Descriptors -> Streams \cup {Waker, Nobody}]
    /\ ready \subseteq Descriptors
    /\ todo \subseteq Streams \cup {Waker}

QueueTypes == deferred \in Seq(Calls) /\ pipe \in 0..PipeSize /\ ByteToRead

ThreadTypes ==
    /\ pc \in [Users -> {"idle", "checked", "appended"}]
    /\ doing \in [Users -> Calls]
    /\ fate \in [Calls -> {"none", "accepted", "late", "raised", "ignored", "ran"}]

\* The groups are all there is to TypeInv.
LEMMA TypeParts ==
    TypeInv <=> RegistrationTypes /\ BrokerTypes /\ QueueTypes /\ ThreadTypes
  BY DEF TypeInv, TypeOK, RegistrationTypes, BrokerTypes, QueueTypes, ThreadTypes

\* A broker starts with its waker registered and an empty pipe.
LEMMA InitTypes == Init => TypeInv
<1> SUFFICES ASSUME Init PROVE TypeInv
  OBVIOUS
<1>1. (CHOOSE d \in FDs : TRUE) \in FDs /\ NoCall \in Calls
  BY BrokerAssumption DEF NoCall
<1>2. RegistrationTypes
  BY <1>1, NamesAssumption DEF Init, RegistrationTypes, Descriptors
<1>3. BrokerTypes
  BY <1>2 DEF Init, BrokerTypes, RegistrationTypes
<1>4. QueueTypes
  BY BrokerAssumption DEF Init, QueueTypes, ByteToRead
<1>5. ThreadTypes
  BY <1>1 DEF Init, ThreadTypes
<1> QED
  BY <1>2, <1>3, <1>4, <1>5, TypeParts

\* Deferring and draining, byte by byte.
LEMMA QueueTypesStep == ASSUME TypeInv, [Next]_vars PROVE QueueTypes'
<1> USE DEF TypeInv, TypeOK, QueueTypes, ByteToRead
<1>1. ASSUME NEW R \in SUBSET Descriptors, Poll(R) PROVE QueueTypes'
  BY <1>1 DEF Poll, Readable, queue
<1>2. CASE OnWaker
  BY <1>2, BrokerAssumption DEF OnWaker
<1>3. CASE RunDeferred
  BY <1>3 DEF RunDeferred
<1>4. ASSUME NEW u \in Users, Enqueue(u) PROVE QueueTypes'
  BY <1>4 DEF Enqueue, poller
<1>5. ASSUME NEW u \in Users, Wake(u) PROVE QueueTypes'
  BY <1>5, BrokerAssumption DEF Wake, Room, poller
<1>6. ASSUME queue' = queue, ready' \subseteq ready PROVE QueueTypes'
  BY <1>6 DEF queue
<1>7. ASSUME NEW d \in Descriptors, Skip(d) \/ \E e : OnStream(d, e) PROVE QueueTypes'
  BY <1>6, <1>7 DEF Skip, OnStream
<1>8. CASE DrainEnds \/ RoundEnds \/ BeginShutdown \/ BeginGrace \/ Stop
  BY <1>6, <1>8 DEF DrainEnds, RoundEnds, BeginShutdown, BeginGrace, Stop, poller
<1>9. CASE GraceEnds \/ Crash
  BY <1>6, <1>9 DEF GraceEnds, Crash, Exit
<1>10. ASSUME NEW x, ShutdownStream(x) \/ ForceDisconnect(x) \/ ListenerRaises(x) PROVE QueueTypes'
  BY <1>6, <1>10 DEF ShutdownStream, ForceDisconnect, ListenerRaises, poller
<1>11. ASSUME NEW u \in Users, NEW c \in Calls, Call(u, c) PROVE QueueTypes'
  BY <1>6, <1>11 DEF Call, poller
<1>12. CASE UNCHANGED vars
  BY <1>6, <1>12 DEF vars, poller
<1> QED
  BY <1>1, <1>2, <1>3, <1>4, <1>5, <1>7, <1>8, <1>9, <1>10, <1>11, <1>12
     DEF Next, BrokerStep, UserStep, Descriptors

\* The broker thread: its phase, and the sets it iterates over.
LEMMA BrokerTypesStep == ASSUME TypeInv, [Next]_vars PROVE BrokerTypes'
<1> USE DEF TypeInv, TypeOK, BrokerTypes
<1>1. ASSUME NEW R \in SUBSET Descriptors, Poll(R) PROVE BrokerTypes'
  BY <1>1 DEF Poll
<1>2. CASE OnWaker \/ RunDeferred \/ DrainEnds \/ RoundEnds
  BY <1>2 DEF OnWaker, RunDeferred, DrainEnds, RoundEnds, poller
<1>3. ASSUME NEW d \in Descriptors, Skip(d) PROVE BrokerTypes'
  BY <1>3 DEF Skip
<1>4. ASSUME NEW d \in Descriptors, NEW e, OnStream(d, e) PROVE BrokerTypes'
  BY <1>4 DEF OnStream
<1>5. CASE BeginShutdown \/ BeginGrace \/ Stop
  BY <1>5, RegisteredType DEF BeginShutdown, BeginGrace, Stop, poller
<1>6. CASE GraceEnds \/ Crash
  BY <1>6, RegisteredType DEF GraceEnds, Crash, Exit, LeftOver
<1>7. ASSUME NEW x, ShutdownStream(x) \/ ForceDisconnect(x) \/ ListenerRaises(x) PROVE BrokerTypes'
  BY <1>7 DEF ShutdownStream, ForceDisconnect, ListenerRaises, poller
<1>8. ASSUME NEW u \in Users, UserStep(u) \/ \E c \in Calls : Call(u, c) PROVE BrokerTypes'
  BY <1>8 DEF UserStep, Enqueue, Wake, Call, poller
<1>9. CASE UNCHANGED vars
  BY <1>9 DEF vars, poller
<1> QED
  BY <1>1, <1>2, <1>3, <1>4, <1>5, <1>6, <1>7, <1>8, <1>9 DEF Next, BrokerStep, Descriptors

\* User threads in defer(), and what became of each call.
LEMMA ThreadTypesStep == ASSUME TypeInv, [Next]_vars PROVE ThreadTypes'
<1> USE DEF TypeInv, TypeOK, ThreadTypes
<1>1. ASSUME NEW u \in Users, NEW c \in Calls, Call(u, c) PROVE ThreadTypes'
  BY <1>1 DEF Call
<1>2. ASSUME NEW u \in Users, UserStep(u) PROVE ThreadTypes'
  <2>1. NoCall \in Calls
    BY BrokerAssumption DEF NoCall
  <2> QED
    BY <1>2, <2>1 DEF UserStep, Enqueue, Wake
<1>3. CASE RunDeferred
  <2>1. Head(deferred) \in Calls
    BY <1>3 DEF RunDeferred
  <2> QED
    BY <1>3, <2>1 DEF RunDeferred
<1>4. ASSUME thread' = thread PROVE ThreadTypes'
  BY <1>4 DEF thread
<1>5. ASSUME NEW R \in SUBSET Descriptors, Poll(R) PROVE ThreadTypes'
  BY <1>4, <1>5 DEF Poll
<1>6. ASSUME NEW d \in Descriptors, Skip(d) \/ \E e : OnStream(d, e) PROVE ThreadTypes'
  BY <1>4, <1>6 DEF Skip, OnStream
<1>7. CASE OnWaker \/ DrainEnds \/ RoundEnds \/ BeginShutdown \/ BeginGrace \/ Stop
  BY <1>4, <1>7 DEF OnWaker, DrainEnds, RoundEnds, BeginShutdown, BeginGrace, Stop
<1>8. CASE GraceEnds \/ Crash
  BY <1>4, <1>8 DEF GraceEnds, Crash, Exit
<1>9. ASSUME NEW x, ShutdownStream(x) \/ ForceDisconnect(x) \/ ListenerRaises(x) PROVE ThreadTypes'
  BY <1>4, <1>9 DEF ShutdownStream, ForceDisconnect, ListenerRaises, poller
<1>10. CASE UNCHANGED vars
  BY <1>4, <1>10 DEF vars
<1> QED
  BY <1>1, <1>2, <1>3, <1>5, <1>6, <1>7, <1>8, <1>9, <1>10 DEF Next, BrokerStep, Descriptors

\* Every step keeps the types, group by group.
LEMMA TypeStep == ASSUME TypeInv, [Next]_vars PROVE TypeInv'
<1>1. RegistrationTypes'
  <2>1. ASSUME NEW R \in SUBSET Descriptors, Poll(R) PROVE RegistrationTypes'
    BY <2>1 DEF Poll, TypeInv, TypeOK, RegistrationTypes, stream
  <2> QED
    BY <2>1, StepRegisters, RegistersTypes DEF TypeInv
<1>2. (RegistrationTypes /\ BrokerTypes /\ QueueTypes /\ ThreadTypes)'
  BY <1>1, BrokerTypesStep, QueueTypesStep, ThreadTypesStep
<1> QED
  BY <1>2 DEF TypeInv, TypeOK, RegistrationTypes, BrokerTypes, QueueTypes, ThreadTypes

\* The variables keep their types. In particular the broker thread reads the self-pipe
\* only when a byte is in it, and what it visits while it shuts down are streams.
THEOREM TypeCorrect == Spec => []TypeOK
<1>1. Spec => []TypeInv
  BY InitTypes, TypeStep, PTL DEF Spec
<1>2. TypeInv => TypeOK
  BY DEF TypeInv
<1> QED
  BY <1>1, <1>2, PTL

----------------------------------------------------------------------------
(* The self-pipe (Waker.defer(), Waker.on_receive()).                      *)

\* Appending comes before the byte, reading the byte before the draining: in
\* between it is the caller, or the broker thread, that keeps the deque awake.
LEMMA WakeupStep == ASSUME TypeInv, WakeupPending, [Next]_vars PROVE WakeupPending'
<1> SUFFICES ASSUME (Waker \in Registered)', deferred' # <<>>
             PROVE  pipe' > 0 \/ phase' = "drain" \/ \E u \in Users : pc'[u] = "appended"
  BY DEF WakeupPending
<1> USE DEF TypeInv, TypeOK
<1>1. Waker \in Registered
  <2>1. ASSUME NEW R \in SUBSET Descriptors, Poll(R) PROVE Waker \in Registered
    BY <2>1 DEF Poll, Registered
  <2> QED
    BY <2>1, StepRegisters, WakerStays
<1> DEFINE Pending == pipe' > 0 \/ phase' = "drain" \/ \E u \in Users : pc'[u] = "appended"
<1>2. ASSUME NEW u \in Users, Enqueue(u) PROVE Pending
  BY <1>2 DEF Enqueue
\* The byte is written, or the pipe is full: PipeSize is not zero.
<1>3. ASSUME NEW u \in Users, Wake(u) PROVE Pending
  BY <1>1, <1>3, BrokerAssumption DEF Wake, Writes, Room
<1>4. CASE OnWaker
  BY <1>4 DEF OnWaker
<1>5. CASE RunDeferred
  BY <1>5 DEF RunDeferred
<1>6. CASE DrainEnds
  BY <1>6 DEF DrainEnds, Drained, queue
<1>7. ASSUME UNCHANGED queue, phase # "drain", \A u \in Users : pc[u] = "appended" => pc'[u] = "appended"
      PROVE  Pending
  BY <1>1, <1>7 DEF WakeupPending, queue
<1>8. ASSUME NEW u \in Users, NEW c \in Calls, Call(u, c) PROVE Pending
  <2>1. UNCHANGED <<queue, phase>>
    BY <1>8 DEF Call
  <2>2. \A v \in Users : pc[v] = "appended" => pc'[v] = "appended"
    BY <1>8 DEF Call
  <2> QED
    BY <1>1, <2>1, <2>2 DEF WakeupPending, queue
<1>9. ASSUME NEW R \in SUBSET Descriptors, Poll(R) PROVE Pending
  BY <1>7, <1>9 DEF Poll, thread
<1>10. ASSUME NEW d \in Descriptors, Skip(d) \/ \E e : OnStream(d, e) PROVE Pending
  BY <1>7, <1>10 DEF Skip, OnStream, thread
<1>11. CASE RoundEnds \/ BeginShutdown \/ BeginGrace \/ Stop
  BY <1>7, <1>11 DEF RoundEnds, BeginShutdown, BeginGrace, Stop, thread
<1>12. CASE GraceEnds \/ Crash
  BY <1>7, <1>12 DEF GraceEnds, Crash, Exit, thread
<1>13. ASSUME NEW x, ShutdownStream(x) \/ ForceDisconnect(x) \/ ListenerRaises(x) PROVE Pending
  BY <1>7, <1>13 DEF ShutdownStream, ForceDisconnect, ListenerRaises, poller, thread
<1>14. CASE UNCHANGED vars
  BY <1>1, <1>14 DEF WakeupPending, vars, queue, thread
<1> QED
  BY <1>2, <1>3, <1>4, <1>5, <1>6, <1>8, <1>9, <1>10, <1>11, <1>12, <1>13, <1>14
     DEF Next, BrokerStep, UserStep, Descriptors

\* defer() never leaves a function in the deque that nothing will wake the broker
\* thread for, although a byte is skipped when the pipe is full and the thread that
\* reads it may be draining already.
THEOREM NoWakeupLost == Spec => []WakeupPending
<1>1. Init => TypeInv /\ WakeupPending
  BY InitTypes DEF Init, WakeupPending
<1>2. TypeInv /\ WakeupPending /\ [Next]_vars => (TypeInv /\ WakeupPending)'
  BY TypeStep, WakeupStep
<1> QED
  BY <1>1, <1>2, PTL DEF Spec

----------------------------------------------------------------------------
(* Generations (Poller.poll(), Poller.start_receive()).                    *)

\* A descriptor that is closed and given out again belongs to a registration of a
\* later generation, which is not yielded in the current round.
LEMMA GenerationStep == ASSUME TypeInv, NoStaleEvent, [Next]_vars PROVE NoStaleEvent'
<1> USE DEF TypeInv
<1>1. ASSUME NEW R \in SUBSET Descriptors, Poll(R) PROVE NoStaleEvent'
  BY <1>1 DEF Poll, NoStaleEvent
\* A round goes on: whatever is still yielded was registered as it is now.
<1>2. ASSUME phase \in {"round", "drain"}, polled' = polled, ready' \subseteq ready, Registers
      PROVE  NoStaleEvent'
  BY <1>2, YieldedStays DEF NoStaleEvent, TypeOK
<1>3. ASSUME phase' \notin {"round", "drain"} PROVE NoStaleEvent'
  BY <1>3 DEF NoStaleEvent
<1>4. CASE \E R \in SUBSET Descriptors : Poll(R)
  BY <1>1, <1>4
<1>5. CASE ~\E R \in SUBSET Descriptors : Poll(R)
  <2>1. Registers
    BY <1>5, StepRegisters
  <2>2. ASSUME NEW d \in Descriptors, Skip(d) \/ \E e : OnStream(d, e) PROVE NoStaleEvent'
    BY <1>2, <2>1, <2>2 DEF Skip, OnStream
  <2>3. CASE OnWaker \/ RunDeferred \/ DrainEnds
    BY <1>2, <2>1, <2>3 DEF OnWaker, RunDeferred, DrainEnds, poller
  <2>4. CASE RoundEnds \/ BeginShutdown \/ BeginGrace \/ Stop
    BY <1>3, <2>4 DEF RoundEnds, BeginShutdown, BeginGrace, Stop
  <2>5. CASE GraceEnds \/ Crash
    BY <1>3, <2>5 DEF GraceEnds, Crash, Exit
  <2>6. ASSUME NEW x, ShutdownStream(x) \/ ForceDisconnect(x) \/ ListenerRaises(x) PROVE NoStaleEvent'
    BY <1>3, <2>6 DEF ShutdownStream, ForceDisconnect, ListenerRaises, poller
  <2>7. ASSUME UNCHANGED <<phase, poller>> PROVE NoStaleEvent'
    BY <1>2, <1>3, <2>1, <2>7 DEF poller
  <2>8. ASSUME NEW u \in Users, UserStep(u) \/ \E c \in Calls : Call(u, c) PROVE NoStaleEvent'
    BY <2>7, <2>8 DEF UserStep, Enqueue, Wake, Call
  <2>9. CASE UNCHANGED vars
    BY <2>7, <2>9 DEF vars
  <2> QED
    BY <1>5, <2>2, <2>3, <2>4, <2>5, <2>6, <2>8, <2>9 DEF Next, BrokerStep, Descriptors
<1> QED
  BY <1>4, <1>5

\* An event is dispatched to the stream it was polled for or to none, whatever earlier
\* handlers and deferred functions of the round closed and opened, and however the
\* kernel reused descriptors meanwhile.
THEOREM EventsAreTheirs == Spec => []NoStaleEvent
<1>1. Init => TypeInv /\ NoStaleEvent
  BY InitTypes DEF Init, NoStaleEvent
<1>2. TypeInv /\ NoStaleEvent /\ [Next]_vars => (TypeInv /\ NoStaleEvent)'
  BY TypeStep, GenerationStep
<1> QED
  BY <1>1, <1>2, PTL DEF Spec
=============================================================================
