--------------------------- MODULE ServicesProofs ---------------------------
(***************************************************************************)
(* Theorems about Services for any number of workers, services and         *)
(* requests: its variables keep their types; a serialized invoker's queue  *)
(* has one runner while it holds requests; a request is in one place until *)
(* it is answered, once; and what waits in a Receiver is announced.  The   *)
(* types are proved one group of variables at a time: the actions that     *)
(* write the group, each in a step of its own, then all the others at once.*)
(* Then about Files, for any transfers, streams and window: what becomes   *)
(* of a transfer is due, and the window of each stream is accounted for.   *)
(***************************************************************************)
EXTENDS Services, Files, FiniteSetTheorems, FunctionTheorems,
        WellFoundedInduction, SequenceTheorems, TLAPS

(* The head of a list that is not empty, and what is left.                  *)
LEMMA TailLemma ==
    ASSUME NEW S, NEW s \in Seq(S), s # <<>>
    PROVE  Head(s) \in S /\ Tail(s) \in Seq(S)
OBVIOUS

(* The last invoker registered for a service.                               *)
LEMMA CurrentLemma ==
    ASSUME ActivationTypes, NEW s \in Services, Active(s)
    PROVE  Current(s) \in Invokers
<1>1. invokers[s] \in Seq(Invokers) /\ invokers[s] # <<>>
  BY DEF ActivationTypes, Active
<1>2. Len(invokers[s]) \in 1..Len(invokers[s])
  BY <1>1
<1>3. QED
  BY <1>1, <1>2 DEF Current

(* What the steps of a worker leave alone.                                  *)
LEMMA WorkerFrame ==
    ASSUME PoolStep PROVE UNCHANGED <<builder, broker>>
BY DEF PoolStep, WorkerStep, Loop, GetEvent, PopRequest, Lookup, LockAndLookup, AddService,
       Register, Invoke, Enqueue, Drain, Ask, Return, builder, broker

(* What the main thread leaves alone, unless it starts a worker.            *)
LEMMA MainFrame ==
    ASSUME MainStep, ~\E w \in Workers : StartWorker(w)
    PROVE  UNCHANGED <<broker, activation, serial, worker>>
BY DEF MainStep, TakeSentinel, MainEnds, Overwrite, Unstub, Listen, AddHook, CountQueued,
       Announce, broker, activation, serial, worker

(* What the broker thread leaves alone, unless it delivers a reply.         *)
LEMMA BrokerFrame ==
    ASSUME BrokerStep \/ ShutdownFires \/ (\E r \in Requests : Receive(r)),
           ~\E w \in Workers : ReplyArrives(w)
    PROVE  UNCHANGED <<builder, activation, serial, worker>>
BY DEF BrokerStep, ShutdownFires, Receive, Put, CheckNotify, CallNotify, TestHook, Unhook,
       CloseInbox, NextListener, StopFlag, StopReceiver, Detach, CloseSelect, Joined,
       builder, activation, serial, worker

(* Where the workers are and what they hold.                                *)
LEMMA WorkerTypesStep ==
    ASSUME TypeOK, [Next]_vars PROVE WorkerTypes'
<1> USE DEF TypeOK, WorkerTypes, Holds, Places, Executing
<1>1. ASSUME NEW w \in Workers, ReplyArrives(w) PROVE WorkerTypes'
  BY <1>1 DEF ReplyArrives
<1>2. ASSUME NEW w \in Workers, StartWorker(w) PROVE WorkerTypes'
  BY <1>2 DEF StartWorker
<1>3. ASSUME NEW w \in Workers, Loop(w) PROVE WorkerTypes'
  BY <1>3 DEF Loop
<1>4. ASSUME NEW w \in Workers, GetEvent(w) PROVE WorkerTypes'
  <2>1. events # <<>> => Head(events) \in Receivers
    BY TailLemma DEF SelectTypes
  <2>2. QED
    BY <1>4, <2>1 DEF GetEvent
<1>5. ASSUME NEW w \in Workers, PopRequest(w) PROVE WorkerTypes'
  <2>1. pc[w] = "pop" /\ waiting[cur[w]] \in Seq(Requests)
    BY <1>5 DEF PopRequest, IntakeTypes
  <2>2. waiting[cur[w]] # <<>> => Head(waiting[cur[w]]) \in Requests
    BY <2>1, TailLemma
  <2>3. QED
    BY <1>5, <2>2 DEF PopRequest, Retry
<1>6. ASSUME NEW w \in Workers, Lookup(w) PROVE WorkerTypes'
  <2>1. pc[w] = "lookup" /\ ServiceOf[cur[w]] \in Services
    BY <1>6, ServicesAssumption DEF Lookup
  <2>2. Active(ServiceOf[cur[w]]) => Current(ServiceOf[cur[w]]) \in Invokers
    BY <2>1, CurrentLemma
  <2>3. QED
    BY <1>6, <2>2 DEF Lookup
<1>7. ASSUME NEW w \in Workers, LockAndLookup(w) PROVE WorkerTypes'
  <2>1. pc[w] = "lock" /\ ServiceOf[cur[w]] \in Services
    BY <1>7, ServicesAssumption DEF LockAndLookup
  <2>2. Active(ServiceOf[cur[w]]) => Current(ServiceOf[cur[w]]) \in Invokers
    BY <2>1, CurrentLemma
  <2>3. CASE Active(ServiceOf[cur[w]])
    BY <1>7, <2>2, <2>3 DEF LockAndLookup
  <2>4. CASE ~Active(ServiceOf[cur[w]]) /\ cur[w] \in Unprivileged
    BY <1>7, <2>4 DEF LockAndLookup, Rest
  <2>5. CASE ~Active(ServiceOf[cur[w]]) /\ cur[w] \notin Unprivileged
    BY <1>7, <2>5 DEF LockAndLookup
  <2>6. QED
    BY <2>3, <2>4, <2>5
<1>8. ASSUME NEW w \in Workers, AddService(w) PROVE WorkerTypes'
  BY <1>8 DEF AddService
<1>9. ASSUME NEW w \in Workers, Register(w) PROVE WorkerTypes'
  <2>1. <<ServiceOf[cur[w]], 2>> \in Invokers
    BY <1>9, ServicesAssumption DEF Register, Invokers
  <2>2. QED
    BY <1>9, <2>1 DEF Register
<1>10. ASSUME NEW w \in Workers, Invoke(w) PROVE WorkerTypes'
  BY <1>10 DEF Invoke
<1>11. ASSUME NEW w \in Workers, Enqueue(w) PROVE WorkerTypes'
  BY <1>11 DEF Enqueue, Rest
<1>12. ASSUME NEW w \in Workers, Drain(w) PROVE WorkerTypes'
  <2>1. pc[w] = "drain" /\ queue[inv[w]] \in Seq(Requests)
    BY <1>12 DEF Drain, SerialTypes
  <2>2. queue[inv[w]] # <<>> => Head(queue[inv[w]]) \in Requests
    BY <2>1, TailLemma
  <2>3. CASE queue[inv[w]] = <<>>
    BY <1>12, <2>1, <2>3 DEF Drain, Rest
  <2>4. CASE queue[inv[w]] # <<>>
    BY <1>12, <2>1, <2>2, <2>4 DEF Drain
  <2>5. QED
    BY <2>3, <2>4
<1>13. ASSUME NEW w \in Workers, Ask(w) PROVE WorkerTypes'
  BY <1>13 DEF Ask
<1>14. ASSUME NEW w \in Workers, Return(w) PROVE WorkerTypes'
  BY <1>14 DEF Return, Rest
<1>15. CASE UNCHANGED worker
  BY <1>15 DEF worker
<1>16. QED
  BY <1>1, <1>2, <1>3, <1>4, <1>5, <1>6, <1>7, <1>8, <1>9, <1>10, <1>11, <1>12, <1>13, <1>14,
     <1>15, MainFrame, BrokerFrame
  DEF Next, PoolStep, WorkerStep, MainStep, BrokerStep, vars, worker

(* The Receivers, their queues and hooks.                                   *)
LEMMA IntakeTypesStep ==
    ASSUME TypeOK, [Next]_vars PROVE IntakeTypes'
<1> USE DEF TypeOK, IntakeTypes, Receivers
<1>1. ASSUME NEW r \in Requests, Receive(r) PROVE IntakeTypes'
  BY <1>1 DEF Receive
<1>2. CASE Put
  BY <1>2 DEF Put, BrokerTypes
<1>3. CASE CallNotify
  BY <1>3 DEF CallNotify
<1>4. CASE Unhook \/ CloseInbox \/ StopReceiver \/ Detach
  BY <1>4 DEF Unhook, CloseInbox, StopReceiver, Detach
<1>5. CASE TakeSentinel \/ Overwrite \/ Unstub
  BY <1>5 DEF TakeSentinel, Overwrite, Unstub
<1>6. CASE AddHook("pool", "own", "count own") \/ AddHook("stub", "adopt", "count stub")
  BY <1>6 DEF AddHook
<1>7. ASSUME NEW w \in Workers, PopRequest(w) PROVE IntakeTypes'
  <2>1. cur[w] \in Receivers
    BY <1>7 DEF PopRequest, WorkerTypes, Holds
  <2>2. waiting[cur[w]] # <<>> => Tail(waiting[cur[w]]) \in Seq(Requests)
    BY <2>1, TailLemma
  <2>3. QED
    BY <1>7, <2>1, <2>2 DEF PopRequest
<1>8. CASE UNCHANGED intake
  BY <1>8 DEF intake
<1>9. QED
  BY <1>1, <1>2, <1>3, <1>4, <1>5, <1>6, <1>7, <1>8
  DEF Next, PoolStep, WorkerStep, MainStep, BrokerStep, vars, ReplyArrives, ShutdownFires,
      CheckNotify, TestHook, NextListener, StopFlag, CloseSelect, Joined, MainEnds, CountQueued,
      Announce, StartWorker, Listen, Loop, GetEvent, Lookup, LockAndLookup, AddService,
      Register, Invoke, Enqueue, Drain, Ask, Return

(* The main thread in Pool.__init__().                                      *)
LEMMA BuilderTypesStep ==
    ASSUME TypeOK, [Next]_vars PROVE BuilderTypes'
<1> USE DEF TypeOK, BuilderTypes
<1>1. ASSUME NEW c \in Receivers, NEW at, NEW next \in Constructing, CountQueued(c, at, next)
      PROVE  BuilderTypes'
  <2>1. Len(waiting[c]) \in Nat
    BY DEF IntakeTypes
  <2>2. QED
    BY <1>1, <2>1 DEF CountQueued, Queued, MainGoes
<1>2. ASSUME NEW c \in Receivers, NEW at, NEW next \in Constructing, Announce(c, at, next)
      PROVE  BuilderTypes'
  <2>1. left # 0 => left - 1 \in Nat
    OBVIOUS
  <2>2. QED
    BY <1>2, <2>1 DEF Announce, MainGoes
<1>3. CASE \/ TakeSentinel \/ MainEnds \/ Overwrite \/ Unstub \/ Listen
           \/ AddHook("pool", "own", "count own") \/ AddHook("stub", "adopt", "count stub")
  BY <1>3 DEF TakeSentinel, MainEnds, Overwrite, Unstub, Listen, AddHook, MainGoes, Constructing
<1>4. ASSUME NEW w \in Workers, StartWorker(w) PROVE BuilderTypes'
  BY <1>4 DEF StartWorker, MainGoes, Constructing
<1>5. CASE UNCHANGED builder
  BY <1>5 DEF builder
<1>6. ASSUME NEW w \in Workers, ReplyArrives(w) PROVE UNCHANGED builder
  BY <1>6 DEF ReplyArrives, builder
<1>7. QED
  BY <1>1, <1>2, <1>3, <1>4, <1>5, <1>6, WorkerFrame, BrokerFrame
  DEF Next, MainStep, vars, Receivers, Constructing

(* The broker thread, and the signal it fires.                              *)
LEMMA BrokerTypesStep ==
    ASSUME TypeOK, [Next]_vars PROVE BrokerTypes'
<1> USE DEF TypeOK, BrokerTypes
<1>1. ASSUME NEW r \in Requests, Receive(r) PROVE BrokerTypes'
  BY <1>1 DEF Receive, Refused, IntakeTypes
<1>2. CASE \/ Put \/ CheckNotify \/ CallNotify \/ ShutdownFires \/ TestHook \/ Unhook
           \/ CloseInbox \/ NextListener
  BY <1>2 DEF Put, CheckNotify, CallNotify, ShutdownFires, TestHook, Unhook, CloseInbox,
              NextListener
<1>3. CASE Detach \/ Joined
  BY <1>3 DEF Detach, Joined
<1>4. CASE UNCHANGED broker
  BY <1>4 DEF broker
<1>5. ASSUME NEW w \in Workers, StartWorker(w) \/ ReplyArrives(w) PROVE UNCHANGED broker
  BY <1>5 DEF StartWorker, ReplyArrives, broker
<1>6. CASE StopFlag \/ StopReceiver \/ CloseSelect
  BY <1>6 DEF StopFlag, StopReceiver, CloseSelect, broker
<1>7. QED
  BY <1>1, <1>2, <1>3, <1>4, <1>5, <1>6, WorkerFrame, MainFrame DEF Next, BrokerStep, vars

(* The Select's Latch, and how far stop() is.                               *)
LEMMA SelectTypesStep ==
    ASSUME TypeOK, [Next]_vars PROVE SelectTypes'
<1> USE DEF TypeOK, SelectTypes
<1>1. CASE CallNotify
  BY <1>1 DEF CallNotify, BrokerTypes
<1>2. CASE StopFlag \/ StopReceiver \/ Detach \/ CloseSelect
  BY <1>2 DEF StopFlag, StopReceiver, Detach, CloseSelect
<1>3. ASSUME NEW c \in Receivers, NEW at, NEW next, Announce(c, at, next)
      PROVE  SelectTypes'
  <2>1. Append(events, c) \in Seq(Receivers)
    OBVIOUS
  <2>2. QED
    BY <1>3, <2>1 DEF Announce
<1>4. ASSUME NEW w \in Workers, GetEvent(w) PROVE SelectTypes'
  <2>1. events # <<>> => Tail(events) \in Seq(Receivers)
    BY TailLemma
  <2>2. QED
    BY <1>4, <2>1 DEF GetEvent
<1>5. CASE UNCHANGED select
  BY <1>5 DEF select
<1>6. QED
  BY <1>1, <1>2, <1>3, <1>4, <1>5
  DEF Next, PoolStep, WorkerStep, MainStep, BrokerStep, vars, Receive, Put, CheckNotify,
      ReplyArrives, ShutdownFires, TestHook, Unhook, CloseInbox, NextListener, Joined,
      TakeSentinel, MainEnds, Overwrite, Unstub, AddHook, CountQueued, StartWorker, Listen,
      Loop, PopRequest, Lookup, LockAndLookup, AddService, Register, Invoke, Enqueue, Drain,
      Ask, Return, Receivers

(* Pool._invoker_by_name and the lock around its filling.                   *)
LEMMA ActivationTypesStep ==
    ASSUME TypeOK, [Next]_vars PROVE ActivationTypes'
<1> USE DEF TypeOK, ActivationTypes
<1>1. ASSUME NEW w \in Workers, LockAndLookup(w) PROVE ActivationTypes'
  BY <1>1 DEF LockAndLookup
<1>2. ASSUME NEW w \in Workers, AddService(w) \/ Register(w) PROVE ActivationTypes'
  <2>1. ServiceOf[cur[w]] \in Services
    BY <1>2, ServicesAssumption DEF AddService, Register, WorkerTypes, Holds
  <2>2. <<ServiceOf[cur[w]], 1>> \in Invokers /\ <<ServiceOf[cur[w]], 2>> \in Invokers
    BY <2>1 DEF Invokers
  <2>3. CASE AddService(w)
    BY <2>1, <2>2, <2>3 DEF AddService
  <2>4. CASE Register(w)
    BY <2>1, <2>2, <2>4 DEF Register
  <2>5. QED
    BY <1>2, <2>3, <2>4
<1>3. ASSUME NEW w \in Workers, ~LockAndLookup(w), ~AddService(w), ~Register(w), WorkerStep(w)
      PROVE  UNCHANGED activation
  BY <1>3 DEF WorkerStep, Loop, GetEvent, PopRequest, Lookup, Invoke, Enqueue, Drain, Ask,
              Return, activation
<1>4. ASSUME NEW w \in Workers, StartWorker(w) \/ ReplyArrives(w) PROVE UNCHANGED activation
  BY <1>4 DEF StartWorker, ReplyArrives, activation
<1>5. CASE UNCHANGED activation
  BY <1>5 DEF activation
<1>6. QED
  BY <1>1, <1>2, <1>3, <1>4, <1>5, MainFrame, BrokerFrame DEF Next, PoolStep, vars

(* The queue of each SerializedInvoker.                                     *)
LEMMA SerialTypesStep ==
    ASSUME TypeOK, [Next]_vars PROVE SerialTypes'
<1> USE DEF TypeOK, SerialTypes
<1>1. ASSUME NEW w \in Workers, Enqueue(w) PROVE SerialTypes'
  BY <1>1 DEF Enqueue, WorkerTypes, Holds
<1>2. ASSUME NEW w \in Workers, Drain(w) PROVE SerialTypes'
  <2>1. inv[w] \in Invokers
    BY <1>2 DEF Drain, WorkerTypes, Holds
  <2>2. queue[inv[w]] # <<>> => Tail(queue[inv[w]]) \in Seq(Requests)
    BY <2>1, TailLemma
  <2>3. QED
    BY <1>2, <2>1, <2>2 DEF Drain, StillRunning
<1>3. ASSUME NEW w \in Workers, ~Enqueue(w), ~Drain(w), WorkerStep(w) PROVE UNCHANGED serial
  BY <1>3 DEF WorkerStep, Loop, GetEvent, PopRequest, Lookup, LockAndLookup, AddService,
              Register, Invoke, Ask, Return, serial
<1>4. ASSUME NEW w \in Workers, StartWorker(w) \/ ReplyArrives(w) PROVE UNCHANGED serial
  BY <1>4 DEF StartWorker, ReplyArrives, serial
<1>5. CASE UNCHANGED serial
  BY <1>5 DEF serial
<1>6. QED
  BY <1>1, <1>2, <1>3, <1>4, <1>5, MainFrame, BrokerFrame DEF Next, PoolStep, vars

\* Every variable keeps its type, whatever the broker thread, the main thread
\* and the workers of Pool._worker_run() do, in any order: in particular a
\* worker that holds an event, a request or an invoker holds one of its kind,
\* and msg.reply() is only called for requests.
THEOREM TypeCorrect == Spec => []TypeOK
<1>1. Init => TypeOK
  <2>1. \A S : <<>> \in Seq(S)
    OBVIOUS
  <2>2. Init => IntakeTypes
    BY <2>1 DEF Init, IntakeTypes, Receivers
  <2>3. Init => BuilderTypes
    <3>1. Init => main = "idle" /\ left = 0 /\ listening = FALSE
      BY DEF Init
    <3>2. 0 \in Nat
      OBVIOUS
    <3>3. Init => left \in Nat
      BY <3>1, <3>2, Zenon
    <3>4. QED
      BY <3>1, <3>3, Zenon DEF BuilderTypes
  <2>4. Init => BrokerTypes /\ SelectTypes
    BY <2>1 DEF Init, BrokerTypes, SelectTypes, Receivers
  <2>5. Init => ActivationTypes /\ SerialTypes
    BY <2>1 DEF Init, ActivationTypes, SerialTypes
  <2>6. Init => WorkerTypes
    BY DEF Init, WorkerTypes, Holds, Places, Executing
  <2>7. Init => answers \in [Requests -> Nat]
    BY DEF Init
  <2>8. QED
    BY <2>2, <2>3, <2>4, <2>5, <2>6, <2>7 DEF TypeOK
<1>2. ASSUME TypeOK, [Next]_vars PROVE answers' \in [Requests -> Nat]
  <2>1. ASSUME NEW r \in Requests, Answer(r) PROVE answers' \in [Requests -> Nat]
    BY <1>2, <2>1 DEF Answer, TypeOK
  <2>2. CASE UNCHANGED answers
    BY <1>2, <2>2 DEF TypeOK
  <2>3. ASSUME NEW r \in Requests, Receive(r) PROVE Answer(r) \/ UNCHANGED answers
    BY <2>3 DEF Receive
  <2>4. ASSUME NEW w \in Workers, LockAndLookup(w) \/ Return(w)
        PROVE  (cur[w] \in Requests /\ Answer(cur[w])) \/ UNCHANGED answers
    BY <1>2, <2>4 DEF LockAndLookup, Return, TypeOK, WorkerTypes, Holds, Executing
  <2>5. ASSUME NEW w \in Workers, ~LockAndLookup(w), ~Return(w), WorkerStep(w)
        PROVE  UNCHANGED answers
    BY <2>5 DEF WorkerStep, Loop, GetEvent, PopRequest, Lookup, AddService, Register, Invoke,
                Enqueue, NoReply, Drain, Ask
  <2>6. ASSUME MainStep PROVE UNCHANGED answers
    BY <2>6 DEF MainStep, TakeSentinel, MainEnds, Overwrite, Unstub, Listen, AddHook,
                CountQueued, Announce, StartWorker
  <2>7. ASSUME BrokerStep \/ ShutdownFires PROVE UNCHANGED answers
    BY <2>7 DEF BrokerStep, ShutdownFires, Put, CheckNotify, CallNotify, TestHook, Unhook,
                CloseInbox, NextListener, StopFlag, StopReceiver, Detach, CloseSelect, Joined,
                ReplyArrives
  <2>8. QED
    BY <1>2, <2>1, <2>2, <2>3, <2>4, <2>5, <2>6, <2>7 DEF Next, PoolStep, vars
<1>3. TypeOK /\ [Next]_vars => TypeOK'
  BY <1>2, IntakeTypesStep, BuilderTypesStep, BrokerTypesStep, SelectTypesStep,
     ActivationTypesStep, SerialTypesStep, WorkerTypesStep DEF TypeOK
<1>4. QED
  BY <1>1, <1>3, PTL DEF Spec

----------------------------------------------------------------------------
(* SerializedInvoker.  OneRunner is not inductive: it does not say what     *)
(* _running has to do with it.  A thread that finds the flag set leaves its *)
(* request to a runner, so the flag must imply one; a thread that finds it  *)
(* clear becomes the runner, so a runner must imply the flag.               *)

OneRunnerOf(i) == \A v, w \in Workers : Runs(v, i) /\ Runs(w, i) => v = w
FlagTold(i) == running[i] <=> \E w \in Workers : Runs(w, i)
QueueTold(i) == queue[i] # <<>> => running[i]

RunnerInv == \A i \in SerialInvokers : OneRunnerOf(i) /\ FlagTold(i) /\ QueueTold(i)

(* A step that makes no thread the runner of a serialized queue, dismisses  *)
(* none and touches neither queue nor flag.                                 *)
LEMMA RunnersKept ==
    ASSUME RunnerInv, UNCHANGED serial,
           \A w \in Workers, i \in SerialInvokers : Runs(w, i)' <=> Runs(w, i)
    PROVE  RunnerInv'
<1>1. running' = running /\ queue' = queue
  BY DEF serial
<1>2. QED
  BY <1>1 DEF RunnerInv, OneRunnerOf, FlagTold, QueueTold

(* Queueing a request: the thread leaves it to the runner there is, or      *)
(* becomes the one there was not.                                           *)
LEMMA EnqueueKeepsRunners ==
    ASSUME TypeOK, RunnerInv, NEW w \in Workers, Enqueue(w)
    PROVE  RunnerInv'
<1>1. PICK i \in SerialInvokers : i = inv[w]
  BY DEF Enqueue, TypeOK, WorkerTypes, Holds, Invokers, SerialInvokers
<1>2. \A v \in Workers, j \in SerialInvokers : v # w \/ j # i => (Runs(v, j)' <=> Runs(v, j))
  <2>1. \A j \in SerialInvokers : ~Runs(w, j)
    BY <1>1 DEF Enqueue, Runs, Executing
  <2>2. \A v \in Workers \ {w} : pc'[v] = pc[v] /\ inv'[v] = inv[v]
    BY <1>1 DEF Enqueue, Rest, TypeOK, WorkerTypes
  <2>3. \A j \in SerialInvokers : j # i => ~Runs(w, j)'
    BY <1>1 DEF Enqueue, Rest, Runs, Executing, TypeOK, WorkerTypes
  <2>4. QED
    BY <1>1, <2>1, <2>2, <2>3 DEF Runs
<1>3. \A j \in SerialInvokers : j # i => running'[j] = running[j] /\ queue'[j] = queue[j]
  <2>1. SerialInvokers \subseteq Invokers
    BY ServicesAssumption DEF SerialInvokers, Invokers
  <2>2. QED
    BY <1>1, <2>1 DEF Enqueue, TypeOK, SerialTypes
<1>4. ASSUME NEW j \in SerialInvokers, j # i
      PROVE  OneRunnerOf(j)' /\ FlagTold(j)' /\ QueueTold(j)'
  BY <1>1, <1>2, <1>3, <1>4 DEF RunnerInv, OneRunnerOf, FlagTold, QueueTold
<1>5. running'[i] = TRUE
  BY <1>1 DEF Enqueue, TypeOK, SerialTypes, WorkerTypes, Holds
<1>6. CASE running[i]
  <2>1. ~Runs(w, i) /\ ~Runs(w, i)'
    BY <1>1, <1>6 DEF Enqueue, Rest, Runs, Executing, TypeOK, WorkerTypes
  <2>2. OneRunnerOf(i)' /\ FlagTold(i)' /\ QueueTold(i)'
    BY <1>1, <1>2, <1>5, <1>6, <2>1 DEF RunnerInv, OneRunnerOf, FlagTold, QueueTold
  <2>3. QED
    BY <1>1, <1>4, <2>2 DEF RunnerInv
<1>7. CASE ~running[i]
  <2>1. Runs(w, i)'
    BY <1>1, <1>7 DEF Enqueue, Runs, TypeOK, WorkerTypes
  <2>2. \A v \in Workers : ~Runs(v, i)
    BY <1>1, <1>7 DEF RunnerInv, FlagTold
  <2>3. OneRunnerOf(i)' /\ FlagTold(i)' /\ QueueTold(i)'
    BY <1>1, <1>2, <1>5, <2>1, <2>2 DEF OneRunnerOf, FlagTold, QueueTold
  <2>4. QED
    BY <1>1, <1>4, <2>3 DEF RunnerInv
<1>8. QED
  BY <1>6, <1>7

(* Taking the next request, or leaving an empty queue without a runner.     *)
LEMMA DrainKeepsRunners ==
    ASSUME TypeOK, RunnerInv, NEW w \in Workers, Drain(w)
    PROVE  RunnerInv'
<1>1. PICK i \in Invokers : i = inv[w] /\ Runs(w, i)
  BY DEF Drain, Runs, TypeOK, WorkerTypes, Holds
<1>2. \A v \in Workers, j \in SerialInvokers : v # w \/ j # i => (Runs(v, j)' <=> Runs(v, j))
  <2>1. \A j \in SerialInvokers : j # i => ~Runs(w, j)
    BY <1>1 DEF Runs
  <2>2. \A v \in Workers \ {w} : pc'[v] = pc[v] /\ inv'[v] = inv[v]
    BY <1>1 DEF Drain, Rest, TypeOK, WorkerTypes
  <2>3. inv'[w] = NoInvoker \/ inv'[w] = i
    <3>1. CASE queue[i] = <<>>
      BY <1>1, <3>1 DEF Drain, Rest, TypeOK, WorkerTypes
    <3>2. CASE queue[i] # <<>>
      BY <1>1, <3>2 DEF Drain
    <3>3. QED
      BY <3>1, <3>2
  <2>4. \A j \in SerialInvokers : j # i => ~Runs(w, j)'
    BY <1>1, <2>3 DEF Runs, NoInvoker, SerialInvokers
  <2>5. QED
    BY <1>1, <2>1, <2>2, <2>4 DEF Runs
<1>3. \A j \in SerialInvokers : j # i => running'[j] = running[j] /\ queue'[j] = queue[j]
  <2>1. SerialInvokers \subseteq Invokers
    BY ServicesAssumption DEF SerialInvokers, Invokers
  <2>2. CASE queue[i] = <<>>
    BY <1>1, <2>1, <2>2 DEF Drain, TypeOK, SerialTypes
  <2>3. CASE queue[i] # <<>>
    BY <1>1, <2>1, <2>3 DEF Drain, TypeOK, SerialTypes
  <2>4. QED
    BY <2>2, <2>3
<1>4. ASSUME NEW j \in SerialInvokers, j # i
      PROVE  OneRunnerOf(j)' /\ FlagTold(j)' /\ QueueTold(j)'
  BY <1>1, <1>2, <1>3, <1>4 DEF RunnerInv, OneRunnerOf, FlagTold, QueueTold
<1>5. ASSUME i \in SerialInvokers, queue[i] = <<>>
      PROVE  OneRunnerOf(i)' /\ FlagTold(i)' /\ QueueTold(i)'
  <2>1. ~Runs(w, i)'
    BY <1>1, <1>5 DEF Drain, Rest, Runs, Executing, TypeOK, WorkerTypes
  <2>2. running'[i] = FALSE /\ queue'[i] = <<>>
    BY <1>1, <1>5 DEF Drain, StillRunning, TypeOK, SerialTypes
  <2>3. \A v \in Workers : ~Runs(v, i)'
    BY <1>1, <1>2, <1>5, <2>1 DEF RunnerInv, OneRunnerOf
  <2>4. QED
    BY <1>1, <2>2, <2>3 DEF OneRunnerOf, FlagTold, QueueTold
<1>6. ASSUME i \in SerialInvokers, queue[i] # <<>>
      PROVE  OneRunnerOf(i)' /\ FlagTold(i)' /\ QueueTold(i)'
  <2>1. Runs(w, i)'
    BY <1>1, <1>6 DEF Drain, Runs, Executing, TypeOK, WorkerTypes
  <2>2. running' = running
    BY <1>1, <1>6 DEF Drain
  <2>3. running[i]
    BY <1>1, <1>6 DEF RunnerInv, FlagTold
  <2>4. QED
    BY <1>1, <1>2, <1>6, <2>1, <2>2, <2>3 DEF RunnerInv, OneRunnerOf, FlagTold, QueueTold
<1>7. QED
  BY <1>1, <1>4, <1>5, <1>6 DEF RunnerInv

(* Every other step of a worker.                                            *)
LEMMA WorkerKeepsRunners ==
    ASSUME TypeOK, RunnerInv, NEW w \in Workers, WorkerStep(w), ~Enqueue(w), ~Drain(w)
    PROVE  RunnerInv'
<1>1. UNCHANGED serial
  BY DEF WorkerStep, Loop, GetEvent, PopRequest, Lookup, LockAndLookup, AddService, Register,
         Invoke, Ask, Return, serial
<1>2. \A v \in Workers \ {w} : pc'[v] = pc[v] /\ inv'[v] = inv[v]
  BY DEF WorkerStep, Loop, GetEvent, PopRequest, Lookup, LockAndLookup, AddService, Register,
         Invoke, Ask, Return, Rest, TypeOK, WorkerTypes
<1>3. ASSUME NEW i \in SerialInvokers PROVE Runs(w, i)' <=> Runs(w, i)
  <2> USE DEF Runs, Executing, TypeOK, WorkerTypes
  <2>1. CASE Loop(w) \/ GetEvent(w) \/ PopRequest(w)
    BY <2>1 DEF Loop, GetEvent, PopRequest, Retry
  <2>2. CASE Lookup(w) \/ LockAndLookup(w)
    BY <2>2 DEF Lookup, LockAndLookup, Rest
  <2>3. CASE AddService(w) \/ Register(w)
    BY <2>3 DEF AddService, Register
  <2>4. CASE Invoke(w)
    <3>1. inv[w] # i
      BY <2>4 DEF Invoke, SerialInvokers
    <3>2. QED
      BY <2>4, <3>1 DEF Invoke
  <2>5. CASE Ask(w)
    BY <2>5 DEF Ask
  <2>6. CASE Return(w)
    <3>1. CASE inv[w][1] \in Serialized
      BY <2>6, <3>1 DEF Return
    <3>2. CASE inv[w][1] \notin Serialized
      <4>1. inv[w] # i
        BY <3>2 DEF SerialInvokers
      <4>2. pc'[w] = "loop"
        BY <2>6, <3>2 DEF Return, Rest
      <4>3. QED
        BY <4>1, <4>2
    <3>3. QED
      BY <3>1, <3>2
  <2>7. QED
    BY <2>1, <2>2, <2>3, <2>4, <2>5, <2>6 DEF WorkerStep
<1>4. \A v \in Workers, i \in SerialInvokers : Runs(v, i)' <=> Runs(v, i)
  BY <1>2, <1>3 DEF Runs
<1>5. QED
  BY <1>1, <1>4, RunnersKept

(* The steps of the other threads.                                          *)
LEMMA OthersKeepRunners ==
    ASSUME TypeOK, RunnerInv, [Next]_vars, ~PoolStep PROVE RunnerInv'
<1>1. ASSUME NEW w \in Workers, ReplyArrives(w) \/ StartWorker(w) PROVE RunnerInv'
  <2>1. UNCHANGED serial
    BY <1>1 DEF ReplyArrives, StartWorker, serial
  <2>2. \A v \in Workers, i \in SerialInvokers : Runs(v, i)' <=> Runs(v, i)
    BY <1>1 DEF ReplyArrives, StartWorker, Runs, Executing, TypeOK, WorkerTypes
  <2>3. QED
    BY <2>1, <2>2, RunnersKept
<1>2. ASSUME UNCHANGED <<serial, worker>> PROVE RunnerInv'
  <2>1. UNCHANGED serial /\ pc' = pc /\ inv' = inv
    BY <1>2 DEF worker
  <2>2. QED
    BY <2>1, RunnersKept DEF Runs
<1>3. QED
  BY <1>1, <1>2, MainFrame, BrokerFrame DEF Next, vars

\* SerializedInvoker under any number of workers and requests: two threads never
\* run the same invoker's queue, which is what its _running flag is for, and no
\* request is left in the queue of an invoker that nobody runs.
THEOREM OneRunnerAlways == Spec => []OneRunner
<1>1. Init => RunnerInv
  <2>1. SUFFICES ASSUME Init, NEW i \in SerialInvokers
                 PROVE  OneRunnerOf(i) /\ FlagTold(i) /\ QueueTold(i)
    BY DEF RunnerInv
  <2>2. \A w \in Workers : ~Runs(w, i)
    BY <2>1 DEF Init, Runs, Executing
  <2>3. queue[i] = <<>> /\ running[i] = FALSE
    BY <2>1, ServicesAssumption DEF Init, SerialInvokers, Invokers
  <2>4. QED
    BY <2>2, <2>3 DEF OneRunnerOf, FlagTold, QueueTold
<1>2. TypeOK /\ RunnerInv /\ [Next]_vars => RunnerInv'
  BY EnqueueKeepsRunners, DrainKeepsRunners, WorkerKeepsRunners, OthersKeepRunners DEF PoolStep
<1>3. RunnerInv => OneRunner
  BY DEF RunnerInv, OneRunnerOf, FlagTold, QueueTold, OneRunner
<1>4. QED
  BY <1>1, <1>2, <1>3, TypeCorrect, PTL DEF Spec

----------------------------------------------------------------------------
(* Replies.  A request is in one place at a time: not received, about to    *)
(* be queued, on a Receiver's queue, with a worker, on an invoker's queue,  *)
(* or answered.  Each step moves one request from one place to another.     *)

Elements(s) == {s[n] : n \in 1..Len(s)}
NoDuplicates(s) == \A m, n \in 1..Len(s) : s[m] = s[n] => m = n

Handling == Executing \cup {"lookup", "lock", "fetch", "add", "register", "invoke"}

\* Spot k of its kind has request r; of the first three kinds there is one.
IsAt(r, kind, k) ==
    \/ kind = "fresh" /\ k = None /\ r \in fresh
    \/ kind = "put" /\ k = None /\ bpc = "put" /\ msg = r
    \/ kind = "answered" /\ k = None /\ answers[r] # 0
    \/ kind = "receiver" /\ k \in Receivers /\ r \in Elements(waiting[k])
    \/ kind = "worker" /\ k \in Workers /\ pc[k] \in Handling /\ cur[k] = r
    \/ kind = "queue" /\ k \in Invokers /\ r \in Elements(queue[k])

OneSpot ==
    \A r \in Requests : \A kind, k, other, l :
        IsAt(r, kind, k) /\ IsAt(r, other, l) => kind = other /\ k = l
ListedOnce ==
    /\ \A c \in Receivers : NoDuplicates(waiting[c])
    /\ \A i \in Invokers : NoDuplicates(queue[i])

SpotInv == OneSpot /\ ListedOnce /\ AnsweredOnce

\* What is on a list that grew by one, or lost its head.
LEMMA ElementsAppend ==
    ASSUME NEW S, NEW s \in Seq(S), NEW x \in S
    PROVE  /\ Elements(Append(s, x)) = Elements(s) \cup {x}
           /\ NoDuplicates(s) /\ x \notin Elements(s) => NoDuplicates(Append(s, x))
<1>1. PICK t : t = Append(s, x)
  OBVIOUS
<1>2. Len(s) \in Nat /\ Len(t) = Len(s) + 1 /\ t[Len(s) + 1] = x /\ \A j \in 1..Len(s) : t[j] = s[j]
  BY <1>1
<1>3. Elements(t) = Elements(s) \cup {x}
  <2>1. \A n \in 1..Len(t) : n \in 1..Len(s) \/ n = Len(s) + 1
    BY <1>2
  <2>2. Elements(t) \subseteq Elements(s) \cup {x}
    BY <1>2, <2>1 DEF Elements
  <2>3. Elements(s) \cup {x} \subseteq Elements(t)
    BY <1>2 DEF Elements
  <2> QED
    BY <2>2, <2>3
<1>4. ASSUME NoDuplicates(s), x \notin Elements(s) PROVE NoDuplicates(t)
  <2>1. \A n \in 1..Len(s) : s[n] # x
    BY <1>4 DEF Elements
  <2> QED
    BY <1>2, <1>4, <2>1 DEF NoDuplicates
<1> QED
  BY <1>1, <1>3, <1>4

\* Its head is not on what is left of it, if nothing was on it twice.
LEMMA ElementsTail ==
    ASSUME NEW S, NEW s \in Seq(S), s # <<>>
    PROVE  /\ Head(s) \in Elements(s) /\ Elements(Tail(s)) \subseteq Elements(s)
           /\ NoDuplicates(s) => NoDuplicates(Tail(s)) /\ Head(s) \notin Elements(Tail(s))
<1>1. PICK t : t = Tail(s)
  OBVIOUS
<1>2. /\ Len(s) \in Nat /\ Len(s) >= 1 /\ Len(t) = Len(s) - 1 /\ \A j \in 1..Len(t) : t[j] = s[j + 1]
      /\ Head(s) = s[1] /\ \A j \in 1..Len(t) : j + 1 \in 1..Len(s)
  BY <1>1
<1>3. Head(s) \in Elements(s) /\ Elements(t) \subseteq Elements(s)
  BY <1>2 DEF Elements
<1>4. NoDuplicates(s) => NoDuplicates(t) /\ Head(s) \notin Elements(t)
  BY <1>2 DEF Elements, NoDuplicates
<1> QED
  BY <1>1, <1>3, <1>4

\* A request goes from one spot to another, and the others stay where they are.
Moves(r, from, f, to, t) ==
    /\ IsAt(r, from, f)
    /\ \A x \in Requests : \A kind, k :
         IsAt(x, kind, k)' => \/ x = r /\ kind = to /\ k = t
                              \/ IsAt(x, kind, k) /\ ~(x = r /\ kind = from /\ k = f)

\* It is then in one spot, as the others.
LEMMA MoveKeepsSpots ==
    ASSUME OneSpot, NEW r \in Requests, NEW from, NEW f, NEW to, NEW t, Moves(r, from, f, to, t)
    PROVE  OneSpot'
<1> SUFFICES ASSUME NEW x \in Requests, NEW kind, NEW k, NEW other, NEW l,
                    IsAt(x, kind, k)', IsAt(x, other, l)'
             PROVE  kind = other /\ k = l
  BY DEF OneSpot
<1>1. CASE x # r
  BY <1>1 DEF OneSpot, Moves
<1>2. CASE x = r
  <2>1. \A b, c : IsAt(r, b, c)' => b = to /\ c = t
    BY DEF OneSpot, Moves
  <2> QED
    BY <1>2, <2>1
<1> QED
  BY <1>1, <1>2

\* A step that takes no request anywhere.
LEMMA StayKeepsSpots ==
    ASSUME SpotInv, UNCHANGED <<answers, queue, waiting>>,
           \A x \in Requests : \A kind, k : IsAt(x, kind, k)' => IsAt(x, kind, k)
    PROVE  SpotInv'
<1>1. OneSpot'
  BY DEF SpotInv, OneSpot
<1> QED
  BY <1>1 DEF SpotInv, ListedOnce, AnsweredOnce

\* The broker thread receives a request, or refuses it.
LEMMA ReceiveKeepsSpots ==
    ASSUME TypeOK, SpotInv, NEW r \in Requests, Receive(r) PROVE SpotInv'
<1>1. /\ fresh' = fresh \ {r} /\ r \in fresh /\ bpc = "idle"
      /\ UNCHANGED <<waiting, queue, pc, cur>>
  BY DEF Receive, serial, worker
<1>2. IsAt(r, "fresh", None)
  BY <1>1 DEF IsAt
<1>3. answers[r] = 0
  <2>1. ~IsAt(r, "answered", None)
    BY <1>2 DEF SpotInv, OneSpot
  <2> QED
    BY <2>1 DEF IsAt
<1>4. CASE Answer(r) /\ UNCHANGED <<bpc, msg>>
  <2>1. answers'[r] = 1 /\ \A x \in Requests : x # r => answers'[x] = answers[x]
    BY <1>3, <1>4 DEF Answer, TypeOK
  <2>2. ASSUME NEW x \in Requests, NEW kind, NEW k, IsAt(x, kind, k)'
        PROVE  \/ x = r /\ kind = "answered" /\ k = None
               \/ IsAt(x, kind, k) /\ ~(x = r /\ kind = "fresh" /\ k = None)
    BY <1>1, <1>4, <2>1, <2>2 DEF IsAt
  <2>3. OneSpot'
    <3>1. Moves(r, "fresh", None, "answered", None)
      BY <1>2, <2>2 DEF Moves
    <3> QED
      BY <3>1, MoveKeepsSpots DEF SpotInv
  <2> QED
    BY <1>1, <2>1, <2>3 DEF SpotInv, ListedOnce, AnsweredOnce
<1>5. CASE bpc' = "put" /\ msg' = r /\ UNCHANGED answers
  <2>2. ASSUME NEW x \in Requests, NEW kind, NEW k, IsAt(x, kind, k)'
        PROVE  \/ x = r /\ kind = "put" /\ k = None
               \/ IsAt(x, kind, k) /\ ~(x = r /\ kind = "fresh" /\ k = None)
    BY <1>1, <1>5, <2>2 DEF IsAt
  <2>3. OneSpot'
    <3>1. Moves(r, "fresh", None, "put", None)
      BY <1>2, <2>2 DEF Moves
    <3> QED
      BY <3>1, MoveKeepsSpots DEF SpotInv
  <2> QED
    BY <1>1, <1>5, <2>3 DEF SpotInv, ListedOnce, AnsweredOnce
<1> QED
  BY <1>4, <1>5 DEF Receive

\* The broker thread queues it.
LEMMA PutKeepsSpots == ASSUME TypeOK, SpotInv, Put PROVE SpotInv'
<1>1. /\ bpc = "put" /\ waiting' = [waiting EXCEPT ![dest] = Append(waiting[dest], msg)]
      /\ bpc' = "check" /\ UNCHANGED <<fresh, answers, queue, pc, cur>>
  BY DEF Put, serial, worker
<1>2. PICK r, c : r = msg /\ c = dest /\ r \in Requests /\ c \in Receivers
  BY <1>1 DEF TypeOK, BrokerTypes
<1>3. PICK s \in Seq(Requests) : s = waiting[c]
  BY <1>2 DEF TypeOK, IntakeTypes
<1>4. waiting'[c] = Append(s, r) /\ \A d \in Receivers : d # c => waiting'[d] = waiting[d]
  BY <1>1, <1>2, <1>3 DEF TypeOK, IntakeTypes
<1>5. IsAt(r, "put", None)
  BY <1>1, <1>2 DEF IsAt
<1>6. r \notin Elements(s)
  <2>1. ~IsAt(r, "receiver", c)
    BY <1>2, <1>5 DEF SpotInv, OneSpot
  <2> QED
    BY <1>2, <1>3, <2>1 DEF IsAt
<1>7. Elements(waiting'[c]) = Elements(s) \cup {r} /\ NoDuplicates(waiting'[c])
  BY <1>2, <1>3, <1>4, <1>6, ElementsAppend DEF SpotInv, ListedOnce
<1>8. ASSUME NEW x \in Requests, NEW kind, NEW k, IsAt(x, kind, k)'
      PROVE  \/ x = r /\ kind = "receiver" /\ k = c
             \/ IsAt(x, kind, k) /\ ~(x = r /\ kind = "put" /\ k = None)
  BY <1>1, <1>3, <1>4, <1>7, <1>8 DEF IsAt
<1>9. OneSpot'
  <2>1. Moves(r, "put", None, "receiver", c)
    BY <1>5, <1>8 DEF Moves
  <2> QED
    BY <1>2, <2>1, MoveKeepsSpots DEF SpotInv
<1>10. ListedOnce' /\ AnsweredOnce'
  BY <1>1, <1>4, <1>7 DEF SpotInv, ListedOnce, AnsweredOnce
<1> QED
  BY <1>9, <1>10 DEF SpotInv

\* A worker takes a request from a Receiver.
LEMMA PopKeepsSpots == ASSUME TypeOK, SpotInv, NEW w \in Workers, PopRequest(w) PROVE SpotInv'
<1>1. pc[w] = "pop" /\ UNCHANGED <<fresh, answers, bpc, msg, queue>>
  BY DEF PopRequest, broker, serial
<1>2. PICK c \in Receivers : c = cur[w]
  BY <1>1 DEF TypeOK, WorkerTypes, Holds
<1>3. \A v \in Workers : v # w => pc'[v] = pc[v] /\ cur'[v] = cur[v]
  BY DEF PopRequest, TypeOK, WorkerTypes
<1>4. CASE UNCHANGED waiting /\ \E p \in {"exited", "get"} : pc' = [pc EXCEPT ![w] = p]
  <2>1. pc'[w] \notin Handling
    BY <1>4 DEF Handling, Executing, TypeOK, WorkerTypes
  <2>2. \A x \in Requests : \A kind, k : IsAt(x, kind, k)' => IsAt(x, kind, k)
    BY <1>1, <1>3, <1>4, <2>1 DEF IsAt
  <2> QED
    BY <1>1, <1>4, <2>2, StayKeepsSpots
<1>5. CASE /\ waiting[c] # <<>> /\ waiting' = [waiting EXCEPT ![c] = Tail(waiting[c])]
           /\ cur' = [cur EXCEPT ![w] = Head(waiting[c])]
  <2>1. PICK s \in Seq(Requests) : s = waiting[c] /\ s # <<>>
    BY <1>5 DEF TypeOK, IntakeTypes
  <2>2. PICK r : r = Head(s) /\ r \in Requests
    BY <2>1
  <2>3. waiting'[c] = Tail(s) /\ \A d \in Receivers : d # c => waiting'[d] = waiting[d]
    BY <1>5, <2>1 DEF TypeOK, IntakeTypes
  <2>4. NoDuplicates(s)
    BY <2>1 DEF SpotInv, ListedOnce
  <2>5. /\ r \in Elements(s) /\ Elements(Tail(s)) \subseteq Elements(s) \ {r}
        /\ NoDuplicates(Tail(s))
    BY <2>1, <2>2, <2>4, ElementsTail
  <2>6. IsAt(r, "receiver", c)
    BY <2>1, <2>5 DEF IsAt
  <2>7. cur'[w] = r
    BY <1>5, <2>1, <2>2 DEF TypeOK, WorkerTypes
  <2>8. ASSUME NEW x \in Requests, NEW kind, NEW k, IsAt(x, kind, k)'
        PROVE  \/ x = r /\ kind = "worker" /\ k = w
               \/ IsAt(x, kind, k) /\ ~(x = r /\ kind = "receiver" /\ k = c)
    BY <1>1, <1>3, <2>1, <2>3, <2>5, <2>7, <2>8 DEF IsAt
  <2>9. OneSpot'
    <3>1. Moves(r, "receiver", c, "worker", w)
      BY <2>6, <2>8 DEF Moves
    <3> QED
      BY <2>2, <3>1, MoveKeepsSpots DEF SpotInv
  <2>10. ListedOnce' /\ AnsweredOnce'
    BY <1>1, <2>3, <2>5 DEF SpotInv, ListedOnce, AnsweredOnce
  <2> QED
    BY <2>9, <2>10 DEF SpotInv
<1> QED
  BY <1>2, <1>4, <1>5 DEF PopRequest, Retry

\* The other workers are where they were, and hold what they held.
OthersAsTheyWere(w) == \A v \in Workers : v # w => pc'[v] = pc[v] /\ cur'[v] = cur[v]

\* What a worker does with the request it holds: nothing that moves it.
LEMMA WorkerStays ==
    ASSUME SpotInv, NEW w \in Workers, OthersAsTheyWere(w),
           UNCHANGED <<fresh, answers, bpc, msg, waiting, queue>>,
           pc'[w] \in Handling => pc[w] \in Handling /\ cur'[w] = cur[w]
    PROVE  SpotInv'
<1>1. \A x \in Requests : \A kind, k : IsAt(x, kind, k)' => IsAt(x, kind, k)
  BY DEF IsAt, OthersAsTheyWere
<1> QED
  BY <1>1, StayKeepsSpots

\* Or it replies to it, and lets go of it.
LEMMA WorkerAnswers ==
    ASSUME TypeOK, SpotInv, NEW w \in Workers, OthersAsTheyWere(w),
           UNCHANGED <<fresh, bpc, msg, waiting, queue>>,
           pc[w] \in Handling, Answer(cur[w]), pc'[w] \notin Handling
    PROVE  SpotInv'
<1>1. PICK r \in Requests : r = cur[w]
  BY DEF TypeOK, WorkerTypes, Holds, Handling
<1>2. IsAt(r, "worker", w)
  BY <1>1 DEF IsAt
<1>3. answers[r] = 0
  <2>1. ~IsAt(r, "answered", None)
    BY <1>2 DEF SpotInv, OneSpot
  <2> QED
    BY <2>1 DEF IsAt
<1>4. answers'[r] = 1 /\ \A x \in Requests : x # r => answers'[x] = answers[x]
  BY <1>1, <1>3 DEF Answer, TypeOK
<1>5. ASSUME NEW x \in Requests, NEW kind, NEW k, IsAt(x, kind, k)'
      PROVE  \/ x = r /\ kind = "answered" /\ k = None
             \/ IsAt(x, kind, k) /\ ~(x = r /\ kind = "worker" /\ k = w)
  BY <1>4, <1>5 DEF IsAt, OthersAsTheyWere
<1>6. OneSpot'
  <2>1. Moves(r, "worker", w, "answered", None)
    BY <1>2, <1>5 DEF Moves
  <2> QED
    BY <2>1, MoveKeepsSpots DEF SpotInv
<1> QED
  BY <1>4, <1>6 DEF SpotInv, ListedOnce, AnsweredOnce

\* A SerializedInvoker's queue takes the request.
LEMMA EnqueueKeepsSpots == ASSUME TypeOK, SpotInv, NEW w \in Workers, Enqueue(w) PROVE SpotInv'
<1>1. /\ pc[w] = "invoke" /\ queue' = [queue EXCEPT ![inv[w]] = Append(queue[inv[w]], cur[w])]
      /\ UNCHANGED <<fresh, answers, bpc, msg, waiting>>
  BY DEF Enqueue, NoReply, intake, broker
<1>2. PICK r, i : r = cur[w] /\ i = inv[w] /\ r \in Requests /\ i \in Invokers
  BY <1>1 DEF TypeOK, WorkerTypes, Holds
<1>3. PICK s \in Seq(Requests) : s = queue[i]
  BY <1>2 DEF TypeOK, SerialTypes
<1>4. queue'[i] = Append(s, r) /\ \A j \in Invokers : j # i => queue'[j] = queue[j]
  BY <1>1, <1>2, <1>3 DEF TypeOK, SerialTypes
<1>5. OthersAsTheyWere(w) /\ pc'[w] \notin Handling
  BY DEF Enqueue, Rest, OthersAsTheyWere, Handling, Executing, TypeOK, WorkerTypes
<1>6. IsAt(r, "worker", w)
  BY <1>1, <1>2 DEF IsAt, Handling
<1>7. r \notin Elements(s)
  <2>1. ~IsAt(r, "queue", i)
    BY <1>2, <1>6 DEF SpotInv, OneSpot
  <2> QED
    BY <1>2, <1>3, <2>1 DEF IsAt
<1>8. Elements(queue'[i]) = Elements(s) \cup {r} /\ NoDuplicates(queue'[i])
  BY <1>2, <1>3, <1>4, <1>7, ElementsAppend DEF SpotInv, ListedOnce
<1>9. ASSUME NEW x \in Requests, NEW kind, NEW k, IsAt(x, kind, k)'
      PROVE  \/ x = r /\ kind = "queue" /\ k = i
             \/ IsAt(x, kind, k) /\ ~(x = r /\ kind = "worker" /\ k = w)
  BY <1>1, <1>3, <1>4, <1>5, <1>8, <1>9 DEF IsAt, OthersAsTheyWere
<1>10. OneSpot'
  <2>1. Moves(r, "worker", w, "queue", i)
    BY <1>6, <1>9 DEF Moves
  <2> QED
    BY <1>2, <2>1, MoveKeepsSpots DEF SpotInv
<1>11. ListedOnce' /\ AnsweredOnce'
  BY <1>1, <1>4, <1>8 DEF SpotInv, ListedOnce, AnsweredOnce
<1> QED
  BY <1>10, <1>11 DEF SpotInv

\* The worker that runs the queue takes the next request from it.
LEMMA DrainKeepsSpots == ASSUME TypeOK, SpotInv, NEW w \in Workers, Drain(w) PROVE SpotInv'
<1>1. pc[w] = "drain" /\ UNCHANGED <<fresh, answers, bpc, msg, waiting>>
  BY DEF Drain, intake, broker
<1>2. PICK i \in Invokers : i = inv[w]
  BY <1>1 DEF TypeOK, WorkerTypes, Holds
<1>3. OthersAsTheyWere(w)
  BY DEF Drain, Rest, OthersAsTheyWere, TypeOK, WorkerTypes
<1>4. CASE queue[i] = <<>>
  <2>1. UNCHANGED queue /\ pc'[w] \notin Handling
    BY <1>2, <1>4 DEF Drain, Rest, Handling, Executing, TypeOK, WorkerTypes
  <2> QED
    BY <1>1, <1>3, <2>1, WorkerStays
<1>5. CASE queue[i] # <<>>
  <2>1. PICK s \in Seq(Requests) : s = queue[i] /\ s # <<>>
    BY <1>5 DEF TypeOK, SerialTypes
  <2>2. PICK r : r = Head(s) /\ r \in Requests
    BY <2>1
  <2>3. queue' = [queue EXCEPT ![i] = Tail(s)] /\ cur' = [cur EXCEPT ![w] = Head(s)]
    BY <1>2, <1>5, <2>1 DEF Drain
  <2>4. queue'[i] = Tail(s) /\ \A j \in Invokers : j # i => queue'[j] = queue[j]
    BY <2>1, <2>3 DEF TypeOK, SerialTypes
  <2>5. NoDuplicates(s)
    BY <2>1 DEF SpotInv, ListedOnce
  <2>6. /\ r \in Elements(s) /\ Elements(Tail(s)) \subseteq Elements(s) \ {r}
        /\ NoDuplicates(Tail(s))
    BY <2>1, <2>2, <2>5, ElementsTail
  <2>7. IsAt(r, "queue", i)
    BY <2>1, <2>6 DEF IsAt
  <2>8. cur'[w] = r
    BY <2>2, <2>3 DEF TypeOK, WorkerTypes
  <2>9. ASSUME NEW x \in Requests, NEW kind, NEW k, IsAt(x, kind, k)'
        PROVE  \/ x = r /\ kind = "worker" /\ k = w
               \/ IsAt(x, kind, k) /\ ~(x = r /\ kind = "queue" /\ k = i)
    BY <1>1, <1>3, <2>1, <2>4, <2>6, <2>8, <2>9 DEF IsAt, OthersAsTheyWere
  <2>10. OneSpot'
    <3>1. Moves(r, "queue", i, "worker", w)
      BY <2>7, <2>9 DEF Moves
    <3> QED
      BY <2>2, <3>1, MoveKeepsSpots DEF SpotInv
  <2>11. ListedOnce' /\ AnsweredOnce'
    BY <1>1, <2>4, <2>6 DEF SpotInv, ListedOnce, AnsweredOnce
  <2> QED
    BY <2>10, <2>11 DEF SpotInv
<1> QED
  BY <1>4, <1>5

\* The other steps of a worker.
LEMMA WorkerKeepsSpots == ASSUME TypeOK, SpotInv, NEW w \in Workers, WorkerStep(w) PROVE SpotInv'
<1> USE DEF TypeOK, WorkerTypes, OthersAsTheyWere, Handling, Executing, intake, broker, serial
<1>1. CASE Loop(w)
  <2>1. pc'[w] \notin Handling
    BY <1>1 DEF Loop
  <2> QED
    BY <1>1, <2>1, WorkerStays DEF Loop
<1>2. CASE GetEvent(w)
  <2>1. pc'[w] \notin Handling
    BY <1>2 DEF GetEvent
  <2>2. OthersAsTheyWere(w) /\ UNCHANGED <<fresh, answers, bpc, msg, waiting, queue>>
    BY <1>2 DEF GetEvent
  <2> QED
    BY <2>1, <2>2, WorkerStays
<1>3. CASE Lookup(w)
  <2>1. pc[w] \in Handling /\ cur'[w] = cur[w] /\ OthersAsTheyWere(w)
    BY <1>3 DEF Lookup
  <2> QED
    BY <1>3, <2>1, WorkerStays DEF Lookup
<1>4. CASE LockAndLookup(w)
  <2>1. pc[w] \in Handling /\ UNCHANGED <<fresh, bpc, msg, waiting, queue>>
    BY <1>4 DEF LockAndLookup
  <2>2. OthersAsTheyWere(w)
    BY <1>4 DEF LockAndLookup, Rest
  <2>3. CASE Answer(cur[w]) /\ Rest(w)
    <3>1. pc'[w] \notin Handling
      BY <2>3 DEF Rest
    <3> QED
      BY <2>1, <2>2, <2>3, <3>1, WorkerAnswers
  <2>4. CASE UNCHANGED <<answers, cur>>
    BY <2>1, <2>2, <2>4, WorkerStays
  <2> QED
    BY <1>4, <2>3, <2>4 DEF LockAndLookup
<1>5. CASE AddService(w) \/ Register(w) \/ Invoke(w) \/ Ask(w)
  <2>1. pc[w] \in Handling /\ cur'[w] = cur[w] /\ OthersAsTheyWere(w)
    BY <1>5 DEF AddService, Register, Invoke, Ask
  <2>2. UNCHANGED <<fresh, answers, bpc, msg, waiting, queue>>
    BY <1>5 DEF AddService, Register, Invoke, Ask
  <2> QED
    BY <2>1, <2>2, WorkerStays
<1>6. CASE Return(w)
  <2>1. pc[w] \in Handling /\ UNCHANGED <<fresh, bpc, msg, waiting, queue>> /\ Answer(cur[w])
    BY <1>6 DEF Return
  <2>2. OthersAsTheyWere(w) /\ pc'[w] \notin Handling
    BY <1>6 DEF Return, Rest
  <2> QED
    BY <2>1, <2>2, WorkerAnswers
<1> QED
  BY <1>1, <1>2, <1>3, <1>4, <1>5, <1>6, PopKeepsSpots, EnqueueKeepsSpots, DrainKeepsSpots
  DEF WorkerStep

\* Every step of the three kinds of thread.
LEMMA NextKeepsSpots == ASSUME TypeOK, SpotInv, [Next]_vars PROVE SpotInv'
<1> USE DEF intake, broker, serial, worker
<1>1. ASSUME NEW w \in Workers, ReplyArrives(w) \/ StartWorker(w) PROVE SpotInv'
  <2>1. OthersAsTheyWere(w) /\ UNCHANGED <<fresh, answers, bpc, msg, waiting, queue>>
    BY <1>1 DEF ReplyArrives, StartWorker, OthersAsTheyWere, TypeOK, WorkerTypes
  <2>2. cur'[w] = cur[w] /\ (pc'[w] \in Handling => pc[w] \in Handling)
    BY <1>1 DEF ReplyArrives, StartWorker, Handling, Executing, TypeOK, WorkerTypes
  <2> QED
    BY <2>1, <2>2, WorkerStays
<1>2. ASSUME UNCHANGED <<fresh, answers, waiting, queue, pc, cur>>, bpc' # "put" \/ (bpc' = bpc /\ msg' = msg)
      PROVE  SpotInv'
  <2>1. \A x \in Requests : \A kind, k : IsAt(x, kind, k)' => IsAt(x, kind, k)
    BY <1>2 DEF IsAt
  <2> QED
    BY <1>2, <2>1, StayKeepsSpots
<1>3. CASE MainStep /\ ~\E w \in Workers : StartWorker(w)
  <2>1. UNCHANGED <<fresh, answers, waiting>>
    BY <1>3 DEF MainStep, TakeSentinel, MainEnds, Overwrite, Unstub, Listen, AddHook, CountQueued,
                Announce
  <2> QED
    BY <1>2, <1>3, <2>1, MainFrame
<1>4. CASE BrokerStep /\ ~Put /\ ~\E w \in Workers : ReplyArrives(w)
  <2>1. UNCHANGED <<fresh, answers, waiting>> /\ (bpc' # "put" \/ (bpc' = bpc /\ msg' = msg))
    BY <1>4 DEF BrokerStep, CheckNotify, CallNotify, TestHook, Unhook, CloseInbox, NextListener,
                StopFlag, StopReceiver, Detach, CloseSelect, Joined
  <2> QED
    BY <1>2, <1>4, <2>1, BrokerFrame
<1>5. CASE ShutdownFires
  BY <1>2, <1>5 DEF ShutdownFires
<1>6. CASE UNCHANGED vars
  BY <1>2, <1>6 DEF vars
<1> QED
  BY <1>1, <1>3, <1>4, <1>5, <1>6, ReceiveKeepsSpots, PutKeepsSpots, WorkerKeepsSpots
  DEF Next, PoolStep, MainStep, BrokerStep

\* Before anything is received.
LEMMA InitSpots == ASSUME Init PROVE SpotInv
<1>1. \A x \in Requests : \A kind, k : IsAt(x, kind, k) => kind = "fresh" /\ k = None
  <2>1. \A c \in Receivers : Elements(waiting[c]) = {}
    BY DEF Init, Elements, Receivers
  <2>2. \A i \in Invokers : Elements(queue[i]) = {}
    BY DEF Init, Elements
  <2> QED
    BY <2>1, <2>2 DEF Init, IsAt, Handling, Executing
<1>2. OneSpot
  BY <1>1 DEF OneSpot
<1>3. ListedOnce
  BY DEF Init, ListedOnce, NoDuplicates, Receivers
<1>4. AnsweredOnce
  BY DEF Init, AnsweredOnce
<1> QED
  BY <1>2, <1>3, <1>4 DEF SpotInv

\* One reply at most: the queues a request passes through on its way to a
\* method (a Receiver's, the serialized invoker's) hold it once, the thread that
\* takes it is the only one to hold it, and what replies (_invoke()'s refusal,
\* get_invoker()'s, the method's return) lets go of it for good.
THEOREM NoSecondAnswer == Spec => []AnsweredOnce
<1>1. SpotInv => AnsweredOnce
  BY DEF SpotInv
<1> QED
  BY <1>1, InitSpots, NextKeepsSpots, TypeCorrect, PTL DEF Spec

----------------------------------------------------------------------------
(* Events.  While nobody shuts down, each request on a Receiver that        *)
(* belongs to the Select has an announcement: one of four kinds.            *)

InEvents(c) == CountIn(events, c)
Popping(c) == {w \in Workers : pc[w] = "pop" /\ cur[w] = c}
InHands(c) == Cardinality(Popping(c))
Delivered(c) == IF dest = c /\ bpc \in {"check", "notify"} THEN 1 ELSE 0
Announced(c) == InEvents(c) + ToAnnounce(c) + InHands(c) + Delivered(c)

Watched(c) == notify[c] = "select" /\ ~ToCount(c)

\* Neither the broker thread is in a listener of 'shutdown' nor stop() has begun.
Undisturbed ==
    /\ bpc \in {"hook", "unhook", "close", "next", "stop"} => shutdown = "firing"
    /\ stage > 0 => shutdown # "no"

AnnouncedOf(c) == shutdown = "no" /\ Watched(c) => Len(waiting[c]) <= Announced(c)
AnnouncedInv == Undisturbed /\ \A c \in Receivers : AnnouncedOf(c)

\* Where an element is on a list.
PositionsOf(s, c) == {i \in DOMAIN s : s[i] = c}

\* An element that is appended counts once more.
LEMMA CountAppend ==
    ASSUME NEW S, NEW s \in Seq(S), NEW x \in S, NEW c
    PROVE  /\ CountIn(s, c) \in Nat
           /\ CountIn(Append(s, x), c) = CountIn(s, c) + (IF x = c THEN 1 ELSE 0)
<1>1. PICK t : t = Append(s, x)
  OBVIOUS
<1>2. PICK n \in Nat : n = Len(s)
  OBVIOUS
<1>3. /\ DOMAIN s = 1..n /\ DOMAIN t = 1..(n + 1)
      /\ t[n + 1] = x /\ \A j \in 1..n : t[j] = s[j]
  BY <1>1, <1>2
<1>4. PositionsOf(t, c) = IF x = c THEN PositionsOf(s, c) \cup {n + 1} ELSE PositionsOf(s, c)
  <2>1. \A j \in 1..(n + 1) : j \in 1..n \/ j = n + 1
    BY <1>2
  <2>2. 1..n \subseteq 1..(n + 1) /\ n + 1 \in 1..(n + 1)
    BY <1>2
  <2> QED
    BY <1>3, <2>1, <2>2 DEF PositionsOf
<1>5. n + 1 \notin PositionsOf(s, c)
  BY <1>2, <1>3 DEF PositionsOf
<1>6. IsFiniteSet(1..n)
  BY <1>2, FS_Interval
<1>7. PositionsOf(s, c) \in SUBSET (1..n)
  BY <1>3 DEF PositionsOf
<1>8. IsFiniteSet(PositionsOf(s, c))
  BY <1>6, <1>7, FS_Subset
<1>9. Cardinality(PositionsOf(s, c)) \in Nat
  BY <1>8, FS_CardinalityType
<1>10. Cardinality(PositionsOf(s, c) \cup {n + 1}) = Cardinality(PositionsOf(s, c)) + 1
  BY <1>5, <1>8, FS_AddElement
<1>11. /\ CountIn(s, c) = Cardinality(PositionsOf(s, c))
       /\ CountIn(t, c) = Cardinality(PositionsOf(t, c))
  BY DEF CountIn, PositionsOf
<1> QED
  BY <1>1, <1>4, <1>9, <1>10, <1>11

\* The head of a list counts once.
LEMMA CountTail ==
    ASSUME NEW S, NEW s \in Seq(S), s # <<>>, NEW c
    PROVE  CountIn(s, c) <= CountIn(Tail(s), c) + (IF Head(s) = c THEN 1 ELSE 0)
<1>1. PICK t \in Seq(S) : t = Tail(s)
  BY TailLemma
<1>2. PICK n \in Nat : n = Len(s) /\ n >= 1
  OBVIOUS
<1>3. /\ DOMAIN s = 1..n /\ DOMAIN t = 1..(n - 1) /\ Head(s) = s[1]
      /\ \A j \in 1..(n - 1) : t[j] = s[j + 1]
  BY <1>1, <1>2
<1>4. PICK A, B : A = PositionsOf(s, c) /\ B = PositionsOf(t, c)
  OBVIOUS
<1>5. IsFiniteSet(A) /\ IsFiniteSet(B)
  <2>1. IsFiniteSet(1..n) /\ IsFiniteSet(1..(n - 1))
    BY <1>2, FS_Interval
  <2>2. A \in SUBSET (1..n) /\ B \in SUBSET (1..(n - 1))
    BY <1>3, <1>4 DEF PositionsOf
  <2> QED
    BY <2>1, <2>2, FS_Subset
<1>6. Cardinality(A) \in Nat /\ Cardinality(B) \in Nat
  BY <1>5, FS_CardinalityType
<1>7. Cardinality(A \ {1}) <= Cardinality(B)
  <2>1. PICK f : f = [i \in A \ {1} |-> i - 1]
    OBVIOUS
  <2>2. \A i \in A \ {1} : i \in 2..n /\ i - 1 \in 1..(n - 1) /\ (i - 1) + 1 = i /\ s[i] = c
    BY <1>2, <1>3, <1>4 DEF PositionsOf
  <2>3. \A i \in A \ {1} : f[i] \in B
    BY <1>3, <1>4, <2>1, <2>2 DEF PositionsOf
  <2>4. f \in [A \ {1} -> B]
    BY <2>1, <2>3
  <2>5. \A a, b \in A \ {1} : f[a] = f[b] => a = b
    BY <2>1, <2>2
  <2>6. f \in Injection(A \ {1}, B)
    BY <2>4, <2>5, Fun_IsInj
  <2> QED
    BY <1>5, <2>6, FS_Injection
<1>8. Cardinality(A \ {1}) = IF 1 \in A THEN Cardinality(A) - 1 ELSE Cardinality(A)
  BY <1>5, FS_RemoveElement
<1>9. 1 \in A <=> Head(s) = c
  BY <1>2, <1>3, <1>4 DEF PositionsOf
<1>10. CountIn(s, c) = Cardinality(A) /\ CountIn(t, c) = Cardinality(B)
  BY <1>4 DEF CountIn, PositionsOf
<1> QED
  BY <1>1, <1>6, <1>7, <1>8, <1>9, <1>10

\* The four kinds are numbers.
LEMMA Tallies ==
    ASSUME TypeOK, NEW c \in Receivers
    PROVE  /\ InEvents(c) \in Nat /\ ToAnnounce(c) \in Nat /\ Delivered(c) \in Nat
           /\ IsFiniteSet(Popping(c)) /\ InHands(c) \in Nat /\ Len(waiting[c]) \in Nat
<1>1. InEvents(c) \in Nat
  BY CountAppend DEF TypeOK, SelectTypes, InEvents
<1>2. ToAnnounce(c) \in Nat /\ Delivered(c) \in Nat
  BY DEF TypeOK, BuilderTypes, ToAnnounce, Delivered
<1>3. IsFiniteSet(Popping(c))
  <2>1. Popping(c) \in SUBSET Workers
    BY DEF Popping
  <2> QED
    BY <2>1, FS_Subset, ServicesAssumption
<1>4. InHands(c) \in Nat
  BY <1>3, FS_CardinalityType DEF InHands
<1>5. Len(waiting[c]) \in Nat
  BY DEF TypeOK, IntakeTypes
<1> QED
  BY <1>1, <1>2, <1>3, <1>4, <1>5

\* After a step too.
LEMMA TalliesAfter ==
    ASSUME TypeOK', NEW c \in Receivers
    PROVE  /\ InEvents(c)' \in Nat /\ ToAnnounce(c)' \in Nat /\ Delivered(c)' \in Nat
           /\ IsFiniteSet(Popping(c)') /\ InHands(c)' \in Nat /\ Len(waiting'[c]) \in Nat
<1>1. IsFiniteSet(Popping(c)')
  <2>1. Popping(c)' \in SUBSET Workers
    BY DEF Popping
  <2> QED
    BY <2>1, FS_Subset, ServicesAssumption
<1>2. InHands(c)' \in Nat
  BY <1>1, FS_CardinalityType DEF InHands
<1>3. InEvents(c)' \in Nat
  <2>1. InEvents(c)' = CountIn(events', c)
    BY DEF InEvents, CountIn
  <2> QED
    BY <2>1, CountAppend DEF TypeOK, SelectTypes
<1>4. ToAnnounce(c)' \in Nat
  BY DEF TypeOK, BuilderTypes, ToAnnounce
<1>5. Delivered(c)' \in Nat
  BY DEF Delivered
<1>6. Len(waiting'[c]) \in Nat
  BY DEF TypeOK, IntakeTypes
<1> QED
  BY <1>1, <1>2, <1>3, <1>4, <1>5, <1>6

\* A step that takes no more announcements away than requests.
LEMMA Balance ==
    ASSUME TypeOK, TypeOK', NEW c \in Receivers, AnnouncedOf(c), shutdown = "no",
           Watched(c)' => Watched(c),
           Len(waiting'[c]) + InEvents(c) + ToAnnounce(c) + InHands(c) + Delivered(c)
             <= Len(waiting[c]) + InEvents(c)' + ToAnnounce(c)' + InHands(c)' + Delivered(c)'
    PROVE  AnnouncedOf(c)'
<1>1. (Len(waiting[c]))' = Len(waiting'[c])
  OBVIOUS
<1>2. (Announced(c))' = InEvents(c)' + ToAnnounce(c)' + InHands(c)' + Delivered(c)'
  BY DEF Announced
<1>3. /\ InEvents(c) \in Nat /\ ToAnnounce(c) \in Nat /\ InHands(c) \in Nat /\ Delivered(c) \in Nat
      /\ Len(waiting[c]) \in Nat
  BY Tallies
<1>4. /\ InEvents(c)' \in Nat /\ ToAnnounce(c)' \in Nat /\ InHands(c)' \in Nat
      /\ Delivered(c)' \in Nat /\ Len(waiting'[c]) \in Nat
  BY TalliesAfter
<1>5. Watched(c) => Len(waiting[c]) <= InEvents(c) + ToAnnounce(c) + InHands(c) + Delivered(c)
  BY DEF AnnouncedOf, Announced
<1>6. Watched(c) => Len(waiting'[c]) <= InEvents(c)' + ToAnnounce(c)' + InHands(c)' + Delivered(c)'
  <2>1. PICK e, a, h, d, l \in Nat :
          e = InEvents(c) /\ a = ToAnnounce(c) /\ h = InHands(c) /\ d = Delivered(c) /\ l = Len(waiting[c])
    BY <1>3
  <2>2. PICK e1, a1, h1, d1, l1 \in Nat :
          /\ e1 = InEvents(c)' /\ a1 = ToAnnounce(c)' /\ h1 = InHands(c)' /\ d1 = Delivered(c)'
          /\ l1 = Len(waiting'[c])
    BY <1>4
  <2>3. l1 + e + a + h + d <= l + e1 + a1 + h1 + d1
    BY <2>1, <2>2
  <2>4. l <= e + a + h + d => l1 <= e1 + a1 + h1 + d1
    BY <2>3
  <2> QED
    BY <1>5, <2>1, <2>2, <2>4
<1> QED
  BY <1>1, <1>2, <1>6 DEF AnnouncedOf

\* Nothing but the tallies a step does not touch.
LEMMA SameTallies ==
    ASSUME NEW c
    PROVE  /\ UNCHANGED events => InEvents(c)' = InEvents(c)
           /\ UNCHANGED <<main, left>> => ToAnnounce(c)' = ToAnnounce(c)
           /\ UNCHANGED <<main, notify>> => Watched(c)' = Watched(c)
           /\ UNCHANGED <<pc, cur>> => InHands(c)' = InHands(c)
           /\ UNCHANGED <<bpc, dest>> => Delivered(c)' = Delivered(c)
<1>1. UNCHANGED events => InEvents(c)' = InEvents(c)
  BY DEF InEvents, CountIn
<1>2. UNCHANGED <<main, left>> => ToAnnounce(c)' = ToAnnounce(c)
  BY DEF ToAnnounce
<1>3. UNCHANGED <<main, notify>> => Watched(c)' = Watched(c)
  BY DEF Watched, ToCount
<1>4. UNCHANGED <<pc, cur>> => InHands(c)' = InHands(c)
  BY DEF InHands, Popping
<1>5. UNCHANGED <<bpc, dest>> => Delivered(c)' = Delivered(c)
  BY DEF Delivered
<1> QED
  BY <1>1, <1>2, <1>3, <1>4, <1>5

\* The events in workers' hands, when the same workers pop the same Receiver.
LEMMA SameHands ==
    ASSUME NEW c, \A v \in Workers : (pc'[v] = "pop" /\ cur'[v] = c) <=> (pc[v] = "pop" /\ cur[v] = c)
    PROVE  InHands(c)' = InHands(c)
<1>1. Popping(c)' = Popping(c)
  BY DEF Popping
<1> QED
  BY <1>1 DEF InHands

\* An event on the Select's queue counts for its Receiver.
LEMMA EventAdded ==
    ASSUME TypeOK, NEW c \in Receivers, NEW d \in Receivers, events' = Append(events, d)
    PROVE  InEvents(c)' = InEvents(c) + (IF d = c THEN 1 ELSE 0)
<1>1. InEvents(c)' = CountIn(events', c)
  BY DEF InEvents, CountIn
<1>2. events \in Seq(Receivers)
  BY DEF TypeOK, SelectTypes
<1>3. CountIn(Append(events, d), c) = CountIn(events, c) + (IF d = c THEN 1 ELSE 0)
  BY <1>2, CountAppend
<1> QED
  BY <1>1, <1>3 DEF InEvents

\* The steps of the main thread.
LEMMA MainAnnounces ==
    ASSUME TypeOK, TypeOK', Undisturbed, MainStep, shutdown = "no",
           NEW c \in Receivers, AnnouncedOf(c)
    PROVE  AnnouncedOf(c)'
<1>1. /\ InEvents(c) \in Nat /\ ToAnnounce(c) \in Nat /\ Delivered(c) \in Nat
      /\ InHands(c) \in Nat /\ Len(waiting[c]) \in Nat
  BY Tallies
<1>2. /\ InEvents(c)' \in Nat /\ ToAnnounce(c)' \in Nat /\ Delivered(c)' \in Nat
      /\ InHands(c)' \in Nat /\ Len(waiting'[c]) \in Nat
  BY TalliesAfter
<1>3. ASSUME UNCHANGED <<waiting, events, pc, cur, bpc, dest>>, ToAnnounce(c)' = ToAnnounce(c),
             Watched(c)' => Watched(c)
      PROVE  AnnouncedOf(c)'
  <2>1. InEvents(c)' = InEvents(c) /\ InHands(c)' = InHands(c) /\ Delivered(c)' = Delivered(c)
    BY <1>3, SameTallies
  <2>2. waiting' = waiting
    BY <1>3
  <2>3. Len(waiting'[c]) + InEvents(c) + ToAnnounce(c) + InHands(c) + Delivered(c)
          <= Len(waiting[c]) + InEvents(c)' + ToAnnounce(c)' + InHands(c)' + Delivered(c)'
    BY <1>1, <1>3, <2>1, <2>2
  <2> QED
    BY <1>3, <2>3, Balance
<1>4. CASE TakeSentinel \/ MainEnds \/ Overwrite \/ Unstub \/ Listen
  <2>1. UNCHANGED <<waiting, events, pc, cur, bpc, dest>>
    BY <1>4 DEF TakeSentinel, MainEnds, Overwrite, Unstub, Listen, broker, select, worker, intake
  <2>2. main \in {"idle", "overwrite", "unstub", "listen"} /\ main' \in {"overwrite", "idle", "done", "own", "adopt"}
    BY <1>4 DEF TakeSentinel, MainEnds, Overwrite, Unstub, Listen, MainGoes
  <2>3. ToAnnounce(c)' = ToAnnounce(c) /\ ~ToCount(c)
    BY <2>2 DEF ToAnnounce, ToCount
  <2>4. notify'[c] = "select" => notify[c] = "select"
    <3>1. CASE Unstub
      BY <3>1 DEF Unstub, TypeOK, IntakeTypes, None
    <3>2. CASE TakeSentinel \/ MainEnds \/ Overwrite \/ Listen
      BY <3>2 DEF TakeSentinel, MainEnds, Overwrite, Listen, intake
    <3> QED
      BY <1>4, <3>1, <3>2
  <2>5. Watched(c)' => Watched(c)
    BY <2>3, <2>4 DEF Watched
  <2> QED
    BY <1>3, <2>1, <2>3, <2>5
<1>5. ASSUME NEW w \in Workers, StartWorker(w) PROVE AnnouncedOf(c)'
  <2>1. UNCHANGED <<waiting, events, bpc, dest, notify>>
    BY <1>5 DEF StartWorker, broker, select, worker, intake
  <2>2. main = "spawn" /\ main' \in {"listen", "spawn"}
    BY <1>5 DEF StartWorker, MainGoes
  <2>3. ToAnnounce(c)' = ToAnnounce(c) /\ ~ToCount(c)
    BY <2>2 DEF ToAnnounce, ToCount
  <2>4. Watched(c)' => Watched(c)
    BY <2>1, <2>3 DEF Watched
  <2>5. InHands(c)' = InHands(c)
    <3>1. \A v \in Workers : (pc'[v] = "pop" /\ cur'[v] = c) <=> (pc[v] = "pop" /\ cur[v] = c)
      BY <1>5 DEF StartWorker, TypeOK, WorkerTypes
    <3> QED
      BY <3>1, SameHands
  <2>6. InEvents(c)' = InEvents(c) /\ Delivered(c)' = Delivered(c) /\ waiting' = waiting
    BY <2>1, SameTallies
  <2>7. Len(waiting'[c]) + InEvents(c) + ToAnnounce(c) + InHands(c) + Delivered(c)
          <= Len(waiting[c]) + InEvents(c)' + ToAnnounce(c)' + InHands(c)' + Delivered(c)'
    BY <1>1, <2>3, <2>5, <2>6
  <2> QED
    BY <2>4, <2>7, Balance
<1>6. ASSUME NEW d \in Receivers, NEW at, NEW next, AddHook(d, at, next),
             <<d, at, next>> \in {<<"pool", "own", "count own">>, <<"stub", "adopt", "count stub">>}
      PROVE  AnnouncedOf(c)'
  <2>1. UNCHANGED <<waiting, events, pc, cur, bpc, dest>>
    BY <1>6 DEF AddHook, broker, select, worker
  <2>2. main = at /\ main' = next /\ notify' = [notify EXCEPT ![d] = "select"]
    BY <1>6 DEF AddHook, MainGoes
  <2>3. ToAnnounce(c)' = ToAnnounce(c) /\ ~ToCount(c)
    BY <1>6, <2>2 DEF ToAnnounce, ToCount
  <2>4. c = d => ToCount(c)'
    BY <1>6, <2>2 DEF ToCount
  <2>5. c # d => notify'[c] = notify[c]
    BY <2>2 DEF TypeOK, IntakeTypes
  <2>6. Watched(c)' => Watched(c)
    BY <2>3, <2>4, <2>5 DEF Watched
  <2> QED
    BY <1>3, <2>1, <2>3, <2>6
<1>7. ASSUME NEW d \in Receivers, NEW at, NEW next, CountQueued(d, at, next),
             <<d, at, next>> \in {<<"pool", "count own", "announce own">>,
                                  <<"stub", "count stub", "announce stub">>}
      PROVE  AnnouncedOf(c)'
  <2>1. UNCHANGED <<waiting, events, pc, cur, bpc, dest, notify>>
    BY <1>7 DEF CountQueued, broker, select, worker, intake
  <2>2. main = at /\ main' = next /\ left' = Len(waiting[d])
    BY <1>7 DEF CountQueued, MainGoes, Queued
  <2>3. CASE c = d
    <3>1. ToAnnounce(c)' = Len(waiting'[c])
      BY <1>7, <2>1, <2>2, <2>3 DEF ToAnnounce
    <3>2. (Announced(c))' = InEvents(c)' + ToAnnounce(c)' + InHands(c)' + Delivered(c)'
      BY DEF Announced
    <3>3. PICK e, h, d1, l \in Nat : e = InEvents(c)' /\ h = InHands(c)' /\ d1 = Delivered(c)'
                                     /\ l = Len(waiting'[c])
      BY <1>2
    <3>4. l <= e + l + h + d1
      OBVIOUS
    <3>5. (Len(waiting[c]))' <= (Announced(c))'
      BY <3>1, <3>2, <3>3, <3>4
    <3> QED
      BY <3>5 DEF AnnouncedOf
  <2>4. CASE c # d
    <3>1. ToAnnounce(c)' = ToAnnounce(c) /\ ~ToCount(c)
      BY <1>7, <2>2, <2>4 DEF ToAnnounce, ToCount
    <3>2. Watched(c)' => Watched(c)
      BY <2>1, <3>1 DEF Watched
    <3> QED
      BY <1>3, <2>1, <3>1, <3>2
  <2> QED
    BY <2>3, <2>4
<1>8. ASSUME NEW d \in Receivers, NEW at, NEW next, Announce(d, at, next),
             <<d, at, next>> \in {<<"pool", "announce own", "unstub">>,
                                  <<"stub", "announce stub", "spawn">>}
      PROVE  AnnouncedOf(c)'
  <2>1. UNCHANGED <<waiting, pc, cur, bpc, dest, notify>>
    BY <1>8 DEF Announce, broker, worker, intake
  <2>2. ~ToCount(c) /\ main = at
    BY <1>8 DEF ToCount, Announce
  <2>3. Watched(c)' => Watched(c)
    BY <2>1, <2>2 DEF Watched
  <2>4. CASE left = 0
    <3>1. main' = next /\ UNCHANGED <<left, events>>
      BY <1>8, <2>4 DEF Announce, MainGoes
    <3>2. ToAnnounce(c)' = ToAnnounce(c)
      BY <1>8, <2>2, <2>4, <3>1 DEF ToAnnounce
    <3> QED
      BY <1>3, <2>1, <2>3, <3>1, <3>2
  <2>5. CASE left # 0
    <3>1. left' = left - 1 /\ events' = Append(events, d) /\ UNCHANGED main
      BY <1>8, <2>5 DEF Announce
    <3>2. InEvents(c)' = InEvents(c) + (IF d = c THEN 1 ELSE 0)
      BY <3>1, EventAdded
    <3>3. ToAnnounce(c)' = ToAnnounce(c) - (IF d = c THEN 1 ELSE 0)
      <4>1. left \in Nat
        BY DEF TypeOK, BuilderTypes
      <4>2. (d = "pool" /\ main = "announce own") \/ (d = "stub" /\ main = "announce stub")
        BY <1>8, <2>2
      <4>3. ToAnnounce(c) = (IF c = d THEN left ELSE 0) /\ ToAnnounce(c)' = (IF c = d THEN left' ELSE 0)
        BY <3>1, <4>2 DEF ToAnnounce, Receivers
      <4> QED
        BY <3>1, <4>1, <4>3
    <3>4. InHands(c)' = InHands(c) /\ Delivered(c)' = Delivered(c) /\ waiting' = waiting
      BY <2>1, SameTallies
    <3>5. Len(waiting'[c]) + InEvents(c) + ToAnnounce(c) + InHands(c) + Delivered(c)
            <= Len(waiting[c]) + InEvents(c)' + ToAnnounce(c)' + InHands(c)' + Delivered(c)'
      BY <1>1, <3>2, <3>3, <3>4
    <3> QED
      BY <2>3, <3>5, Balance
  <2> QED
    BY <2>4, <2>5
<1> QED
  BY <1>4, <1>5, <1>6, <1>7, <1>8 DEF MainStep, Receivers

\* The steps of the broker thread that are not part of 'shutdown'.
LEMMA BrokerAnnounces ==
    ASSUME TypeOK, TypeOK', shutdown = "no", NEW c \in Receivers, AnnouncedOf(c),
           (\E r \in Requests : Receive(r)) \/ Put \/ CheckNotify \/ CallNotify
             \/ (\E w \in Workers : ReplyArrives(w))
    PROVE  AnnouncedOf(c)'
<1>1. /\ InEvents(c) \in Nat /\ ToAnnounce(c) \in Nat /\ Delivered(c) \in Nat
      /\ InHands(c) \in Nat /\ Len(waiting[c]) \in Nat
  BY Tallies
<1>2. UNCHANGED <<main, left, stage>>
  BY DEF Receive, Put, CheckNotify, CallNotify, ReplyArrives, builder, select
<1>3. ToAnnounce(c)' = ToAnnounce(c)
  BY <1>2, SameTallies
<1>4. UNCHANGED notify
  BY DEF Receive, Put, CheckNotify, CallNotify, ReplyArrives, intake
<1>5. Watched(c)' = Watched(c)
  BY <1>2, <1>4, SameTallies
<1>6. ASSUME UNCHANGED <<waiting, events>>, InHands(c)' = InHands(c), Delivered(c)' = Delivered(c)
      PROVE  AnnouncedOf(c)'
  <2>1. InEvents(c)' = InEvents(c) /\ waiting' = waiting
    BY <1>6, SameTallies
  <2>2. Len(waiting'[c]) + InEvents(c) + ToAnnounce(c) + InHands(c) + Delivered(c)
          <= Len(waiting[c]) + InEvents(c)' + ToAnnounce(c)' + InHands(c)' + Delivered(c)'
    BY <1>1, <1>3, <1>6, <2>1
  <2> QED
    BY <1>5, <2>2, Balance
<1>7. ASSUME NEW r \in Requests, Receive(r) PROVE AnnouncedOf(c)'
  <2>1. UNCHANGED <<waiting, events, pc, cur>>
    BY <1>7 DEF Receive, select, worker
  <2>2. InHands(c)' = InHands(c)
    BY <2>1, SameTallies
  <2>3. Delivered(c) = 0 /\ Delivered(c)' = 0
    BY <1>7 DEF Receive, Delivered
  <2> QED
    BY <1>6, <2>1, <2>2, <2>3
<1>8. CASE Put
  <2>1. UNCHANGED <<events, pc, cur, dest>> /\ bpc = "put" /\ bpc' = "check"
    BY <1>8 DEF Put, select, worker
  <2>2. PICK d \in Receivers : d = dest
    BY DEF TypeOK, BrokerTypes
  <2>3. Len(waiting'[c]) = Len(waiting[c]) + (IF c = d THEN 1 ELSE 0)
    <3>1. waiting[c] \in Seq(Requests) /\ msg \in Requests
      BY <2>1 DEF TypeOK, IntakeTypes, BrokerTypes
    <3>2. waiting'[c] = IF c = d THEN Append(waiting[c], msg) ELSE waiting[c]
      BY <1>8, <2>2 DEF Put, TypeOK, IntakeTypes
    <3>3. PICK s \in Seq(Requests), m \in Requests : s = waiting[c] /\ m = msg
      BY <3>1
    <3>4. Len(Append(s, m)) = Len(s) + 1 /\ Len(s) \in Nat
      OBVIOUS
    <3>5. CASE c = d
      <4>1. waiting'[c] = Append(s, m)
        BY <3>2, <3>3, <3>5
      <4> QED
        BY <3>3, <3>4, <3>5, <4>1
    <3>6. CASE c # d
      <4>1. waiting'[c] = s
        BY <3>2, <3>3, <3>6
      <4> QED
        BY <3>3, <3>4, <3>6, <4>1
    <3> QED
      BY <3>5, <3>6
  <2>4. Delivered(c) = 0 /\ Delivered(c)' = (IF c = d THEN 1 ELSE 0)
    BY <2>1, <2>2 DEF Delivered
  <2>5. InEvents(c)' = InEvents(c) /\ InHands(c)' = InHands(c)
    BY <2>1, SameTallies
  <2>6. Len(waiting'[c]) + InEvents(c) + ToAnnounce(c) + InHands(c) + Delivered(c)
          <= Len(waiting[c]) + InEvents(c)' + ToAnnounce(c)' + InHands(c)' + Delivered(c)'
    <3>1. Len(waiting'[c]) + Delivered(c) <= Len(waiting[c]) + Delivered(c)'
      BY <1>1, <2>3, <2>4
    <3>2. PICK l \in Nat : l = Len(waiting'[c])
      BY TalliesAfter
    <3>3. PICK b \in Nat : b = Delivered(c)'
      BY TalliesAfter
    <3>4. PICK n, e, a, h, f \in Nat :
            /\ n = Len(waiting[c]) /\ e = InEvents(c) /\ a = ToAnnounce(c) /\ h = InHands(c)
            /\ f = Delivered(c)
      BY <1>1
    <3>5. InEvents(c)' = e /\ ToAnnounce(c)' = a /\ InHands(c)' = h
      BY <1>3, <2>5, <3>4
    <3>6. l + f <= n + b
      BY <3>1, <3>2, <3>3, <3>4
    <3>7. l + e + a + h + f <= n + e + a + h + b
      BY <3>6
    <3> QED
      BY <3>2, <3>3, <3>4, <3>5, <3>7
  <2> QED
    BY <1>5, <2>6, Balance
<1>9. CASE CheckNotify
  <2>1. /\ UNCHANGED <<waiting, events, pc, cur, dest>> /\ bpc = "check"
        /\ bpc' = IF notify[dest] = None THEN "idle" ELSE "notify"
    BY <1>9 DEF CheckNotify, intake, select, worker
  <2>2. InHands(c)' = InHands(c)
    BY <2>1, SameTallies
  <2>3. CASE dest = c /\ notify[dest] = None
    <3>1. ~Watched(c)'
      BY <1>5, <2>3 DEF Watched, None
    <3> QED
      BY <3>1 DEF AnnouncedOf
  <2>4. CASE ~(dest = c /\ notify[dest] = None)
    <3>1. Delivered(c)' = Delivered(c)
      BY <2>1, <2>4 DEF Delivered
    <3> QED
      BY <1>6, <2>1, <2>2, <3>1
  <2> QED
    BY <2>3, <2>4
<1>10. CASE CallNotify
  <2>1. /\ UNCHANGED <<waiting, pc, cur, dest>> /\ bpc = "notify" /\ bpc' = "idle"
        /\ events' = IF notify[dest] = "select" THEN Append(events, dest) ELSE events
    BY <1>10 DEF CallNotify, worker
  <2>2. InHands(c)' = InHands(c) /\ waiting' = waiting
    BY <2>1, SameTallies
  <2>3. PICK d \in Receivers : d = dest
    BY DEF TypeOK, BrokerTypes
  <2>4. Delivered(c) = (IF d = c THEN 1 ELSE 0) /\ Delivered(c)' = 0
    BY <2>1, <2>3 DEF Delivered
  <2>5. CASE notify[d] = "select"
    <3>1. events' = Append(events, d)
      BY <2>1, <2>3, <2>5
    <3>2. InEvents(c)' = InEvents(c) + (IF d = c THEN 1 ELSE 0)
      BY <3>1, EventAdded
    <3>3. Len(waiting'[c]) + InEvents(c) + ToAnnounce(c) + InHands(c) + Delivered(c)
            <= Len(waiting[c]) + InEvents(c)' + ToAnnounce(c)' + InHands(c)' + Delivered(c)'
      BY <1>1, <1>3, <2>2, <2>4, <3>2
    <3> QED
      BY <1>5, <3>3, Balance
  <2>6. CASE notify[d] # "select" /\ c = d
    <3>1. ~Watched(c)'
      BY <1>5, <2>6 DEF Watched
    <3> QED
      BY <3>1 DEF AnnouncedOf
  <2>7. CASE notify[d] # "select" /\ c # d
    <3>1. UNCHANGED events /\ Delivered(c)' = Delivered(c)
      BY <2>1, <2>3, <2>4, <2>7
    <3> QED
      BY <1>6, <2>1, <2>2, <3>1
  <2> QED
    BY <2>5, <2>6, <2>7
<1>11. ASSUME NEW w \in Workers, ReplyArrives(w) PROVE AnnouncedOf(c)'
  <2>1. UNCHANGED <<waiting, events, bpc, dest>>
    BY <1>11 DEF ReplyArrives, intake, select, broker
  <2>2. \A v \in Workers : (pc'[v] = "pop" /\ cur'[v] = c) <=> (pc[v] = "pop" /\ cur[v] = c)
    BY <1>11 DEF ReplyArrives, TypeOK, WorkerTypes
  <2>3. InHands(c)' = InHands(c)
    BY <2>2, SameHands
  <2>4. Delivered(c)' = Delivered(c)
    BY <2>1, SameTallies
  <2> QED
    BY <1>6, <2>1, <2>3, <2>4
<1> QED
  BY <1>7, <1>8, <1>9, <1>10, <1>11

\* The steps of a worker.
LEMMA WorkerAnnounces ==
    ASSUME TypeOK, TypeOK', Undisturbed, shutdown = "no", NEW c \in Receivers, AnnouncedOf(c),
           NEW w \in Workers, WorkerStep(w)
    PROVE  AnnouncedOf(c)'
<1>1. /\ InEvents(c) \in Nat /\ ToAnnounce(c) \in Nat /\ Delivered(c) \in Nat
      /\ InHands(c) \in Nat /\ Len(waiting[c]) \in Nat /\ IsFiniteSet(Popping(c))
  BY Tallies
<1>2. UNCHANGED <<main, left, bpc, dest, notify, stage>>
  <2>1. UNCHANGED <<builder, broker>>
    BY WorkerFrame DEF PoolStep
  <2>2. UNCHANGED <<notify, stage>>
    BY DEF WorkerStep, Loop, GetEvent, PopRequest, Lookup, LockAndLookup, AddService, Register,
           Invoke, Enqueue, Drain, Ask, Return, intake, select
  <2> QED
    BY <2>1, <2>2 DEF builder, broker
<1>3. ToAnnounce(c)' = ToAnnounce(c) /\ Watched(c)' = Watched(c) /\ Delivered(c)' = Delivered(c)
  BY <1>2, SameTallies
<1>4. stage = 0
  BY DEF Undisturbed, TypeOK, SelectTypes
<1>5. ASSUME UNCHANGED <<waiting, events>>, InHands(c)' = InHands(c)
      PROVE  AnnouncedOf(c)'
  <2>1. InEvents(c)' = InEvents(c) /\ waiting' = waiting
    BY <1>5, SameTallies
  <2>2. Len(waiting'[c]) + InEvents(c) + ToAnnounce(c) + InHands(c) + Delivered(c)
          <= Len(waiting[c]) + InEvents(c)' + ToAnnounce(c)' + InHands(c)' + Delivered(c)'
    BY <1>1, <1>3, <1>5, <2>1
  <2> QED
    BY <1>3, <2>2, Balance
<1>6. CASE GetEvent(w)
  <2>1. /\ pc[w] = "get" /\ events # <<>> /\ events' = Tail(events) /\ UNCHANGED waiting
        /\ cur' = [cur EXCEPT ![w] = Head(events)] /\ pc' = [pc EXCEPT ![w] = "pop"]
    BY <1>4, <1>6 DEF GetEvent, SelectClosed, intake
  <2>2. PICK s \in Seq(Receivers) : s = events /\ s # <<>>
    BY <2>1 DEF TypeOK, SelectTypes
  <2>3. PICK d \in Receivers : d = Head(s)
    BY <2>2
  <2>4. CountIn(s, c) <= CountIn(Tail(s), c) + (IF d = c THEN 1 ELSE 0)
    BY <2>2, <2>3, CountTail
  <2>5. InEvents(c) = CountIn(s, c) /\ InEvents(c)' = CountIn(Tail(s), c)
    BY <2>1, <2>2 DEF InEvents, CountIn
  <2>6. pc'[w] = "pop" /\ cur'[w] = d /\ \A v \in Workers : v # w => pc'[v] = pc[v] /\ cur'[v] = cur[v]
    BY <2>1, <2>2, <2>3 DEF TypeOK, WorkerTypes
  <2>7. w \notin Popping(c) /\ Popping(c)' = IF d = c THEN Popping(c) \cup {w} ELSE Popping(c)
    BY <2>1, <2>6 DEF Popping
  <2>8. Cardinality(Popping(c) \cup {w}) = Cardinality(Popping(c)) + 1
    BY <1>1, <2>7, FS_AddElement
  <2>9. InHands(c)' = InHands(c) + (IF d = c THEN 1 ELSE 0)
    BY <1>1, <2>7, <2>8 DEF InHands
  <2>10. InEvents(c)' \in Nat
    BY TalliesAfter
  <2>11. waiting' = waiting
    BY <2>1
  <2>12. PICK e, e1, h \in Nat : e = InEvents(c) /\ e1 = InEvents(c)' /\ h = InHands(c)
    BY <1>1, <2>10
  <2>13. e <= e1 + (IF d = c THEN 1 ELSE 0)
    BY <2>4, <2>5, <2>12
  <2>14. e + h <= e1 + InHands(c)'
    BY <2>9, <2>12, <2>13
  <2>15. InHands(c)' \in Nat
    BY TalliesAfter
  <2>16. Len(waiting'[c]) + InEvents(c) + ToAnnounce(c) + InHands(c) + Delivered(c)
           <= Len(waiting[c]) + InEvents(c)' + ToAnnounce(c)' + InHands(c)' + Delivered(c)'
    <3>1. PICK h1 \in Nat : h1 = InHands(c)'
      BY <2>15
    <3>2. e + h <= e1 + h1
      BY <2>14, <3>1
    <3>3. PICK l, a, b \in Nat : l = Len(waiting[c]) /\ a = ToAnnounce(c) /\ b = Delivered(c)
      BY <1>1
    <3>4. /\ Len(waiting'[c]) = l /\ InEvents(c)' = e1 /\ InHands(c)' = h1
          /\ ToAnnounce(c)' = a /\ Delivered(c)' = b
      BY <1>3, <2>11, <2>12, <3>1, <3>3
    <3>5. l + e + a + h + b <= l + e1 + a + h1 + b
      BY <3>2
    <3> QED
      BY <2>12, <3>3, <3>4, <3>5
  <2> QED
    BY <1>3, <2>16, Balance
<1>7. CASE PopRequest(w)
  <2>1. pc[w] = "pop" /\ UNCHANGED events
    BY <1>7 DEF PopRequest, select
  <2>2. PICK d \in Receivers : d = cur[w]
    BY <2>1 DEF TypeOK, WorkerTypes, Holds
  <2>3. \A v \in Workers : v # w => pc'[v] = pc[v] /\ cur'[v] = cur[v]
    BY <1>7 DEF PopRequest, TypeOK, WorkerTypes
  <2>4. pc'[w] # "pop"
    BY <1>7 DEF PopRequest, Retry, TypeOK, WorkerTypes
  <2>5. CASE d # c
    <3>1. InHands(c)' = InHands(c)
      BY <2>2, <2>3, <2>4, <2>5, SameHands
    <3>2. waiting'[c] = waiting[c]
      BY <1>7, <2>2, <2>5 DEF PopRequest, TypeOK, IntakeTypes
    <3>3. InEvents(c)' = InEvents(c)
      BY <2>1, SameTallies
    <3>4. Len(waiting'[c]) + InEvents(c) + ToAnnounce(c) + InHands(c) + Delivered(c)
            <= Len(waiting[c]) + InEvents(c)' + ToAnnounce(c)' + InHands(c)' + Delivered(c)'
      BY <1>1, <1>3, <3>1, <3>2, <3>3
    <3> QED
      BY <1>3, <3>4, Balance
  <2>6. CASE d = c /\ waiting[c] = <<>>
    <3>1. waiting' = waiting
      BY <1>4, <1>7, <2>2, <2>6 DEF PopRequest
    <3>2. (Announced(c))' = InEvents(c)' + ToAnnounce(c)' + InHands(c)' + Delivered(c)'
      BY DEF Announced
    <3>3. /\ InEvents(c)' \in Nat /\ ToAnnounce(c)' \in Nat /\ Delivered(c)' \in Nat
          /\ InHands(c)' \in Nat
      BY TalliesAfter
    <3>4. (Len(waiting[c]))' = 0
      BY <2>6, <3>1
    <3>5. PICK e, a, h, b \in Nat : e = InEvents(c)' /\ a = ToAnnounce(c)' /\ h = InHands(c)' /\ b = Delivered(c)'
      BY <3>3
    <3>6. 0 <= e + a + h + b
      OBVIOUS
    <3>7. (Len(waiting[c]))' <= (Announced(c))'
      BY <3>2, <3>4, <3>5, <3>6
    <3> QED
      BY <3>7 DEF AnnouncedOf
  <2>7. CASE d = c /\ waiting[c] # <<>>
    <3>1. waiting' = [waiting EXCEPT ![c] = Tail(waiting[c])]
      BY <1>4, <1>7, <2>2, <2>7 DEF PopRequest
    <3>2. Len(waiting'[c]) = Len(waiting[c]) - 1
      <4>1. PICK s \in Seq(Requests) : s = waiting[c] /\ s # <<>>
        BY <2>7 DEF TypeOK, IntakeTypes
      <4>2. waiting'[c] = Tail(s)
        BY <3>1, <4>1 DEF TypeOK, IntakeTypes
      <4> QED
        BY <4>1, <4>2
    <3>3. w \in Popping(c) /\ Popping(c)' = Popping(c) \ {w}
      BY <2>1, <2>2, <2>3, <2>4, <2>7 DEF Popping
    <3>4. Cardinality(Popping(c) \ {w}) = Cardinality(Popping(c)) - 1
      BY <1>1, <3>3, FS_RemoveElement
    <3>5. InHands(c)' = InHands(c) - 1
      BY <3>3, <3>4 DEF InHands
    <3>6. InEvents(c)' = InEvents(c)
      BY <2>1, SameTallies
    <3>7. Len(waiting'[c]) + InEvents(c) + ToAnnounce(c) + InHands(c) + Delivered(c)
            <= Len(waiting[c]) + InEvents(c)' + ToAnnounce(c)' + InHands(c)' + Delivered(c)'
      BY <1>1, <1>3, <3>2, <3>5, <3>6
    <3> QED
      BY <1>3, <3>7, Balance
  <2> QED
    BY <2>5, <2>6, <2>7
<1>8. CASE ~GetEvent(w) /\ ~PopRequest(w)
  <2>1. UNCHANGED <<waiting, events>>
    BY <1>8 DEF WorkerStep, Loop, Lookup, LockAndLookup, AddService, Register,
                Invoke, Enqueue, Drain, Ask, Return, intake, select
  <2>2. \A v \in Workers : v # w => pc'[v] = pc[v] /\ cur'[v] = cur[v]
    BY <1>8 DEF WorkerStep, Loop, Lookup, LockAndLookup, AddService, Register,
                Invoke, Enqueue, Drain, Ask, Return, Rest, TypeOK, WorkerTypes
  <2>3. pc[w] # "pop"
    BY <1>8 DEF WorkerStep, Loop, Lookup, LockAndLookup, AddService, Register,
                Invoke, Enqueue, Drain, Ask, Return
  <2>4. pc'[w] # "pop"
    BY <1>8 DEF WorkerStep, Loop, Lookup, LockAndLookup, AddService, Register,
                Invoke, Enqueue, Drain, Ask, Return, Rest, TypeOK, WorkerTypes
  <2>5. InHands(c)' = InHands(c)
    BY <2>2, <2>3, <2>4, SameHands
  <2> QED
    BY <1>5, <2>1, <2>5
<1> QED
  BY <1>6, <1>7, <1>8

\* Once 'shutdown' fires it never has not.
LEMMA UndisturbedKept ==
    ASSUME TypeOK, Undisturbed, [Next]_vars
    PROVE  Undisturbed' /\ (shutdown' = "no" => shutdown = "no")
<1> USE DEF Undisturbed
<1>1. CASE UNCHANGED <<broker, stage>>
  BY <1>1 DEF broker
<1>2. ASSUME NEW r \in Requests, Receive(r) PROVE Undisturbed' /\ UNCHANGED shutdown
  BY <1>2 DEF Receive, select
<1>3. CASE Put \/ CheckNotify \/ CallNotify
  BY <1>3 DEF Put, CheckNotify, CallNotify, select
<1>4. CASE TestHook \/ Unhook \/ CloseInbox \/ NextListener \/ ShutdownFires
  BY <1>4 DEF TestHook, Unhook, CloseInbox, NextListener, ShutdownFires, select
<1>5. CASE StopFlag \/ StopReceiver \/ Detach \/ CloseSelect \/ Joined
  BY <1>5 DEF StopFlag, StopReceiver, Detach, CloseSelect, Joined, broker, select
<1>6. ASSUME NEW w \in Workers, ReplyArrives(w) \/ StartWorker(w)
      PROVE  UNCHANGED <<broker, stage>>
  BY <1>6 DEF ReplyArrives, StartWorker, select
<1>7. ASSUME MainStep, ~\E w \in Workers : StartWorker(w) PROVE UNCHANGED <<broker, stage>>
  BY <1>7, MainFrame DEF MainStep, TakeSentinel, MainEnds, Overwrite, Unstub, Listen, AddHook,
                         CountQueued, Announce, select
<1>8. ASSUME PoolStep PROVE UNCHANGED <<broker, stage>>
  <2>1. UNCHANGED stage
    BY <1>8 DEF PoolStep, WorkerStep, Loop, GetEvent, PopRequest, Lookup, LockAndLookup,
                AddService, Register, Invoke, Enqueue, Drain, Ask, Return, select
  <2> QED
    BY <1>8, <2>1, WorkerFrame
<1> QED
  BY <1>1, <1>2, <1>3, <1>4, <1>5, <1>6, <1>7, <1>8 DEF Next, BrokerStep, vars, select

\* Every step keeps the announcements.
LEMMA NextAnnounces == ASSUME TypeOK, TypeOK', AnnouncedInv, [Next]_vars PROVE AnnouncedInv'
<1>1. Undisturbed' /\ (shutdown' = "no" => shutdown = "no")
  BY UndisturbedKept DEF AnnouncedInv
<1> SUFFICES ASSUME NEW c \in Receivers, shutdown' = "no" PROVE AnnouncedOf(c)'
  BY <1>1 DEF AnnouncedInv, AnnouncedOf
<1>2. Undisturbed /\ AnnouncedOf(c) /\ shutdown = "no"
  BY <1>1 DEF AnnouncedInv
<1>3. ~(TestHook \/ Unhook \/ CloseInbox \/ NextListener \/ StopFlag \/ StopReceiver \/ Detach
        \/ CloseSelect \/ Joined \/ ShutdownFires)
  BY <1>2 DEF TestHook, Unhook, CloseInbox, NextListener, StopFlag, StopReceiver, Detach,
              CloseSelect, Joined, ShutdownFires, Undisturbed
<1>4. CASE PoolStep
  BY <1>2, <1>4, WorkerAnnounces DEF PoolStep
<1>5. CASE MainStep
  BY <1>2, <1>5, MainAnnounces
<1>6. CASE (\E r \in Requests : Receive(r)) \/ BrokerStep
  BY <1>2, <1>3, <1>6, BrokerAnnounces DEF BrokerStep
<1>7. CASE UNCHANGED vars
  <2>1. UNCHANGED <<main, left, waiting, notify, events, pc, cur, bpc, dest>>
    BY <1>7 DEF vars, intake, builder, broker, select, worker
  <2>2. /\ InEvents(c)' = InEvents(c) /\ ToAnnounce(c)' = ToAnnounce(c) /\ InHands(c)' = InHands(c)
        /\ Delivered(c)' = Delivered(c) /\ Watched(c)' = Watched(c) /\ waiting' = waiting
    BY <2>1, SameTallies
  <2>3. (Announced(c))' = Announced(c)
    BY <2>2 DEF Announced
  <2> QED
    BY <1>2, <2>2, <2>3 DEF AnnouncedOf
<1> QED
  BY <1>3, <1>4, <1>5, <1>6, <1>7 DEF Next

\* Before anything is announced, nothing is to be.
LEMMA InitAnnounces == ASSUME Init PROVE AnnouncedInv
<1>1. Undisturbed
  BY DEF Init, Undisturbed
<1>2. ASSUME NEW c \in Receivers PROVE ~Watched(c)
  BY <1>2 DEF Init, Watched, Receivers, None
<1> QED
  BY <1>1, <1>2 DEF AnnouncedInv, AnnouncedOf

\* Select.add() installs its hook, then reads the queue's size, while the broker
\* thread queues requests and calls the hook it read before: until the broker
\* shuts down, no request is left on a Receiver of the Select without an event
\* that will bring a worker to it; and none is replied to twice.
THEOREM EveryRequestAccounted == Spec => []RequestsAccounted
<1>1. AnnouncedInv /\ SpotInv => RequestsAccounted
  <2>1. ASSUME AnnouncedInv PROVE NoRequestUnannounced
    <3> SUFFICES ASSUME shutdown = "no", NEW c \in Receivers, notify[c] = "select", ~ToCount(c)
                 PROVE  Len(waiting[c]) <=
                            CountIn(events, c) + ToAnnounce(c)
                            + Cardinality({w \in Workers : pc[w] = "pop" /\ cur[w] = c})
                            + (IF dest = c /\ bpc \in {"check", "notify"} THEN 1 ELSE 0)
      BY DEF NoRequestUnannounced
    <3>1. Len(waiting[c]) <= Announced(c)
      BY <2>1 DEF AnnouncedInv, AnnouncedOf, Watched
    <3> QED
      BY <3>1 DEF Announced, InEvents, InHands, Popping, Delivered
  <2> QED
    BY <2>1 DEF SpotInv, RequestsAccounted
<1> QED
  BY <1>1, InitSpots, NextKeepsSpots, InitAnnounces, NextAnnounces, TypeCorrect, PTL DEF Spec

-----------------------------------------------------------------------------
(***************************************************************************)
(* Theorems about Files for any number of contexts, streams, transfers and *)
(* any window: the types of its variables, and what transfer_file() comes  *)
(* to.  The invariant says of every transfer that waits what is on its way *)
(* to it, and of every transfer the pool still has work for how much of it *)
(* has been sent.                                                          *)
(***************************************************************************)

\* The chunks sent before the window is full: only the last may go past it.
LEMMA QuotaIsPositive == Quota \in Nat \ {0}
<1>1. PICK w, c \in Nat \ {0} : w = Window /\ c = ChunkSize
  BY FilesAssumption
<1>2. (w + c - 1) \div c \in Nat \ {0}
  OBVIOUS
<1> QED
  BY <1>1, <1>2 DEF Quota

\* What is counted goes past the window by less than a chunk.
LEMMA QuotaBound == ASSUME NEW u \in 0..Quota PROVE (u - 1) * ChunkSize < Window
<1>1. PICK w, c \in Nat \ {0}, q \in Nat : w = Window /\ c = ChunkSize /\ q = (w + c - 1) \div c
  BY FilesAssumption, QuotaIsPositive DEF Quota
<1>2. c * q <= w + c - 1
  BY <1>1
<1>3. PICK d \in Nat : q = u + d
  <2>1. u \in 0..q
    BY <1>1 DEF Quota
  <2>2. q - u \in Nat /\ q = u + (q - u)
    BY <2>1
  <2> QED
    BY <2>2
<1>4. c * d >= 0 /\ c * q = c * u + c * d
  BY <1>1, <1>3
<1>5. c * u <= w + c - 1 /\ (u - 1) * c = c * u - c
  BY <1>1, <1>2, <1>4
<1> QED
  BY <1>1, <1>5

Jobs == [t : Transfers, pos : Nat]

(* The file was not changed.                                               *)
Same(t) == size[t] = SizeOf[t]

(* The reply of fetch() is still to be taken.                              *)
Due(t) == IF progress[t] = "fetching" THEN 1 ELSE 0

Alive(t) == ContextOf[t] \notin dead
Sending == mux \in {"running", "stopping"}

(* The i-th message on its way to a target that is waiting: chunks come in *)
(* order after those that came, and the end after the last.                *)
Fits(t, i, m) ==
    /\ m.kind = "stat" => i = 1 /\ progress[t] = "fetching" /\ (Same(t) => m.n = SizeOf[t])
    /\ m.kind = "error" => t \in Absent
    /\ m.kind = "dead" => ~Sending
    /\ m.kind = "chunk" => m.n = Len(got[t]) + i - Due(t)
    /\ m.kind = "close" => (Same(t) => Len(got[t]) + i - 1 - Due(t) = SizeOf[t])

Arriving(t) ==
    /\ \A i \in 1 .. Len(chan[t]) : Fits(t, i, chan[t][i])
    /\ progress[t] = "fetching" =>
          got[t] = <<>> /\ (chan[t] # <<>> => chan[t][1].kind \in {"stat", "error", "dead"})
    /\ progress[t] = "receiving" /\ Same(t) => want[t] = SizeOf[t]

(* A transfer the pool has sent pos chunks of is waiting for the rest.     *)
Owed(t, pos) ==
    /\ progress[t] \in Running
    /\ progress[t] = "fetching" => chan[t] # <<>>
    /\ \A i \in 1 .. Len(chan[t]) : chan[t][i].kind \in {"stat", "chunk"}
    /\ pos = Len(got[t]) + Len(chan[t]) - Due(t)
    /\ Same(t) => pos <= SizeOf[t]

(* A transfer is in one place of the pool at most.                         *)
NoJob(t) == \A s \in Keys : \A i \in 1 .. Len(jobs[s]) : jobs[s][i].t # t

Placed ==
    /\ \A t \in fetches : /\ mux = "running" /\ progress[t] = "fetching" /\ chan[t] = <<>>
                          /\ t \notin opened /\ NoJob(t)
    /\ \A t \in opened : NoJob(t)
    /\ \A x, y \in Keys : \A i \in 1 .. Len(jobs[x]), j \in 1 .. Len(jobs[y]) :
          jobs[x][i].t = jobs[y][j].t => x = y /\ i = j
    /\ \A t \in Transfers :
          progress[t] = "new" => /\ t \notin opened /\ NoJob(t) /\ got[t] = <<>>
                                 /\ Sending => chan[t] = <<>>

Served ==
    /\ \A t \in Transfers : Alive(t) /\ progress[t] \in Running => Arriving(t)
    /\ Sending => /\ \A t \in opened : Alive(t) => Owed(t, 0)
                  /\ \A s \in Keys : \A i \in 1 .. Len(jobs[s]) :
                        Alive(jobs[s][i].t) => Owed(jobs[s][i].t, jobs[s][i].pos)

FilesInv ==
    /\ FilesTypeOK
    /\ \A t \in Transfers : \A i \in 1 .. Len(got[t]) : got[t][i] = i
    /\ Placed
    /\ Served
    /\ AllOrNothing
    /\ FailsForAReason

(***************************************************************************)
(* Recursive functions over the numbers up to n.                           *)
(***************************************************************************)

\* Induction: a set of naturals has a least element.
LEMMA LeastNatural ==
    ASSUME NEW T \in SUBSET Nat, T # {}
    PROVE  \E x \in T : \A y \in T : x <= y
<1> DEFINE R == OpToRel(<, Nat)
<1>1. IsWellFoundedOn(R, Nat)
  BY NatLessThanWellFounded, Zenon
<1>2. \A x, y \in Nat : x < y => <<x, y>> \in R
  BY DEF OpToRel
<1> HIDE DEF R
<1>3. PICK x \in T : \A y \in T : ~(<<y, x>> \in R)
  BY <1>1, WFMin
<1>4. ASSUME NEW y \in T PROVE x <= y
  <2>1. x \in Nat /\ y \in Nat
    OBVIOUS
  <2>2. ~(y < x)
    BY <1>2, <1>3, <2>1
  <2> QED
    BY <2>1, <2>2
<1> QED
  BY <1>4

\* A set that has 0 and, with a number below n, the next one, has them all.
LEMMA Climb ==
    ASSUME NEW n \in Nat, NEW S, 0 \in S, \A k \in 0..n : k \in S /\ k < n => k + 1 \in S
    PROVE  0..n \subseteq S
<1> DEFINE T == {k \in 0..n : k \notin S}
<1>1. T \in SUBSET Nat
  OBVIOUS
<1>2. ASSUME T # {} PROVE FALSE
  <2>1. PICK x \in T : \A y \in T : x <= y
    BY <1>1, <1>2, LeastNatural
  <2>2. x \in Nat /\ x \in 0..n /\ x \notin S /\ x # 0
    BY <2>1
  <2>3. x - 1 \in 0..n /\ x - 1 < n /\ (x - 1) + 1 = x
    BY <2>2
  <2>4. x - 1 \notin S
    BY <2>2, <2>3
  <2>5. x - 1 \in T
    BY <2>3, <2>4
  <2>6. x <= x - 1
    BY <2>1, <2>5
  <2> QED
    BY <2>2, <2>6
<1> QED
  BY <1>2

\* f applies the functions G one after the other, to a first.
Iterates(f, G, a, k) ==
    /\ f = [i \in 0..k |-> f[i]]
    /\ f[0] = a
    /\ \A i \in 1..k : f[i] = G[i][f[i - 1]]

\* It can be continued.
LEMMA IterateFurther ==
    ASSUME NEW G, NEW a, NEW k \in Nat, NEW f, Iterates(f, G, a, k)
    PROVE  \E g : Iterates(g, G, a, k + 1)
<1>1. PICK g : g = [i \in 0..(k + 1) |-> IF i = k + 1 THEN G[k + 1][f[k]] ELSE f[i]]
  OBVIOUS
<1>2. k + 1 \in 0..(k + 1) /\ \A i \in 0..k : i \in 0..(k + 1) /\ i # k + 1
  OBVIOUS
<1>3. g[k + 1] = G[k + 1][f[k]] /\ \A i \in 0..k : g[i] = f[i]
  BY <1>1, <1>2
<1>4. ASSUME NEW i \in 1..(k + 1) PROVE g[i] = G[i][g[i - 1]]
  <2>1. CASE i = k + 1
    <3>1. i - 1 = k /\ k \in 0..k
      BY <2>1
    <3> QED
      BY <1>3, <2>1, <3>1
  <2>2. CASE i # k + 1
    <3>1. i \in 1..k /\ i \in 0..k /\ i - 1 \in 0..k
      BY <2>2
    <3> QED
      BY <1>3, <3>1 DEF Iterates
  <2> QED
    BY <2>1, <2>2
<1>5. g = [i \in 0..(k + 1) |-> g[i]]
  BY <1>1
<1>6. g[0] = a
  <2>1. 0 \in 0..k
    OBVIOUS
  <2> QED
    BY <1>3, <2>1 DEF Iterates
<1> QED
  BY <1>4, <1>5, <1>6 DEF Iterates

\* It exists, and its values are of the type of the functions.
LEMMA IterateExists ==
    ASSUME NEW n \in Nat, NEW A, NEW a \in A, NEW G \in [1..n -> [A -> A]]
    PROVE  \E f \in [0..n -> A] : Iterates(f, G, a, n)
<1> DEFINE T == {k \in 0..n : \E f : Iterates(f, G, a, k)}
<1>1. 0 \in T
  <2>1. PICK f : f = [i \in 0..0 |-> a]
    OBVIOUS
  <2>2. f = [i \in 0..0 |-> f[i]] /\ f[0] = a /\ 1..0 = {}
    BY <2>1
  <2>3. Iterates(f, G, a, 0)
    BY <2>2 DEF Iterates
  <2>4. 0 \in 0..n
    OBVIOUS
  <2> QED
    BY <2>3, <2>4
<1>2. ASSUME NEW k \in 0..n, k \in T, k < n PROVE k + 1 \in T
  <2>1. PICK f : Iterates(f, G, a, k)
    BY <1>2
  <2>2. \E g : Iterates(g, G, a, k + 1)
    BY <2>1, IterateFurther
  <2>3. k + 1 \in 0..n
    BY <1>2
  <2> QED
    BY <2>2, <2>3
<1>3. n \in T
  <2> HIDE DEF T
  <2>1. 0..n \subseteq T
    BY <1>1, <1>2, Climb
  <2> QED
    BY <2>1
<1>4. PICK f : Iterates(f, G, a, n)
  BY <1>3
<1> DEFINE V == {k \in 0..n : f[k] \in A}
<1>5. 0 \in V
  BY <1>4 DEF Iterates
<1>6. ASSUME NEW k \in 0..n, k \in V, k < n PROVE k + 1 \in V
  <2>1. k + 1 \in 1..n /\ (k + 1) - 1 = k /\ k + 1 \in 0..n
    BY <1>6
  <2>2. f[k + 1] = G[k + 1][f[k]]
    BY <1>4, <2>1 DEF Iterates
  <2>3. G[k + 1] \in [A -> A] /\ f[k] \in A
    BY <1>6, <2>1
  <2> QED
    BY <2>1, <2>2, <2>3
<1>7. \A k \in 0..n : f[k] \in A
  <2> HIDE DEF V
  <2>1. 0..n \subseteq V
    BY <1>5, <1>6, Climb
  <2> QED
    BY <2>1 DEF V
<1>8. f \in [0..n -> A]
  BY <1>4, <1>7 DEF Iterates
<1> QED
  BY <1>4, <1>8

\* One list after the other.
IsConcat(r, p, q) ==
    /\ Len(r) = Len(p) + Len(q)
    /\ \A j \in 1..Len(p) + Len(q) : r[j] = IF j <= Len(p) THEN p[j] ELSE q[j - Len(p)]

\* What \o makes of two lists.
LEMMA ConcatFacts ==
    ASSUME NEW S, NEW p \in Seq(S), NEW q \in Seq(S)
    PROVE  p \o q \in Seq(S) /\ IsConcat(p \o q, p, q)
<1>1. PICK r : r = p \o q
  OBVIOUS
<1>2. r \in Seq(S) /\ IsConcat(r, p, q)
  BY <1>1, ConcatProperties DEF IsConcat
<1> QED
  BY <1>1, <1>2

-----------------------------------------------------------------------------
(* What is on its way, counted: chunks, and acknowledgements.              *)

\* A chunk on its way is a transfer and a place on its channel.
LEMMA InFlightIs ==
    ASSUME NEW ts, NEW ch
    PROVE  \A x : x \in InFlight(ts, ch) <=>
                      \E t \in ts : \E i \in ChunksIn(ch[t]) : x = <<t, i>>
BY DEF InFlight

\* What is counted depends on where chunks are only.
LEMMA InFlightSame ==
    ASSUME NEW ts, NEW ch, NEW dh, \A t \in ts : ChunksIn(dh[t]) = ChunksIn(ch[t])
    PROVE  InFlight(ts, dh) = InFlight(ts, ch)
<1>1. \A x : x \in InFlight(ts, dh) <=> x \in InFlight(ts, ch)
  BY InFlightIs
<1> QED
  BY <1>1

\* Channels that lose everything lose their chunks.
LEMMA InFlightLess ==
    ASSUME NEW ts, NEW ch, NEW dh, IsFiniteSet(InFlight(ts, ch)),
           \A t \in ts : ChunksIn(dh[t]) \subseteq ChunksIn(ch[t])
    PROVE  /\ IsFiniteSet(InFlight(ts, dh))
           /\ Cardinality(InFlight(ts, dh)) <= Cardinality(InFlight(ts, ch))
<1>1. \A x : x \in InFlight(ts, dh) => x \in InFlight(ts, ch)
  BY InFlightIs
<1>2. InFlight(ts, dh) \in SUBSET InFlight(ts, ch)
  BY <1>1
<1> QED
  BY <1>2, FS_Subset

\* A message that is no chunk does not count.
LEMMA OtherMessage ==
    ASSUME NEW q \in Seq(Message), NEW m \in Message, m.kind # "chunk", NEW r, IsConcat(r, q, <<m>>)
    PROVE  ChunksIn(r) = ChunksIn(q)
<1>1. PICK k \in Nat : k = Len(q)
  OBVIOUS
<1>2. Len(r) = k + 1 /\ \A j \in 1..(k + 1) : r[j] = IF j <= k THEN q[j] ELSE <<m>>[j - k]
  BY <1>1 DEF IsConcat
<1>3. k + 1 \in 1..(k + 1) /\ ~(k + 1 <= k) /\ (k + 1) - k = 1 /\ <<m>>[1] = m
  OBVIOUS
<1>4. r[k + 1] = m
  BY <1>2, <1>3
<1>5. \A j \in 1..k : j \in 1..(k + 1) /\ r[j] = q[j]
  BY <1>2
<1>6. \A j \in 1..(k + 1) : j \in 1..k \/ j = k + 1
  OBVIOUS
<1> QED
  BY <1>1, <1>2, <1>4, <1>5, <1>6 DEF ChunksIn

\* Taking the first message, chunk or not.
LEMMA HeadTaken ==
    ASSUME NEW ts, NEW ch, NEW dh, NEW t \in ts, IsFiniteSet(InFlight(ts, ch)),
           ch[t] \in Seq(Message), ch[t] # <<>>, dh[t] = Tail(ch[t]),
           \A u \in ts \ {t} : dh[u] = ch[u]
    PROVE  /\ IsFiniteSet(InFlight(ts, dh))
           /\ Cardinality(InFlight(ts, dh)) =
                  Cardinality(InFlight(ts, ch)) - (IF ch[t][1].kind = "chunk" THEN 1 ELSE 0)
<1>1. PICK A, B, h : A = InFlight(ts, ch) \ {h} /\ B = InFlight(ts, dh) /\ h = <<t, 1>>
  OBVIOUS
<1>2. PICK q, r : q = ch[t] /\ r = dh[t]
  OBVIOUS
<1>3. PICK n \in Nat : n + 1 = Len(q)
  <2>1. q \in Seq(Message) /\ q # <<>>
    BY <1>2
  <2>2. Len(q) \in Nat /\ Len(q) # 0
    BY <2>1
  <2>3. Len(q) - 1 \in Nat /\ (Len(q) - 1) + 1 = Len(q)
    BY <2>2
  <2> QED
    BY <2>3
<1>4. Len(r) = n /\ \A i \in 1..n : r[i] = q[i + 1]
  BY <1>2, <1>3
<1>5. \A i \in Nat : i \in ChunksIn(r) <=> i # 0 /\ i + 1 \in ChunksIn(q)
  BY <1>3, <1>4 DEF ChunksIn
<1>6. ChunksIn(q) \subseteq Nat /\ ChunksIn(r) \subseteq Nat /\ 0 \notin ChunksIn(q) /\ 0 \notin ChunksIn(r)
  BY <1>3, <1>4 DEF ChunksIn
<1>7. h \in InFlight(ts, ch) <=> q[1].kind = "chunk"
  <2>1. h \in InFlight(ts, ch) <=> 1 \in ChunksIn(q)
    BY <1>1, <1>2, InFlightIs
  <2>2. 1 \in 1..Len(q)
    BY <1>3
  <2> QED
    BY <2>1, <2>2 DEF ChunksIn
<1>8. IsFiniteSet(A) /\ Cardinality(A) = Cardinality(InFlight(ts, ch)) - (IF q[1].kind = "chunk" THEN 1 ELSE 0)
  <2>1. Cardinality(InFlight(ts, ch)) \in Nat
    BY FS_CardinalityType
  <2>2. IsFiniteSet(A) /\ Cardinality(A) = IF h \in InFlight(ts, ch) THEN Cardinality(InFlight(ts, ch)) - 1
                                           ELSE Cardinality(InFlight(ts, ch))
    BY <1>1, FS_RemoveElement
  <2> QED
    BY <1>7, <2>1, <2>2
<1>9. PICK f : f = [x \in A |-> IF x[1] = t THEN <<t, x[2] - 1>> ELSE x]
  OBVIOUS
<1>10. ASSUME NEW x \in A
       PROVE  \/ \E i \in Nat \ {0} : x = <<t, i + 1>> /\ i \in ChunksIn(r) /\ f[x] = <<t, i>>
              \/ \E u \in ts \ {t} : \E i \in ChunksIn(ch[u]) : x = <<u, i>> /\ f[x] = x
  <2>1. PICK u \in ts : \E i \in ChunksIn(ch[u]) : x = <<u, i>>
    BY <1>1, InFlightIs
  <2>2. PICK i \in ChunksIn(ch[u]) : x = <<u, i>>
    BY <2>1
  <2>3. CASE u = t
    <3>1. i \in Nat /\ i # 0 /\ i # 1
      BY <1>1, <1>2, <1>6, <2>2, <2>3
    <3>2. i - 1 \in Nat \ {0} /\ (i - 1) + 1 = i
      BY <3>1
    <3>3. i - 1 \in ChunksIn(r)
      BY <1>2, <1>5, <2>2, <2>3, <3>2
    <3>4. f[x] = <<t, i - 1>>
      BY <1>9, <2>2, <2>3
    <3> QED
      BY <2>2, <2>3, <3>2, <3>3, <3>4
  <2>4. CASE u # t
    <3>1. f[x] = x
      BY <1>9, <2>2, <2>4
    <3> QED
      BY <2>2, <2>4, <3>1
  <2> QED
    BY <2>3, <2>4
<1>11. f \in [A -> B]
  <2>1. ASSUME NEW x \in A PROVE f[x] \in B
    <3>1. \E u \in ts : \E i \in ChunksIn(dh[u]) : f[x] = <<u, i>>
      BY <1>2, <1>10
    <3> QED
      BY <1>1, <3>1, InFlightIs
  <2> QED
    BY <1>9, <2>1
<1>12. ASSUME NEW x \in A, NEW y \in A, f[x] = f[y] PROVE x = y
  BY <1>10, <1>12
<1>13. ASSUME NEW y \in B PROVE \E x \in A : f[x] = y
  <2>1. PICK u \in ts : \E i \in ChunksIn(dh[u]) : y = <<u, i>>
    BY <1>1, InFlightIs
  <2>2. PICK i \in ChunksIn(dh[u]) : y = <<u, i>>
    BY <2>1
  <2>3. CASE u = t
    <3>1. i \in Nat /\ i # 0 /\ i + 1 \in ChunksIn(q) /\ i + 1 # 1 /\ (i + 1) - 1 = i
      BY <1>2, <1>5, <1>6, <2>2, <2>3
    <3>2. PICK x : x = <<t, i + 1>>
      OBVIOUS
    <3>3. x \in A
      BY <1>1, <1>2, <3>1, <3>2, InFlightIs
    <3>4. f[x] = y
      BY <1>9, <2>2, <2>3, <3>1, <3>2, <3>3
    <3> QED
      BY <3>3, <3>4
  <2>4. CASE u # t
    <3>1. i \in ChunksIn(ch[u])
      BY <2>2, <2>4
    <3>2. y \in A
      BY <1>1, <2>2, <2>4, <3>1, InFlightIs
    <3>3. f[y] = y
      BY <1>9, <2>2, <2>4, <3>2
    <3> QED
      BY <3>2, <3>3
  <2> QED
    BY <2>3, <2>4
<1>14. f \in Bijection(A, B)
  BY <1>11, <1>12, <1>13, Fun_IsBij
<1>15. ExistsBijection(A, B)
  BY <1>14 DEF ExistsBijection
<1>16. IsFiniteSet(B) /\ Cardinality(B) = Cardinality(A)
  BY <1>8, <1>15, FS_Bijection
<1> QED
  BY <1>1, <1>2, <1>8, <1>16

\* Each of the bursts ms was written to its channel, or lost.
WrittenOrLost(ts, ms, ch, dh) ==
    /\ ts \subseteq Transfers
    /\ \A q \in {ms, ch, dh} : q \in [Transfers -> Seq(Message)]
    /\ \A t \in ts : dh[t] = ch[t] \/ IsConcat(dh[t], ch[t], ms[t])

\* The bursts ms were written to the channels ts, and there are no others.
Written(ts, ms, ch, dh) ==
    /\ \A t \in ts : IsConcat(dh[t], ch[t], ms[t])
    /\ \A t \in Transfers \ ts : ms[t] = <<>>

\* Bursts that are written to the channels ts, or lost: at most as many chunks are on
\* their way as were before and were written.
LEMMA BurstCounted ==
    ASSUME NEW ts, NEW ms, NEW ch, NEW dh, WrittenOrLost(ts, ms, ch, dh),
           IsFiniteSet(InFlight(ts, ch)), IsFiniteSet(InFlight(Transfers, ms))
    PROVE  /\ IsFiniteSet(InFlight(ts, dh))
           /\ Cardinality(InFlight(ts, dh)) <=
                  Cardinality(InFlight(ts, ch)) + Cardinality(InFlight(Transfers, ms))
           /\ Written(ts, ms, ch, dh) =>
                  Cardinality(InFlight(ts, dh)) =
                      Cardinality(InFlight(ts, ch)) + Cardinality(InFlight(Transfers, ms))
<1> /\ ts \in SUBSET Transfers /\ ms \in [Transfers -> Seq(Message)]
    /\ ch \in [Transfers -> Seq(Message)] /\ dh \in [Transfers -> Seq(Message)]
  BY DEF WrittenOrLost
<1>1. PICK A, B, C, N : /\ A = InFlight(ts, ch) /\ B = InFlight(ts, dh) /\ C = InFlight(Transfers, ms)
                        /\ N = B \ A
  OBVIOUS
<1>2. ASSUME NEW t \in ts, IsConcat(dh[t], ch[t], ms[t])
      PROVE  /\ Len(ch[t]) \in Nat
             /\ ChunksIn(ch[t]) \subseteq ChunksIn(dh[t])
             /\ \A i \in ChunksIn(dh[t]) \ ChunksIn(ch[t]) :
                    i \in Nat /\ i > Len(ch[t]) /\ i - Len(ch[t]) \in ChunksIn(ms[t])
             /\ \A i \in ChunksIn(ms[t]) : /\ i \in Nat /\ i + Len(ch[t]) \notin ChunksIn(ch[t])
                                           /\ i + Len(ch[t]) \in ChunksIn(dh[t])
  <2>1. PICK p, q, r : p = ch[t] /\ q = ms[t] /\ r = dh[t]
    OBVIOUS
  <2>2. p \in Seq(Message) /\ q \in Seq(Message) /\ r \in Seq(Message)
    BY <2>1
  <2>3. PICK k \in Nat, l \in Nat : k = Len(p) /\ l = Len(q)
    BY <2>2
  <2>4. Len(r) = k + l /\ \A j \in 1..(k + l) : r[j] = IF j <= k THEN p[j] ELSE q[j - k]
    BY <1>2, <2>1, <2>3 DEF IsConcat
  <2>5. ChunksIn(p) \subseteq ChunksIn(r)
    <3>1. \A i \in 1..k : i \in 1..(k + l) /\ r[i] = p[i]
      BY <2>4
    <3> QED
      BY <2>3, <2>4, <3>1 DEF ChunksIn
  <2>6. ASSUME NEW i \in ChunksIn(r) \ ChunksIn(p) PROVE i \in Nat /\ i > k /\ i - k \in ChunksIn(q)
    <3>1. i \in 1..(k + l) /\ r[i].kind = "chunk"
      BY <2>4, <2>6 DEF ChunksIn
    <3>2. CASE i <= k
      <4>1. i \in 1..k /\ r[i] = p[i]
        BY <2>4, <3>1, <3>2
      <4> QED
        BY <2>3, <2>6, <3>1, <4>1 DEF ChunksIn
    <3>3. CASE ~(i <= k)
      <4>1. r[i] = q[i - k] /\ i - k \in 1..l /\ i > k /\ i \in Nat
        BY <2>4, <3>1, <3>3
      <4> QED
        BY <2>3, <3>1, <4>1 DEF ChunksIn
    <3> QED
      BY <3>2, <3>3
  <2>7. ASSUME NEW i \in ChunksIn(q) PROVE i \in Nat /\ i + k \notin ChunksIn(p) /\ i + k \in ChunksIn(r)
    <3>1. i \in 1..l /\ q[i].kind = "chunk"
      BY <2>3 DEF ChunksIn
    <3>2. i + k \in 1..(k + l) /\ ~(i + k <= k) /\ (i + k) - k = i /\ i \in Nat /\ i + k \notin 1..k
      BY <3>1
    <3>3. r[i + k] = q[i]
      BY <2>4, <3>2
    <3> QED
      BY <2>3, <2>4, <3>1, <3>2, <3>3 DEF ChunksIn
  <2> QED
    BY <2>1, <2>3, <2>5, <2>6, <2>7
<1>3. A \subseteq B
  <2>1. ASSUME NEW x \in A PROVE x \in B
    <3>1. PICK t \in ts : \E i \in ChunksIn(ch[t]) : x = <<t, i>>
      BY <1>1, InFlightIs
    <3>2. \E i \in ChunksIn(dh[t]) : x = <<t, i>>
      BY <1>2, <3>1 DEF WrittenOrLost
    <3> QED
      BY <1>1, <3>2, InFlightIs
  <2> QED
    BY <2>1
<1>4. ASSUME NEW x \in N
      PROVE  \E t \in ts : \E i \in Nat : /\ x = <<t, i>> /\ i > Len(ch[t]) /\ Len(ch[t]) \in Nat
                                          /\ i - Len(ch[t]) \in ChunksIn(ms[t])
  <2>1. PICK t \in ts : \E i \in ChunksIn(dh[t]) : x = <<t, i>>
    BY <1>1, InFlightIs
  <2>2. PICK i \in ChunksIn(dh[t]) : x = <<t, i>>
    BY <2>1
  <2>3. i \notin ChunksIn(ch[t])
    BY <1>1, <2>2, InFlightIs
  <2>4. IsConcat(dh[t], ch[t], ms[t])
    BY <2>3 DEF WrittenOrLost
  <2> QED
    BY <1>2, <2>2, <2>3, <2>4
<1>5. PICK f : f = [x \in N |-> <<x[1], x[2] - Len(ch[x[1]])>>]
  OBVIOUS
<1>6. ASSUME NEW x \in N
      PROVE  \E t \in ts, i \in Nat, k \in Nat :
                 /\ x = <<t, i>> /\ k = Len(ch[t]) /\ f[x] = <<t, i - k>>
                 /\ i - k \in ChunksIn(ms[t])
  <2>1. PICK t \in ts, i \in Nat : /\ x = <<t, i>> /\ Len(ch[t]) \in Nat
                                   /\ i - Len(ch[t]) \in ChunksIn(ms[t])
    BY <1>4
  <2>2. f[x] = <<t, i - Len(ch[t])>>
    BY <1>5, <2>1
  <2> QED
    BY <2>1, <2>2
<1>7. f \in [N -> C]
  <2>1. ASSUME NEW x \in N PROVE f[x] \in C
    <3>1. \E t \in Transfers : \E e \in ChunksIn(ms[t]) : f[x] = <<t, e>>
      BY <1>6
    <3> QED
      BY <1>1, <3>1, InFlightIs
  <2> QED
    BY <1>5, <2>1
<1>8. ASSUME NEW x \in N, NEW y \in N, f[x] = f[y] PROVE x = y
  <2>1. PICK t \in ts, i \in Nat, k \in Nat :
            /\ x = <<t, i>> /\ k = Len(ch[t]) /\ f[x] = <<t, i - k>>
            /\ i - k \in ChunksIn(ms[t])
    BY <1>6, Zenon
  <2>2. PICK u \in ts, j \in Nat, l \in Nat :
            /\ y = <<u, j>> /\ l = Len(ch[u]) /\ f[y] = <<u, j - l>>
            /\ j - l \in ChunksIn(ms[u])
    BY <1>6, Zenon
  <2>3. <<t, i - k>> = <<u, j - l>>
    BY <1>8, <2>1, <2>2
  <2>4. t = u /\ i - k = j - l
    BY <2>3
  <2>5. k = l
    BY <2>1, <2>2, <2>4
  <2>6. i = j
    BY <2>4, <2>5
  <2> QED
    BY <2>1, <2>2, <2>4, <2>6
<1>9. f \in Injection(N, C)
  BY <1>7, <1>8, Fun_IsInj
<1>10. IsFiniteSet(N) /\ Cardinality(N) <= Cardinality(C) /\ (Cardinality(N) = Cardinality(C) <=> f \in Surjection(N, C))
  BY <1>1, <1>9, FS_Injection
<1>11. IsFiniteSet(B) /\ Cardinality(B) = Cardinality(A) + Cardinality(N)
  <2>1. B = A \cup N /\ A \cap N = {}
    BY <1>1, <1>3
  <2>2. Cardinality({}) = 0
    BY FS_EmptySet
  <2>3. /\ IsFiniteSet(A \cup N)
        /\ Cardinality(A \cup N) = Cardinality(A) + Cardinality(N) - Cardinality(A \cap N)
    BY <1>1, <1>10, FS_Union
  <2>4. Cardinality(A) \in Nat /\ Cardinality(N) \in Nat
    BY <1>1, <1>10, FS_CardinalityType
  <2>5. Cardinality(A \cap N) = 0
    BY <2>1, <2>2, Zenon
  <2>6. Cardinality(A \cup N) = Cardinality(A) + Cardinality(N)
    BY <2>3, <2>4, <2>5
  <2> QED
    BY <2>1, <2>3, <2>6, Zenon
<1>12. Cardinality(A) \in Nat /\ Cardinality(N) \in Nat /\ Cardinality(C) \in Nat
  BY <1>1, <1>10, FS_CardinalityType
<1>13. ASSUME Written(ts, ms, ch, dh)
       PROVE  Cardinality(N) = Cardinality(C)
  <2>1. ASSUME NEW y \in C PROVE \E x \in N : f[x] = y
    <3>1. PICK t \in Transfers : \E i \in ChunksIn(ms[t]) : y = <<t, i>>
      BY <1>1, InFlightIs
    <3>2. PICK i \in ChunksIn(ms[t]) : y = <<t, i>>
      BY <3>1
    <3>3. t \in ts /\ IsConcat(dh[t], ch[t], ms[t])
      <4>1. ms[t] # <<>>
        BY <3>2 DEF ChunksIn
      <4> QED
        BY <1>13, <4>1 DEF Written
    <3>4. /\ Len(ch[t]) \in Nat /\ i \in Nat /\ i + Len(ch[t]) \notin ChunksIn(ch[t])
          /\ i + Len(ch[t]) \in ChunksIn(dh[t])
      BY <1>2, <3>2, <3>3
    <3>5. PICK x : x = <<t, i + Len(ch[t])>>
      OBVIOUS
    <3>6. x \in N
      BY <1>1, <3>3, <3>4, <3>5, InFlightIs
    <3>7. f[x] = <<t, (i + Len(ch[t])) - Len(ch[t])>>
      BY <1>5, <3>5, <3>6
    <3>8. (i + Len(ch[t])) - Len(ch[t]) = i
      BY <3>4
    <3> QED
      BY <3>2, <3>6, <3>7, <3>8
  <2>2. f \in Surjection(N, C)
    BY <1>7, <2>1, Fun_IsSurj
  <2> QED
    BY <1>10, <2>2
<1> QED
  BY <1>1, <1>10, <1>11, <1>12, <1>13

\* An acknowledgement more.
LEMMA ConfirmingMore ==
    ASSUME NEW cs, NEW c \in cs, NEW ak, NEW bk, ak[c] \in Nat, bk[c] = ak[c] + 1,
           \A d \in cs \ {c} : bk[d] = ak[d], IsFiniteSet(Confirming(cs, ak))
    PROVE  /\ IsFiniteSet(Confirming(cs, bk))
           /\ Cardinality(Confirming(cs, bk)) = Cardinality(Confirming(cs, ak)) + 1
<1>1. PICK x : x = <<c, bk[c]>>
  OBVIOUS
<1>2. 1..bk[c] = (1..ak[c]) \cup {bk[c]} /\ bk[c] \notin 1..ak[c]
  OBVIOUS
<1>3. Confirming(cs, bk) = Confirming(cs, ak) \cup {x}
  BY <1>1, <1>2 DEF Confirming
<1>4. x \notin Confirming(cs, ak)
  BY <1>1, <1>2 DEF Confirming
<1> QED
  BY <1>3, <1>4, FS_AddElement

\* What does not change is the same set.
LEMMA ConfirmingSame ==
    ASSUME NEW cs, NEW ak, NEW bk, \A c \in cs : bk[c] = ak[c]
    PROVE  Confirming(cs, bk) = Confirming(cs, ak)
BY DEF Confirming

\* An acknowledgement of c was there.
LEMMA ConfirmingLess ==
    ASSUME NEW cs, NEW c \in cs, NEW ak, NEW bk, ak[c] \in Nat, ak[c] > 0, bk[c] = ak[c] - 1,
           \A d \in cs \ {c} : bk[d] = ak[d], IsFiniteSet(Confirming(cs, ak))
    PROVE  /\ IsFiniteSet(Confirming(cs, bk))
           /\ Cardinality(Confirming(cs, bk)) = Cardinality(Confirming(cs, ak)) - 1
<1>1. PICK x : x = <<c, ak[c]>>
  OBVIOUS
<1>2. 1..ak[c] = (1..bk[c]) \cup {ak[c]} /\ ak[c] \notin 1..bk[c] /\ ak[c] \in 1..ak[c]
  OBVIOUS
<1>3. Confirming(cs, bk) = Confirming(cs, ak) \ {x}
  BY <1>1, <1>2 DEF Confirming
<1>4. x \in Confirming(cs, ak)
  BY <1>1, <1>2 DEF Confirming
<1> QED
  BY <1>3, <1>4, FS_RemoveElement

\* The pool's queue is closed.
LEMMA ConfirmingNone ==
    ASSUME NEW cs, NEW ak, \A c \in cs : ak[c] = 0
    PROVE  Confirming(cs, ak) = {}
<1>1. 1..0 = {}
  OBVIOUS
<1> QED
  BY <1>1 DEF Confirming

-----------------------------------------------------------------------------
(* What is sent when a stream's jobs are run.                              *)

Remainder(j) == IF size[j.t] > j.pos THEN size[j.t] - j.pos ELSE 0

Accs == [room : 0..Quota, left : Seq(Jobs), ms : [Transfers -> Seq(Message)]]

IsChunk(m, n) == m.kind = "chunk" /\ m.n = n

\* n chunks of a job, not more than there are.
FirstOf(m, j, n) ==
    /\ m \in Seq(Message) /\ n \in 0..Remainder(j) /\ Len(m) = n
    /\ \A i \in 1..n : IsChunk(m[i], j.pos + i)

\* All that is left of it, and the end.
AllOf(m, j) ==
    /\ m \in Seq(Message) /\ Len(m) = Remainder(j) + 1
    /\ \A i \in 1..Remainder(j) : IsChunk(m[i], j.pos + i)
    /\ m[Remainder(j) + 1] = Closing

\* The number of chunks left is one.
LEMMA RestIsNatural ==
    ASSUME size \in [Transfers -> Nat], NEW j \in Jobs
    PROVE  Remainder(j) \in Nat /\ j.t \in Transfers /\ j.pos \in Nat
<1>1. size[j.t] \in Nat /\ j.pos \in Nat /\ j.t \in Transfers
  BY DEF Jobs
<1> QED
  BY <1>1 DEF Remainder

\* What a burst of n chunks is, alone or with the end after it.
LEMMA BurstFacts ==
    ASSUME NEW j \in Jobs, size \in [Transfers -> Nat], NEW n \in 0..Remainder(j)
    PROVE  /\ FirstOf(Chunks(j.pos, n) \o <<>>, j, n)
           /\ n = Remainder(j) => AllOf(Chunks(j.pos, n) \o <<Closing>>, j)
<1>1. Remainder(j) \in Nat /\ j.pos \in Nat /\ n \in Nat
  BY RestIsNatural
<1>2. PICK m : m = Chunks(j.pos, n)
  OBVIOUS
<1>3. m \in Seq(Message) /\ Len(m) = n /\ \A i \in 1..n : IsChunk(m[i], j.pos + i)
  <2>1. m = [i \in 1..n |-> [kind |-> "chunk", n |-> j.pos + i]]
    BY <1>2 DEF Chunks
  <2>2. \A i \in 1..n : m[i] = [kind |-> "chunk", n |-> j.pos + i] /\ j.pos + i \in Nat
    BY <1>1, <2>1
  <2>3. ASSUME NEW i \in 1..n PROVE m[i] \in Message
    <3>1. PICK k \in Nat : k = j.pos + i
      BY <2>2
    <3>2. m[i] = [kind |-> "chunk", n |-> k]
      BY <2>2, <3>1
    <3> QED
      BY <3>2 DEF Message
  <2>4. m \in [1..n -> Message]
    BY <2>1, <2>3
  <2>5. m \in Seq(Message) /\ Len(m) = n
    BY <1>1, <2>4
  <2> QED
    BY <2>2, <2>5 DEF IsChunk
<1>4. m \o <<>> = m
  BY <1>3
<1>5. FirstOf(m \o <<>>, j, n)
  BY <1>1, <1>3, <1>4 DEF FirstOf
<1>6. ASSUME n = Remainder(j) PROVE AllOf(m \o <<Closing>>, j)
  <2>1. PICK c, r : c = <<Closing>> /\ r = m \o c
    OBVIOUS
  <2>2. c \in Seq(Message) /\ Len(c) = 1 /\ c[1] = Closing
    BY <2>1 DEF Closing, Message
  <2>3. r \in Seq(Message) /\ IsConcat(r, m, c)
    BY <1>3, <2>1, <2>2, ConcatFacts, Zenon
  <2>4. Len(r) = n + 1 /\ (\A i \in 1..n : r[i] = m[i]) /\ r[n + 1] = c[1]
    BY <1>1, <1>3, <2>2, <2>3 DEF IsConcat
  <2>5. \A i \in 1..Remainder(j) : IsChunk(r[i], j.pos + i)
    BY <1>3, <1>6, <2>4
  <2> QED
    BY <1>6, <2>1, <2>2, <2>3, <2>4, <2>5 DEF AllOf
<1> QED
  BY <1>2, <1>5, <1>6

\* One job's turn: it gets its share of the room, and stays unless it is over.
Turned(r, acc, j) ==
    /\ r \in Accs
    /\ \/ /\ r.left = acc.left
          /\ AllOf(r.ms[j.t], j)
       \/ \E k \in Jobs : /\ k.t = j.t /\ k.pos >= j.pos
                          /\ r.left = Append(acc.left, k)
                          /\ FirstOf(r.ms[j.t], j, k.pos - j.pos)
    /\ \A t \in Transfers : t # j.t => r.ms[t] = acc.ms[t]
    /\ \E n \in 0..acc.room : r.room = acc.room - n /\ ChunksIn(r.ms[j.t]) = 1..n

\* What one job's turn comes to.
LEMMA ChunkedFacts ==
    ASSUME FilesTypeOK, NEW acc \in Accs, NEW j \in Jobs
    PROVE  Turned(Chunked(acc, j), acc, j)
<1>1. PICK rest : rest = Remainder(j)
  OBVIOUS
<1>2. PICK n, ends : n = (IF rest < acc.room THEN rest ELSE acc.room) /\ ends = (rest < acc.room)
  OBVIOUS
<1>3. PICK m, k, r : /\ m = Chunks(j.pos, n) \o IF ends THEN <<Closing>> ELSE <<>>
                     /\ k = [j EXCEPT !.pos = @ + n]
                     /\ r = [room |-> acc.room - n,
                             left |-> IF ends THEN acc.left ELSE Append(acc.left, k),
                             ms   |-> [acc.ms EXCEPT ![j.t] = m]]
  OBVIOUS
<1>4. Chunked(acc, j) = r
  BY <1>1, <1>2, <1>3 DEF Chunked, Remainder
<1>5. /\ acc.room \in 0..Quota /\ acc.left \in Seq(Jobs) /\ acc.ms \in [Transfers -> Seq(Message)]
      /\ Quota \in Nat
  BY FilesAssumption, QuotaIsPositive DEF Accs
<1>6. rest \in Nat /\ j.t \in Transfers /\ j.pos \in Nat
  BY <1>1, RestIsNatural DEF FilesTypeOK
<1>7. /\ n \in 0..rest /\ acc.room - n \in 0..Quota /\ n \in 0..acc.room
      /\ ends => n = rest
  <2>1. PICK room \in 0..Quota : room = acc.room
    BY <1>5
  <2>2. room \in Nat /\ room <= Quota
    BY <1>5
  <2>3. CASE rest < room
    BY <1>2, <1>5, <1>6, <2>1, <2>2, <2>3
  <2>4. CASE ~(rest < room)
    <3>1. n = room /\ ~ends
      BY <1>2, <2>1, <2>4
    <3>2. room <= rest /\ room - room = 0 /\ 0 \in 0..Quota
      BY <1>5, <1>6, <2>2, <2>4
    <3> QED
      BY <1>6, <2>1, <2>2, <3>1, <3>2
  <2> QED
    BY <2>3, <2>4
<1>8. k \in Jobs /\ k.t = j.t /\ k.pos = j.pos + n
  <2>1. k.t = j.t /\ k.pos = j.pos + n
    BY <1>3 DEF Jobs
  <2>2. j.pos + n \in Nat
    BY <1>6, <1>7
  <2>3. k = [j EXCEPT !.pos = j.pos + n]
    BY <1>3
  <2>4. k \in Jobs
    BY <2>2, <2>3 DEF Jobs
  <2> QED
    BY <2>1, <2>4
<1>9. IF ends THEN AllOf(m, j) ELSE FirstOf(m, j, n)
  <2>1. n \in 0..Remainder(j) /\ size \in [Transfers -> Nat]
    BY <1>1, <1>7 DEF FilesTypeOK
  <2>2. FirstOf(Chunks(j.pos, n) \o <<>>, j, n) /\ (n = Remainder(j) => AllOf(Chunks(j.pos, n) \o <<Closing>>, j))
    BY <2>1, BurstFacts
  <2>3. CASE ends
    <3>1. m = Chunks(j.pos, n) \o <<Closing>>
      BY <1>3, <2>3
    <3> QED
      BY <1>1, <1>7, <2>2, <2>3, <3>1
  <2>4. CASE ~ends
    <3>1. m = Chunks(j.pos, n) \o <<>>
      BY <1>3, <2>4
    <3> QED
      BY <2>2, <2>4, <3>1
  <2> QED
    BY <2>3, <2>4
<1>10. m \in Seq(Message)
  <2>1. CASE ends
    BY <1>9, <2>1 DEF AllOf
  <2>2. CASE ~ends
    BY <1>9, <2>2 DEF FirstOf
  <2> QED
    BY <2>1, <2>2
<1>11. PICK ms : ms = [acc.ms EXCEPT ![j.t] = m]
  OBVIOUS
<1>12. /\ ms \in [Transfers -> Seq(Message)] /\ ms[j.t] = m
       /\ \A t \in Transfers : t # j.t => ms[t] = acc.ms[t]
  BY <1>5, <1>6, <1>10, <1>11
<1>13. PICK kept : kept = IF ends THEN acc.left ELSE Append(acc.left, k)
  OBVIOUS
<1>14. kept \in Seq(Jobs)
  BY <1>5, <1>8, <1>13
<1>15. r = [room |-> acc.room - n, left |-> kept, ms |-> ms]
  BY <1>3, <1>11, <1>13
<1>16. r \in Accs /\ r.left = kept /\ r.ms = ms /\ r.room = acc.room - n
  BY <1>7, <1>12, <1>14, <1>15 DEF Accs
<1>17. \E v \in 0..acc.room : r.room = acc.room - v /\ ChunksIn(r.ms[j.t]) = 1..v
  <2>1. n \in Nat /\ \A i \in 1..(n + 1) : i \in 1..n \/ i = n + 1
    BY <1>7
  <2>2. CASE ends
    <3>1. Len(m) = n + 1 /\ (\A i \in 1..n : m[i].kind = "chunk") /\ m[n + 1].kind # "chunk"
      BY <1>1, <1>7, <1>9, <2>2 DEF AllOf, IsChunk, Closing
    <3> QED
      BY <1>7, <1>12, <1>16, <2>1, <3>1 DEF ChunksIn
  <2>3. CASE ~ends
    <3>1. Len(m) = n /\ \A i \in 1..n : m[i].kind = "chunk"
      BY <1>9, <2>3 DEF FirstOf, IsChunk
    <3> QED
      BY <1>7, <1>12, <1>16, <3>1 DEF ChunksIn
  <2> QED
    BY <2>2, <2>3
<1>18. CASE ends
  <2>1. r.left = acc.left /\ AllOf(r.ms[j.t], j)
    BY <1>9, <1>12, <1>13, <1>16, <1>18
  <2> QED
    BY <1>4, <1>12, <1>16, <1>17, <2>1 DEF Turned
<1>19. CASE ~ends
  <2>1. k.pos >= j.pos /\ k.pos - j.pos = n
    BY <1>6, <1>7, <1>8
  <2>2. r.left = Append(acc.left, k) /\ FirstOf(r.ms[j.t], j, k.pos - j.pos)
    BY <1>9, <1>12, <1>13, <1>16, <1>19, <2>1
  <2> QED
    BY <1>4, <1>8, <1>12, <1>16, <1>17, <2>1, <2>2 DEF Turned
<1> QED
  BY <1>18, <1>19

\* What the room shrank by is what was written.
Paid(acc, u) ==
    /\ IsFiniteSet(InFlight(Transfers, acc.ms))
    /\ acc.room + Cardinality(InFlight(Transfers, acc.ms)) = Quota - u

\* One job more.
LEMMA PaidOne ==
    ASSUME FilesTypeOK, NEW acc \in Accs, NEW j \in Jobs, acc.ms[j.t] = <<>>, NEW u \in 0..Quota,
           Paid(acc, u), NEW r, Turned(r, acc, j)
    PROVE  Paid(r, u)
<1>1. PICK n \in 0..acc.room : r.room = acc.room - n /\ ChunksIn(r.ms[j.t]) = 1..n
  BY DEF Turned
<1>2. PICK A, B, C : A = InFlight(Transfers, acc.ms) /\ B = InFlight(Transfers, r.ms) /\ C = {j.t} \X (1..n)
  OBVIOUS
<1>3. j.t \in Transfers /\ acc.room \in Nat /\ Quota \in Nat /\ n \in Nat
  BY FilesAssumption, QuotaIsPositive DEF Jobs, Accs
<1>4. \A t \in Transfers : t # j.t => r.ms[t] = acc.ms[t]
  BY DEF Turned
<1>5. ChunksIn(acc.ms[j.t]) = {}
  BY DEF ChunksIn
<1>6. B = A \cup C
  <2>1. ASSUME NEW x PROVE x \in B <=> x \in A \cup C
    <3>1. x \in B <=> \E t \in Transfers : \E i \in ChunksIn(r.ms[t]) : x = <<t, i>>
      BY <1>2, InFlightIs
    <3>2. x \in A <=> \E t \in Transfers : \E i \in ChunksIn(acc.ms[t]) : x = <<t, i>>
      BY <1>2, InFlightIs
    <3>3. x \in C <=> \E i \in ChunksIn(r.ms[j.t]) : x = <<j.t, i>>
      BY <1>1, <1>2
    <3> QED
      BY <1>3, <1>4, <1>5, <3>1, <3>2, <3>3
  <2> QED
    BY <2>1
<1>7. A \cap C = {}
  <2>1. ASSUME NEW x \in A PROVE x \notin C
    <3>1. PICK t \in Transfers : \E i \in ChunksIn(acc.ms[t]) : x = <<t, i>>
      BY <1>2, InFlightIs
    <3> QED
      BY <1>2, <1>5, <3>1
  <2> QED
    BY <2>1
<1>8. IsFiniteSet(C) /\ Cardinality(C) = n
  <2>1. IsFiniteSet(1..n) /\ Cardinality(1..n) = n
    <3>1. 1 \in Int /\ n \in Int /\ (IF 1 > n THEN 0 ELSE n - 1 + 1) = n
      BY <1>3
    <3> QED
      BY <3>1, FS_Interval
  <2>2. IsFiniteSet({j.t}) /\ Cardinality({j.t}) = 1
    BY FS_Singleton
  <2>3. IsFiniteSet(C) /\ Cardinality(C) = 1 * n
    BY <1>2, <2>1, <2>2, FS_Product
  <2> QED
    BY <1>3, <2>3
<1>9. IsFiniteSet(A) /\ Cardinality(A) \in Nat /\ acc.room + Cardinality(A) = Quota - u
  BY <1>2, FS_CardinalityType DEF Paid
<1>10. IsFiniteSet(B) /\ Cardinality(B) = Cardinality(A) + n
  <2>1. IsFiniteSet(B) /\ Cardinality(B) = Cardinality(A) + Cardinality(C) - Cardinality(A \cap C)
    BY <1>6, <1>8, <1>9, FS_Union
  <2>2. Cardinality(A \cap C) = 0
    BY <1>7, FS_EmptySet, Zenon
  <2> QED
    BY <1>3, <1>8, <1>9, <2>1, <2>2
<1> QED
  BY <1>1, <1>2, <1>3, <1>9, <1>10 DEF Paid

\* No two jobs of a list are of one transfer.
Alone(js) == \A i, l \in 1..Len(js) : js[i].t = js[l].t => i = l

\* What running the first k jobs of a list comes to.
Pump(acc, js, k) ==
    /\ acc \in Accs /\ Alone(acc.left)
    /\ \A l \in 1..Len(acc.left) : \E i \in 1..k :
          /\ acc.left[l].t = js[i].t /\ acc.left[l].pos >= js[i].pos
          /\ FirstOf(acc.ms[js[i].t], js[i], acc.left[l].pos - js[i].pos)
    /\ \A i \in 1..k : \/ AllOf(acc.ms[js[i].t], js[i]) /\ \A l \in 1..Len(acc.left) : acc.left[l].t # js[i].t
                       \/ \E n \in Nat : FirstOf(acc.ms[js[i].t], js[i], n)
    /\ \A t \in Transfers : (\A i \in 1..k : js[i].t # t) => acc.ms[t] = <<>>

\* One more job.
LEMMA PumpOne ==
    ASSUME FilesTypeOK, NEW js \in Seq(Jobs), Alone(js), NEW k \in Nat, k + 1 \in 1..Len(js),
           NEW acc, Pump(acc, js, k), NEW r, r = Chunked(acc, js[k + 1])
    PROVE  Pump(r, js, k + 1)
<1>1. PICK j : j = js[k + 1]
  OBVIOUS
<1>2. j \in Jobs /\ acc \in Accs /\ j.t \in Transfers /\ acc.left \in Seq(Jobs)
  <2>1. j \in Jobs
    BY <1>1
  <2>2. acc \in Accs
    BY DEF Pump
  <2> QED
    BY <2>1, <2>2 DEF Accs, Jobs
<1>3. Turned(r, acc, j)
  BY <1>1, <1>2, ChunkedFacts
<1>4. r \in Accs /\ r.left \in Seq(Jobs)
  BY <1>3 DEF Turned, Accs
<1>5. \A i \in 1..k : /\ js[i] \in Jobs /\ js[i].t \in Transfers /\ js[i].t # j.t
                      /\ i \in 1..(k + 1) /\ r.ms[js[i].t] = acc.ms[js[i].t]
  <2>1. ASSUME NEW i \in 1..k PROVE js[i] \in Jobs /\ i \in 1..Len(js) /\ i # k + 1 /\ i \in 1..(k + 1)
    BY <1>1
  <2>2. \A i \in 1..k : js[i].t \in Transfers /\ js[i].t # j.t
    BY <1>1, <2>1 DEF Alone, Jobs
  <2> QED
    BY <1>3, <2>1, <2>2 DEF Turned
<1>6. \A l \in 1..Len(acc.left) : acc.left[l].t # j.t
  BY <1>5 DEF Pump
<1>7. k + 1 \in 1..(k + 1) /\ \A i \in 1..(k + 1) : i \in 1..k \/ i = k + 1
  OBVIOUS
<1>8. ASSUME NEW t \in Transfers, \A i \in 1..(k + 1) : js[i].t # t PROVE r.ms[t] = <<>>
  <2>1. t # j.t /\ \A i \in 1..k : js[i].t # t
    BY <1>1, <1>5, <1>7, <1>8
  <2>2. r.ms[t] = acc.ms[t]
    BY <1>3, <2>1 DEF Turned
  <2> QED
    BY <2>1, <2>2 DEF Pump
<1>9. CASE r.left = acc.left /\ AllOf(r.ms[j.t], j)
  <2>1. Alone(r.left)
    BY <1>9 DEF Pump
  <2>2. ASSUME NEW l \in 1..Len(r.left)
        PROVE  \E i \in 1..(k + 1) : /\ r.left[l].t = js[i].t /\ r.left[l].pos >= js[i].pos
                                     /\ FirstOf(r.ms[js[i].t], js[i], r.left[l].pos - js[i].pos)
    <3>1. PICK i \in 1..k : /\ acc.left[l].t = js[i].t /\ acc.left[l].pos >= js[i].pos
                            /\ FirstOf(acc.ms[js[i].t], js[i], acc.left[l].pos - js[i].pos)
      BY <1>9 DEF Pump
    <3> QED
      BY <1>5, <1>9, <3>1
  <2>3. ASSUME NEW i \in 1..(k + 1)
        PROVE  \/ AllOf(r.ms[js[i].t], js[i]) /\ \A l \in 1..Len(r.left) : r.left[l].t # js[i].t
               \/ \E n \in Nat : FirstOf(r.ms[js[i].t], js[i], n)
    <3>1. CASE i = k + 1
      BY <1>1, <1>6, <1>9, <3>1
    <3>2. CASE i \in 1..k
      <4>1. r.ms[js[i].t] = acc.ms[js[i].t] /\ r.left = acc.left
        BY <1>5, <1>9, <3>2
      <4>2. \/ AllOf(acc.ms[js[i].t], js[i]) /\ \A l \in 1..Len(acc.left) : acc.left[l].t # js[i].t
            \/ \E n \in Nat : FirstOf(acc.ms[js[i].t], js[i], n)
        BY <3>2 DEF Pump
      <4> QED
        BY <4>1, <4>2
    <3> QED
      BY <1>7, <3>1, <3>2
  <2> QED
    BY <1>4, <1>8, <2>1, <2>2, <2>3 DEF Pump
<1>10. ASSUME NEW p \in Jobs, p.t = j.t, p.pos >= j.pos, r.left = Append(acc.left, p),
              FirstOf(r.ms[j.t], j, p.pos - j.pos)
       PROVE  Pump(r, js, k + 1)
  <2>1. PICK n : n = Len(acc.left) /\ n \in Nat
    BY <1>2
  <2>2. Len(r.left) = n + 1 /\ r.left[n + 1] = p /\ \A l \in 1..n : r.left[l] = acc.left[l]
    BY <1>2, <1>10, <2>1
  <2>3. \A l \in 1..(n + 1) : l \in 1..n \/ l = n + 1
    BY <2>1
  <2>4. Alone(r.left)
    BY <1>6, <1>10, <2>1, <2>2, <2>3 DEF Alone, Pump
  <2>5. ASSUME NEW l \in 1..Len(r.left)
        PROVE  \E i \in 1..(k + 1) : /\ r.left[l].t = js[i].t /\ r.left[l].pos >= js[i].pos
                                     /\ FirstOf(r.ms[js[i].t], js[i], r.left[l].pos - js[i].pos)
    <3>1. CASE l = n + 1
      BY <1>1, <1>7, <1>10, <2>2, <3>1
    <3>2. CASE l \in 1..n
      <4>1. PICK i \in 1..k : /\ acc.left[l].t = js[i].t /\ acc.left[l].pos >= js[i].pos
                              /\ FirstOf(acc.ms[js[i].t], js[i], acc.left[l].pos - js[i].pos)
        BY <2>1, <3>2 DEF Pump
      <4>2. r.left[l] = acc.left[l]
        BY <2>2, <3>2
      <4> QED
        BY <1>5, <4>1, <4>2
    <3> QED
      BY <2>2, <2>3, <3>1, <3>2
  <2>6. ASSUME NEW i \in 1..(k + 1)
        PROVE  \/ AllOf(r.ms[js[i].t], js[i]) /\ \A l \in 1..Len(r.left) : r.left[l].t # js[i].t
               \/ \E m \in Nat : FirstOf(r.ms[js[i].t], js[i], m)
    <3>1. CASE i = k + 1
      <4>1. p.pos - j.pos \in Nat
        BY <1>2, <1>10 DEF Jobs
      <4> QED
        BY <1>1, <1>10, <3>1, <4>1
    <3>2. CASE i \in 1..k
      <4>1. r.ms[js[i].t] = acc.ms[js[i].t] /\ js[i].t # j.t
        BY <1>5, <3>2
      <4>2. \/ AllOf(acc.ms[js[i].t], js[i]) /\ \A l \in 1..Len(acc.left) : acc.left[l].t # js[i].t
            \/ \E m \in Nat : FirstOf(acc.ms[js[i].t], js[i], m)
        BY <3>2 DEF Pump
      <4>3. ASSUME \A l \in 1..Len(acc.left) : acc.left[l].t # js[i].t, NEW l \in 1..Len(r.left)
            PROVE  r.left[l].t # js[i].t
        BY <1>10, <2>1, <2>2, <2>3, <4>1, <4>3
      <4> QED
        BY <4>1, <4>2, <4>3
    <3> QED
      BY <1>7, <3>1, <3>2
  <2> QED
    BY <1>4, <1>8, <2>4, <2>5, <2>6 DEF Pump
<1> QED
  BY <1>3, <1>9, <1>10 DEF Turned

\* What _schedule_pending_unlocked() makes of a stream's jobs.
LEMMA PumpedFacts ==
    ASSUME FilesTypeOK, NEW js \in Seq(Jobs), Alone(js), NEW u \in 0..Quota
    PROVE  Pump(Pumped(js, u), js, Len(js)) /\ Paid(Pumped(js, u), u)
<1>1. PICK n \in Nat : n = Len(js)
  OBVIOUS
<1>2. PICK a : a = [room |-> Quota - u, left |-> <<>>, ms |-> [t \in Transfers |-> <<>>]]
  OBVIOUS
<1>3. a \in Accs /\ a.left = <<>> /\ \A t \in Transfers : a.ms[t] = <<>>
  <2>1. Quota - u \in 0..Quota
    BY FilesAssumption, QuotaIsPositive
  <2>2. <<>> \in Seq(Jobs) /\ <<>> \in Seq(Message)
    OBVIOUS
  <2>3. [t \in Transfers |-> <<>>] \in [Transfers -> Seq(Message)]
    BY <2>2
  <2> QED
    BY <1>2, <2>1, <2>2, <2>3 DEF Accs
<1>4. \A i \in 1..n : js[i] \in Jobs
  BY <1>1
<1>5. PICK G : G = [i \in 1..n |-> [acc \in Accs |-> Chunked(acc, js[i])]]
  OBVIOUS
<1>6. ASSUME NEW i \in 1..n, NEW acc \in Accs PROVE Chunked(acc, js[i]) \in Accs
  BY <1>4, ChunkedFacts DEF Turned
<1>7. G \in [1..n -> [Accs -> Accs]]
  BY <1>5, <1>6
<1>8. PICK g \in [0..n -> Accs] : Iterates(g, G, a, n)
  BY <1>3, <1>7, IterateExists
<1>9. ASSUME NEW i \in 0..n
      PROVE  g[i] = IF i = 0 THEN a ELSE Chunked(g[i - 1], js[i])
  <2>1. CASE i = 0
    BY <1>8, <2>1 DEF Iterates
  <2>2. CASE i # 0
    <3>1. i \in 1..n /\ i - 1 \in 0..n
      BY <2>2
    <3>2. g[i] = G[i][g[i - 1]] /\ g[i - 1] \in Accs
      BY <1>8, <3>1 DEF Iterates
    <3> QED
      BY <1>5, <2>2, <3>1, <3>2
  <2> QED
    BY <2>1, <2>2
<1>10. g = [i \in 0..n |-> IF i = 0 THEN a ELSE Chunked(g[i - 1], js[i])]
  BY <1>9
<1>11. PICK f : /\ Pumped(js, u) = f[n]
                /\ f = [i \in 0..n |-> IF i = 0 THEN a ELSE Chunked(f[i - 1], js[i])]
  <2>1. \E f : f = [i \in 0..Len(js) |->
                      IF i = 0 THEN [room |-> Quota - u, left |-> <<>>, ms |-> [t \in Transfers |-> <<>>]]
                      ELSE Chunked(f[i - 1], js[i])]
    BY <1>1, <1>2, <1>10
  <2>2. PICK f : /\ Pumped(js, u) = f[Len(js)]
                 /\ f = [i \in 0..Len(js) |->
                      IF i = 0 THEN [room |-> Quota - u, left |-> <<>>, ms |-> [t \in Transfers |-> <<>>]]
                      ELSE Chunked(f[i - 1], js[i])]
    BY <2>1, Zenon DEF Pumped
  <2> QED
    BY <1>1, <1>2, <2>2
<1>12. \A i \in 0..n : f[i] = IF i = 0 THEN a ELSE Chunked(f[i - 1], js[i])
  BY <1>11
<1> DEFINE T == {k \in 0..n : Pump(f[k], js, k) /\ Paid(f[k], u)}
<1>13. 0 \in T
  <2>1. 0 \in 0..n /\ f[0] = a
    BY <1>12
  <2>2. 1..0 = {} /\ 1..Len(a.left) = {}
    BY <1>3
  <2>3. Pump(a, js, 0)
    BY <1>3, <2>2 DEF Pump, Alone
  <2>4. Paid(a, u)
    <3>1. \A t \in Transfers : ChunksIn(a.ms[t]) = {}
      BY <1>3 DEF ChunksIn
    <3>2. InFlight(Transfers, a.ms) = {}
      <4>1. ASSUME NEW x \in InFlight(Transfers, a.ms) PROVE FALSE
        <5>1. PICK t \in Transfers : \E i \in ChunksIn(a.ms[t]) : x = <<t, i>>
          BY InFlightIs
        <5> QED
          BY <3>1, <5>1
      <4> QED
        BY <4>1
    <3>3. Quota - u \in Nat /\ a.room = Quota - u
      BY <1>2, FilesAssumption, QuotaIsPositive
    <3> QED
      BY <3>2, <3>3, FS_EmptySet DEF Paid
  <2> QED
    BY <2>1, <2>3, <2>4
<1>14. ASSUME NEW k \in 0..n, k \in T, k < n PROVE k + 1 \in T
  <2>1. k + 1 \in 0..n /\ k + 1 # 0 /\ (k + 1) - 1 = k /\ k + 1 \in 1..n /\ k \in Nat
    BY <1>14
  <2>2. PICK acc, r : acc = f[k] /\ r = f[k + 1]
    OBVIOUS
  <2>3. Pump(acc, js, k) /\ r = Chunked(acc, js[k + 1])
    BY <1>12, <1>14, <2>1, <2>2
  <2>4. Pump(r, js, k + 1)
    BY <1>1, <2>1, <2>3, PumpOne
  <2>5. Paid(r, u)
    <3>1. PICK j \in Jobs : j = js[k + 1]
      BY <1>4, <2>1
    <3>2. acc \in Accs /\ j.t \in Transfers /\ Paid(acc, u)
      BY <1>14, <2>2, <2>3 DEF Pump, Jobs
    <3>3. \A i \in 1..k : js[i].t # j.t
      BY <1>1, <2>1, <3>1 DEF Alone
    <3>4. acc.ms[j.t] = <<>>
      BY <2>3, <3>2, <3>3 DEF Pump
    <3>5. Turned(r, acc, j)
      BY <2>3, <3>1, <3>2, ChunkedFacts
    <3> QED
      BY <3>2, <3>4, <3>5, PaidOne
  <2> QED
    BY <2>1, <2>2, <2>4, <2>5
<1>15. n \in T
  <2> HIDE DEF T
  <2>1. 0..n \subseteq T
    BY <1>13, <1>14, Climb
  <2>2. n \in 0..n
    OBVIOUS
  <2> QED
    BY <2>1, <2>2
<1> QED
  BY <1>1, <1>11, <1>15

\* What reaches the targets.
LEMMA SentFacts ==
    ASSUME FilesTypeOK, NEW ms \in [Transfers -> Seq(Message)], NEW ch, ch = Sent(ms)
    PROVE  /\ ch \in [Transfers -> Seq(Message)]
           /\ \A t \in Transfers : ~(Alive(t) /\ Sending) => ch[t] = chan[t]
           /\ \A t \in Transfers : Alive(t) /\ Sending => IsConcat(ch[t], chan[t], ms[t])
           /\ \A t \in Transfers : ms[t] = <<>> => ch[t] = chan[t]
<1>1. ASSUME NEW t \in Transfers
      PROVE  /\ ch[t] \in Seq(Message)
             /\ ~(Alive(t) /\ Sending) => ch[t] = chan[t]
             /\ Alive(t) /\ Sending => IsConcat(ch[t], chan[t], ms[t])
             /\ ms[t] = <<>> => ch[t] = chan[t]
  <2>1. PICK c, m, r : c = chan[t] /\ m = ms[t] /\ r = c \o m
    OBVIOUS
  <2>2. c \in Seq(Message) /\ m \in Seq(Message)
    BY <2>1 DEF FilesTypeOK
  <2>3. r \in Seq(Message) /\ IsConcat(r, c, m)
    BY <2>1, <2>2, ConcatFacts, Zenon
  <2>4. m = <<>> => r = c
    BY <2>1, <2>2
  <2>5. ch[t] = IF ContextOf[t] \in dead \/ mux \in {"exited", "joined"} THEN c ELSE r
    BY <2>1, Zenon DEF Sent
  <2>6. Sending <=> mux \notin {"exited", "joined"}
    BY DEF FilesTypeOK, Sending
  <2>7. CASE ContextOf[t] \in dead \/ mux \in {"exited", "joined"}
    <3>1. ch[t] = c
      BY <2>5, <2>7
    <3> QED
      BY <2>1, <2>2, <2>6, <2>7, <3>1 DEF Alive
  <2>8. CASE ~(ContextOf[t] \in dead \/ mux \in {"exited", "joined"})
    <3>1. ch[t] = r
      BY <2>5, <2>8
    <3> QED
      BY <2>1, <2>2, <2>3, <2>4, <2>6, <2>8, <3>1 DEF Alive
  <2> QED
    BY <2>7, <2>8
<1>2. ch \in [Transfers -> Seq(Message)]
  <2>1. ch = [t \in Transfers |-> ch[t]]
    BY DEF Sent
  <2> QED
    BY <1>1, <2>1
<1> QED
  BY <1>1, <1>2

\* A transfer nothing happens to is served as it was.
LEMMA StaysServed ==
    ASSUME NEW t \in Transfers, chan'[t] = chan[t], got'[t] = got[t], progress'[t] = progress[t],
           want'[t] = want[t], Same(t)' => Same(t), Sending' => Sending
    PROVE  /\ Arriving(t) => Arriving(t)'
           /\ \A pos : Owed(t, pos) => Owed(t, pos)'
<1>1. Due(t)' = Due(t)
  BY DEF Due
<1>2. ASSUME NEW i, NEW m, Fits(t, i, m) PROVE Fits(t, i, m)'
  BY <1>1, <1>2 DEF Fits
<1>3. Arriving(t) => Arriving(t)'
  BY <1>2 DEF Arriving
<1>4. ASSUME NEW pos, Owed(t, pos) PROVE Owed(t, pos)'
  BY <1>1, <1>4 DEF Owed
<1> QED
  BY <1>3, <1>4

\* The chunks of a job, and the end after the last, arrive after what is there.
LEMMA BurstArrives ==
    ASSUME FilesTypeOK, NEW j \in Jobs, NEW t, t = j.t, NEW m, NEW n \in Nat,
           (n = Remainder(j) /\ AllOf(m, j)) \/ FirstOf(m, j, n),
           Arriving(t), Owed(t, j.pos), FilesTypeOK', IsConcat(chan'[t], chan[t], m),
           UNCHANGED <<targets, mux, size>>
    PROVE  /\ Arriving(t)'
           /\ FirstOf(m, j, n) => Owed(t, j.pos + n)'
<1>1. PICK c, r, pos : c = chan[t] /\ r = chan'[t] /\ pos = j.pos
  OBVIOUS
<1>2. /\ t \in Transfers /\ pos \in Nat /\ c \in Seq(Message) /\ r \in Seq(Message)
      /\ size[t] \in Nat /\ SizeOf[t] \in Nat /\ got[t] \in Seq(Nat) /\ Remainder(j) \in Nat
      /\ m \in Seq(Message)
  <2>1. t \in Transfers /\ pos \in Nat
    BY <1>1 DEF Jobs
  <2>2. Remainder(j) \in Nat
    BY RestIsNatural DEF FilesTypeOK
  <2>3. m \in Seq(Message)
    BY DEF FirstOf, AllOf
  <2>4. c \in Seq(Message) /\ size[t] \in Nat /\ got[t] \in Seq(Nat)
    BY <1>1, <2>1 DEF FilesTypeOK
  <2>5. r \in Seq(Message)
    BY <1>1, <2>1 DEF FilesTypeOK
  <2>6. SizeOf[t] \in Nat
    BY <2>1, FilesAssumption, QuotaIsPositive
  <2> QED
    BY <2>1, <2>2, <2>3, <2>4, <2>5, <2>6
<1>3. PICK k \in Nat, l \in Nat, q \in Nat, g \in Nat, d \in {0, 1} :
          k = Len(c) /\ l = Len(m) /\ q = Len(r) /\ g = Len(got[t]) /\ d = Due(t)
  <2>1. Due(t) \in {0, 1}
    BY DEF Due
  <2> QED
    BY <1>2, <2>1
<1>4. /\ progress' = progress /\ got' = got /\ want' = want /\ mux' = mux /\ size' = size
      /\ Due(t)' = Due(t)
  BY DEF targets, Due
<1>5. pos = g + k - d
  BY <1>1, <1>3 DEF Owed
<1>6. q = k + l /\ (\A i \in 1..k : r[i] = c[i]) /\ \A i \in 1..l : r[k + i] = m[i]
  <2>1. q = k + l /\ \A i \in 1..(k + l) : r[i] = IF i <= k THEN c[i] ELSE m[i - k]
    BY <1>1, <1>3 DEF IsConcat
  <2>2. \A i \in 1..k : i \in 1..(k + l) /\ i <= k
    OBVIOUS
  <2>3. \A i \in 1..l : k + i \in 1..(k + l) /\ ~(k + i <= k) /\ (k + i) - k = i
    OBVIOUS
  <2> QED
    BY <2>1, <2>2, <2>3
<1>7. /\ n \in 0..Remainder(j) /\ l \in {n, n + 1} /\ (l = n + 1 => n = Remainder(j) /\ m[n + 1] = Closing)
      /\ \A i \in 1..n : IsChunk(m[i], pos + i)
      /\ FirstOf(m, j, n) => l = n
  <2>1. CASE n = Remainder(j) /\ AllOf(m, j)
    BY <1>1, <1>2, <1>3, <2>1 DEF AllOf, FirstOf
  <2>2. CASE FirstOf(m, j, n)
    <3>1. l = n /\ l # n + 1 /\ n \in 0..Remainder(j) /\ \A i \in 1..n : IsChunk(m[i], pos + i)
      BY <1>1, <1>3, <2>2 DEF FirstOf
    <3> QED
      BY <3>1
  <2> QED
    BY <2>1, <2>2
<1>8. Same(t) => pos + Remainder(j) = SizeOf[t]
  BY <1>1, <1>2 DEF Same, Owed, Remainder
<1>9. ASSUME NEW i \in 1..n PROVE Fits(t, k + i, m[i])'
  <2>1. IsChunk(m[i], pos + i)
    BY <1>7
  <2>2. pos + i = g + (k + i) - d
    BY <1>5
  <2> QED
    BY <1>3, <1>4, <2>1, <2>2 DEF Fits, IsChunk
<1>10. ASSUME l = n + 1 PROVE Fits(t, k + (n + 1), m[n + 1])'
  <2>1. m[n + 1].kind = "close"
    BY <1>7, <1>10 DEF Closing
  <2>2. Same(t) => g + (k + (n + 1)) - 1 - d = SizeOf[t]
    <3>1. Same(t) => pos + n = SizeOf[t]
      BY <1>7, <1>8, <1>10
    <3>2. g + (k + (n + 1)) - 1 - d = pos + n
      BY <1>5
    <3> QED
      BY <3>1, <3>2
  <2>3. Same(t)' <=> Same(t)
    BY <1>4 DEF Same
  <2> QED
    BY <1>3, <1>4, <2>1, <2>2, <2>3 DEF Fits
<1>11. ASSUME NEW i \in 1..q PROVE Fits(t, i, r[i])'
  <2>1. CASE i \in 1..k
    <3>1. Fits(t, i, c[i])
      BY <1>1, <1>3, <2>1 DEF Arriving
    <3>2. Fits(t, i, c[i])'
      BY <1>1, <1>4, <3>1 DEF Fits, Same, Sending
    <3> QED
      BY <1>6, <2>1, <3>2
  <2>2. CASE i \notin 1..k
    <3>1. PICK e \in 1..l : i = k + e
      <4>1. i - k \in 1..l /\ i = k + (i - k)
        BY <1>6, <2>2
      <4> QED
        BY <4>1
    <3>2. r[i] = m[e]
      BY <1>6, <3>1
    <3>3. CASE e \in 1..n
      BY <1>9, <3>1, <3>2, <3>3
    <3>4. CASE e \notin 1..n
      <4>1. e = n + 1 /\ l = n + 1
        BY <1>7, <3>4
      <4> QED
        BY <1>10, <3>1, <3>2, <4>1
    <3> QED
      BY <3>3, <3>4
  <2> QED
    BY <2>1, <2>2
<1>12. Arriving(t)'
  <2>1. progress[t] = "fetching" => got[t] = <<>> /\ c # <<>> /\ c[1].kind \in {"stat", "error", "dead"}
    BY <1>1 DEF Arriving, Owed
  <2>2. c # <<>> => r[1] = c[1]
    <3>1. c # <<>> => 1 \in 1..k
      BY <1>2, <1>3
    <3> QED
      BY <1>6, <3>1
  <2>3. progress[t] = "receiving" /\ Same(t)' => want[t] = SizeOf[t]
    BY <1>4 DEF Arriving, Same
  <2> QED
    BY <1>1, <1>3, <1>4, <1>11, <2>1, <2>2, <2>3 DEF Arriving
<1>13. ASSUME FirstOf(m, j, n) PROVE Owed(t, j.pos + n)'
  <2>1. l = n /\ pos + n = g + q - d
    BY <1>5, <1>6, <1>7, <1>13
  <2>2. ASSUME NEW i \in 1..q PROVE r[i].kind \in {"stat", "chunk"}
    <3>1. CASE i \in 1..k
      BY <1>1, <1>3, <1>6, <3>1 DEF Owed
    <3>2. CASE i \notin 1..k
      <4>1. i - k \in 1..n /\ i = k + (i - k)
        BY <1>6, <2>1, <3>2
      <4>2. r[i] = m[i - k]
        BY <1>6, <2>1, <4>1
      <4> QED
        BY <1>7, <4>1, <4>2 DEF IsChunk
    <3> QED
      BY <3>1, <3>2
  <2>3. progress[t] \in Running /\ (progress[t] = "fetching" => r # <<>>)
    <3>1. progress[t] = "fetching" => c # <<>>
      BY <1>1 DEF Owed
    <3>2. c # <<>> => k >= 1 /\ q >= 1
      BY <1>2, <1>3, <1>6
    <3> QED
      BY <1>2, <1>3, <3>1, <3>2 DEF Owed
  <2>4. Same(t)' => pos + n <= SizeOf[t]
    BY <1>2, <1>4, <1>7, <1>8 DEF Same
  <2>5. got'[t] = got[t] /\ progress'[t] = progress[t] /\ chan'[t] = r /\ Due(t)' = d
    BY <1>1, <1>3, <1>4
  <2> QED
    BY <1>1, <1>3, <2>1, <2>2, <2>3, <2>4, <2>5 DEF Owed
<1> QED
  BY <1>12, <1>13

\* What the critical section of fetch() and acknowledge() does to a stream with jobs js.
PendingDone(s, js, kept) ==
    /\ jobs' = [jobs EXCEPT ![s] = kept]
    /\ unacked' \in [Keys -> 0..Quota] /\ chan' \in [Transfers -> Seq(Message)]
    /\ Alone(kept)
    /\ \A l \in 1..Len(kept) : \E i \in 1..Len(js) : kept[l].t = js[i].t
    /\ \A t \in Transfers :
          ~(Alive(t) /\ Sending) \/ (\A i \in 1..Len(js) : js[i].t # t) => chan'[t] = chan[t]
    /\ Sending => \E acc : /\ acc.left = kept /\ Pump(acc, js, Len(js))
                           /\ \A t \in Transfers : Alive(t) => IsConcat(chan'[t], chan[t], acc.ms[t])

\* _schedule_pending_unlocked() does that, before the broker has exited and after.
LEMMA PendingEffect ==
    ASSUME FilesTypeOK, NEW s \in Keys, NEW js \in Seq(Jobs), Alone(js), NEW u \in 0..Quota,
           SchedulePending(s, js, u)
    PROVE  \E kept \in Seq(Jobs) : PendingDone(s, js, kept)
<1>1. jobs \in [Keys -> Seq(Jobs)] /\ unacked \in [Keys -> 0..Quota] /\ chan \in [Transfers -> Seq(Message)]
  BY DEF FilesTypeOK, Jobs
<1>2. CASE mux = "exited"
  <2>1. jobs' = [jobs EXCEPT ![s] = js] /\ unacked' = [unacked EXCEPT ![s] = u] /\ chan' = chan
    BY <1>2, Zenon DEF SchedulePending
  <2>2. unacked' \in [Keys -> 0..Quota]
    BY <1>1, <2>1
  <2>3. ~Sending
    BY <1>2 DEF Sending
  <2>4. PendingDone(s, js, js)
    BY <1>1, <2>1, <2>2, <2>3 DEF PendingDone
  <2> QED
    BY <2>4
<1>3. CASE mux # "exited"
  <2>1. PICK p : p = Pumped(js, u)
    OBVIOUS
  <2>2. /\ jobs' = [jobs EXCEPT ![s] = p.left] /\ unacked' = [unacked EXCEPT ![s] = Quota - p.room]
        /\ chan' = Sent(p.ms)
    BY <1>3, <2>1, Zenon DEF SchedulePending
  <2>3. Pump(p, js, Len(js))
    BY <2>1, PumpedFacts
  <2>4. p.room \in 0..Quota /\ p.left \in Seq(Jobs) /\ p.ms \in [Transfers -> Seq(Message)]
    BY <2>3 DEF Pump, Accs
  <2>5. unacked' \in [Keys -> 0..Quota]
    <3>1. Quota - p.room \in 0..Quota
      BY <2>4, FilesAssumption, QuotaIsPositive
    <3> QED
      BY <1>1, <2>2, <3>1
  <2>6. /\ chan' \in [Transfers -> Seq(Message)]
        /\ \A t \in Transfers : ~(Alive(t) /\ Sending) => chan'[t] = chan[t]
        /\ \A t \in Transfers : Alive(t) /\ Sending => IsConcat(chan'[t], chan[t], p.ms[t])
        /\ \A t \in Transfers : p.ms[t] = <<>> => chan'[t] = chan[t]
    BY <2>2, <2>4, SentFacts
  <2>7. \A t \in Transfers : (\A i \in 1..Len(js) : js[i].t # t) => p.ms[t] = <<>>
    BY <2>3 DEF Pump
  <2>8. Alone(p.left) /\ \A l \in 1..Len(p.left) : \E i \in 1..Len(js) : p.left[l].t = js[i].t
    BY <2>3 DEF Pump
  <2>9. PendingDone(s, js, p.left)
    BY <2>2, <2>3, <2>5, <2>6, <2>7, <2>8 DEF PendingDone
  <2> QED
    BY <2>4, <2>9
<1> QED
  BY <1>2, <1>3

\* A list of jobs the pool may run for a stream.
Runnable(js, s) ==
    /\ js \in Seq(Jobs) /\ Alone(js)
    /\ \A i \in 1..Len(js) :
          /\ js[i].t \notin fetches /\ progress[js[i].t] # "new"
          /\ Sending /\ Alive(js[i].t) => Owed(js[i].t, js[i].pos)
          /\ \A x \in Keys \ {s} : \A l \in 1..Len(jobs[x]) : jobs[x][l].t # js[i].t

\* Running them keeps the invariant.
LEMMA PendingKeeps ==
    ASSUME FilesInv, NEW s \in Keys, NEW js, Runnable(js, s), NEW u \in 0..Quota,
           SchedulePending(s, js, u), UNCHANGED <<targets, fetches, mux, size>>,
           opened' \subseteq opened, \A i \in 1..Len(js) : js[i].t \notin opened',
           acks' \in [Contexts -> Nat]
    PROVE  FilesInv'
<1>1. FilesTypeOK
  BY DEF FilesInv
<1>2. js \in Seq(Jobs) /\ Alone(js)
  BY DEF Runnable
<1>3. PICK kept \in Seq(Jobs) : PendingDone(s, js, kept)
  BY <1>1, <1>2, PendingEffect
<1>4. /\ progress' = progress /\ tmp' = tmp /\ want' = want /\ got' = got /\ out' = out
      /\ dead' = dead /\ fetches' = fetches /\ mux' = mux /\ size' = size
  BY DEF targets
<1>5. jobs \in [Keys -> Seq(Jobs)]
  BY <1>1 DEF FilesTypeOK, Jobs
<1>6. jobs'[s] = kept /\ \A x \in Keys : x # s => jobs'[x] = jobs[x]
  BY <1>3, <1>5 DEF PendingDone
<1>7. jobs' \in [Keys -> Seq(Jobs)]
  BY <1>3, <1>5 DEF PendingDone
<1>8. FilesTypeOK'
  <2>1. jobs' \in [Keys -> Seq([t : Transfers, pos : Nat])]
    BY <1>7 DEF Jobs
  <2>2. (tmp \cup fetches \cup opened)' \subseteq Transfers
    BY <1>1, <1>4 DEF FilesTypeOK
  <2> QED
    BY <1>1, <1>3, <1>4, <2>1, <2>2 DEF FilesTypeOK, PendingDone
<1>9. ASSUME NEW x \in Keys, NEW l \in 1..Len(jobs'[x])
      PROVE  \/ x = s /\ l \in 1..Len(kept) /\ jobs'[x][l] = kept[l]
                /\ \E i \in 1..Len(js) : kept[l].t = js[i].t
             \/ x # s /\ l \in 1..Len(jobs[x]) /\ jobs'[x][l] = jobs[x][l]
  BY <1>3, <1>6 DEF PendingDone
<1>10. ASSUME NEW t, NoJob(t), \A i \in 1..Len(js) : js[i].t # t PROVE NoJob(t)'
  BY <1>9, <1>10 DEF NoJob
<1>11. \A i \in 1..Len(js) : /\ js[i] \in Jobs /\ js[i].t \in Transfers
                             /\ js[i].t \notin fetches /\ progress[js[i].t] # "new"
  <2>1. \A i \in 1..Len(js) : js[i] \in Jobs
    BY <1>2
  <2>2. \A i \in 1..Len(js) : js[i].t \in Transfers
    BY <2>1 DEF Jobs
  <2> QED
    BY <2>1, <2>2 DEF Runnable
<1>12. ASSUME NEW t \in Transfers, \A i \in 1..Len(js) : js[i].t # t PROVE chan'[t] = chan[t]
  BY <1>3, <1>12 DEF PendingDone
<1>13. Placed'
  <2>1. \A t \in fetches' : /\ mux' = "running" /\ progress'[t] = "fetching" /\ chan'[t] = <<>>
                            /\ t \notin opened' /\ NoJob(t)'
    <3> SUFFICES ASSUME NEW t \in fetches
                 PROVE  /\ mux = "running" /\ progress[t] = "fetching" /\ chan'[t] = <<>>
                        /\ t \notin opened' /\ NoJob(t)'
      BY <1>4
    <3>1. t \in Transfers /\ \A i \in 1..Len(js) : js[i].t # t
      BY <1>1, <1>11 DEF FilesTypeOK
    <3>2. chan'[t] = chan[t] /\ (NoJob(t) => NoJob(t)')
      BY <1>10, <1>12, <3>1
    <3> QED
      BY <3>2 DEF FilesInv, Placed
  <2>2. \A t \in opened' : NoJob(t)'
    <3>1. \A t \in opened' : NoJob(t) /\ \A i \in 1..Len(js) : js[i].t # t
      BY DEF FilesInv, Placed
    <3> QED
      BY <1>10, <3>1
  <2>3. ASSUME NEW x \in Keys, NEW y \in Keys, NEW i \in 1..Len(jobs'[x]), NEW k \in 1..Len(jobs'[y]),
               jobs'[x][i].t = jobs'[y][k].t
        PROVE  x = y /\ i = k
    <3>1. \A e \in 1..Len(js) : \A z \in Keys : z # s => \A l \in 1..Len(jobs[z]) : jobs[z][l].t # js[e].t
      BY DEF Runnable
    <3>2. CASE x = s /\ y = s
      <4>1. i \in 1..Len(kept) /\ k \in 1..Len(kept) /\ kept[i].t = kept[k].t
        BY <1>6, <2>3, <3>2
      <4>2. Alone(kept)
        BY <1>3 DEF PendingDone
      <4> QED
        BY <3>2, <4>1, <4>2 DEF Alone
    <3>3. CASE x = s /\ y # s
      <4>1. PICK e \in 1..Len(js) : jobs'[x][i].t = js[e].t
        BY <1>9, <3>3
      <4>2. k \in 1..Len(jobs[y]) /\ jobs'[y][k] = jobs[y][k]
        BY <1>9, <3>3
      <4> QED
        BY <2>3, <3>1, <3>3, <4>1, <4>2
    <3>4. CASE x # s /\ y = s
      <4>1. PICK e \in 1..Len(js) : jobs'[y][k].t = js[e].t
        BY <1>9, <3>4
      <4>2. i \in 1..Len(jobs[x]) /\ jobs'[x][i] = jobs[x][i]
        BY <1>9, <3>4
      <4> QED
        BY <2>3, <3>1, <3>4, <4>1, <4>2
    <3>5. CASE x # s /\ y # s
      <4>1. /\ i \in 1..Len(jobs[x]) /\ k \in 1..Len(jobs[y])
            /\ jobs[x][i].t = jobs[y][k].t
        BY <1>6, <2>3, <3>5
      <4> QED
        BY <4>1 DEF FilesInv, Placed
    <3> QED
      BY <3>2, <3>3, <3>4, <3>5
  <2>4. ASSUME NEW t \in Transfers, progress'[t] = "new"
        PROVE  t \notin opened' /\ NoJob(t)' /\ got'[t] = <<>> /\ (Sending' => chan'[t] = <<>>)
    <3>1. \A i \in 1..Len(js) : js[i].t # t
      BY <1>4, <1>11, <2>4
    <3>2. t \notin opened /\ NoJob(t) /\ got[t] = <<>> /\ (Sending => chan[t] = <<>>)
      BY <1>4, <2>4 DEF FilesInv, Placed
    <3>3. chan'[t] = chan[t] /\ NoJob(t)'
      BY <1>10, <1>12, <3>1, <3>2
    <3> QED
      BY <1>4, <3>2, <3>3 DEF Sending
  <2> QED
    BY <2>1, <2>2, <2>3, <2>4 DEF Placed
<1>14. ASSUME NEW t \in Transfers, chan'[t] = chan[t]
       PROVE  (Arriving(t) => Arriving(t)') /\ \A pos : Owed(t, pos) => Owed(t, pos)'
  BY <1>4, <1>14, StaysServed DEF Same, Sending
<1>15. ASSUME NEW i \in 1..Len(js), NEW acc, Pump(acc, js, Len(js)), Sending, Alive(js[i].t),
              IsConcat(chan'[js[i].t], chan[js[i].t], acc.ms[js[i].t]), Arriving(js[i].t)
       PROVE  /\ Arriving(js[i].t)'
              /\ \A n \in Nat : FirstOf(acc.ms[js[i].t], js[i], n) => Owed(js[i].t, js[i].pos + n)'
  <2>1. PICK j, t, m : j = js[i] /\ t = j.t /\ m = acc.ms[t]
    OBVIOUS
  <2>2. j \in Jobs /\ t \in Transfers /\ Owed(t, j.pos) /\ Arriving(t) /\ IsConcat(chan'[t], chan[t], m)
    BY <1>11, <1>15, <2>1 DEF Runnable
  <2>3. UNCHANGED <<targets, mux, size>>
    OBVIOUS
  <2>4. ASSUME NEW n \in Nat, (n = Remainder(j) /\ AllOf(m, j)) \/ FirstOf(m, j, n)
        PROVE  Arriving(t)' /\ (FirstOf(m, j, n) => Owed(t, j.pos + n)')
    BY <1>1, <1>8, <2>1, <2>2, <2>3, <2>4, BurstArrives
  <2>5. \E n \in Nat : (n = Remainder(j) /\ AllOf(m, j)) \/ FirstOf(m, j, n)
    <3>1. AllOf(m, j) \/ \E n \in Nat : FirstOf(m, j, n)
      BY <1>15, <2>1 DEF Pump
    <3>2. Remainder(j) \in Nat
      BY <1>1, <2>2, RestIsNatural DEF FilesTypeOK
    <3> QED
      BY <3>1, <3>2
  <2> QED
    BY <2>1, <2>4, <2>5
<1>16. \A t \in Transfers : Alive(t)' <=> Alive(t)
  BY <1>4 DEF Alive
<1>17. Served'
  <2>1. ASSUME NEW t \in Transfers, Alive(t)', progress'[t] \in Running PROVE Arriving(t)'
    <3>1. Arriving(t) /\ Alive(t)
      BY <1>4, <1>16, <2>1 DEF FilesInv, Served
    <3>2. CASE chan'[t] = chan[t]
      BY <1>14, <3>1, <3>2
    <3>3. CASE chan'[t] # chan[t]
      <4>1. Sending
        BY <1>3, <3>3 DEF PendingDone
      <4>2. PICK i \in 1..Len(js) : js[i].t = t
        BY <1>12, <3>3
      <4>3. PICK acc : Pump(acc, js, Len(js)) /\ IsConcat(chan'[t], chan[t], acc.ms[t])
        BY <1>3, <3>1, <4>1 DEF PendingDone
      <4> QED
        BY <1>15, <3>1, <4>1, <4>2, <4>3
    <3> QED
      BY <3>2, <3>3
  <2>2. ASSUME Sending', NEW t \in opened', Alive(t)' PROVE Owed(t, 0)'
    <3>1. t \in Transfers /\ t \in opened /\ Alive(t) /\ Sending
      BY <1>1, <1>4, <2>2 DEF FilesTypeOK, Alive, Sending
    <3>2. Owed(t, 0)
      BY <3>1 DEF FilesInv, Served
    <3>3. chan'[t] = chan[t]
      BY <1>12, <3>1, <2>2
    <3> QED
      BY <1>14, <3>1, <3>2, <3>3
  <2>3. ASSUME Sending', NEW x \in Keys, NEW l \in 1..Len(jobs'[x]), Alive(jobs[x][l].t)'
        PROVE  Owed(jobs[x][l].t, jobs[x][l].pos)'
    <3>1. PICK j \in Jobs : j = jobs'[x][l]
      BY <1>7
    <3>2. PICK t \in Transfers, pos \in Nat : t = j.t /\ pos = j.pos
      BY <3>1 DEF Jobs
    <3>3. Alive(t) /\ Sending
      BY <1>4, <2>3, <3>1, <3>2 DEF Sending, Alive
    <3>4. CASE x # s
      <4>1. j = jobs[x][l] /\ l \in 1..Len(jobs[x])
        BY <1>9, <3>1, <3>4
      <4>2. Owed(t, pos)
        BY <3>2, <3>3, <4>1 DEF FilesInv, Served
      <4>3. \A i \in 1..Len(js) : js[i].t # t
        BY <3>2, <3>4, <4>1 DEF Runnable
      <4> QED
        BY <1>12, <1>14, <3>1, <3>2, <4>2, <4>3
    <3>5. CASE x = s
      <4>1. l \in 1..Len(kept) /\ kept[l] = j
        BY <1>6, <3>1, <3>5
      <4>2. PICK acc : /\ acc.left = kept /\ Pump(acc, js, Len(js))
                       /\ \A v \in Transfers : Alive(v) => IsConcat(chan'[v], chan[v], acc.ms[v])
        BY <1>3, <3>3 DEF PendingDone
      <4>3. PICK i \in 1..Len(js) : /\ t = js[i].t /\ pos >= js[i].pos
                                    /\ FirstOf(acc.ms[js[i].t], js[i], pos - js[i].pos)
        BY <3>2, <4>1, <4>2 DEF Pump
      <4>4. Arriving(t)
        <5>1. progress[t] \in Running
          BY <3>3, <4>3 DEF Runnable, Owed
        <5> QED
          BY <3>3, <5>1 DEF FilesInv, Served
      <4>5. js[i].pos \in Nat /\ pos - js[i].pos \in Nat /\ js[i].pos + (pos - js[i].pos) = pos
        BY <1>11, <4>3 DEF Jobs
      <4>6. IsConcat(chan'[t], chan[t], acc.ms[t])
        BY <3>3, <4>2
      <4>7. Owed(t, js[i].pos + (pos - js[i].pos))'
        BY <1>15, <3>3, <4>2, <4>3, <4>4, <4>5, <4>6
      <4> QED
        BY <3>1, <3>2, <4>5, <4>7
    <3> QED
      BY <3>4, <3>5
  <2> QED
    BY <2>1, <2>2, <2>3 DEF Served
<1>18. AllOrNothing' /\ FailsForAReason' /\ \A t \in Transfers : \A i \in 1..Len(got'[t]) : got'[t][i] = i
  BY <1>4 DEF FilesInv, AllOrNothing, FailsForAReason
<1> QED
  BY <1>8, <1>13, <1>17, <1>18 DEF FilesInv

\* The jobs of a stream may be run.
LEMMA JobsRunnable ==
    ASSUME FilesInv, NEW s \in Keys
    PROVE  Runnable(jobs[s], s) /\ \A i \in 1..Len(jobs[s]) : jobs[s][i].t \notin opened
<1>1. jobs[s] \in Seq(Jobs)
  BY DEF FilesInv, FilesTypeOK, Jobs
<1>2. Alone(jobs[s]) /\ \A i \in 1..Len(jobs[s]) :
          \A x \in Keys \ {s} : \A l \in 1..Len(jobs[x]) : jobs[x][l].t # jobs[s][i].t
  BY DEF FilesInv, Placed, Alone
<1>3. ASSUME NEW i \in 1..Len(jobs[s])
      PROVE  /\ jobs[s][i].t \notin fetches /\ jobs[s][i].t \notin opened
             /\ progress[jobs[s][i].t] # "new"
             /\ Sending /\ Alive(jobs[s][i].t) => Owed(jobs[s][i].t, jobs[s][i].pos)
  <2>1. PICK t : t = jobs[s][i].t
    OBVIOUS
  <2>2. t \in Transfers
    <3>1. jobs[s][i] \in Jobs
      BY <1>1
    <3> QED
      BY <2>1, <3>1 DEF Jobs
  <2>3. ~NoJob(t)
    BY <2>1 DEF NoJob
  <2>4. t \notin fetches /\ t \notin opened /\ progress[t] # "new"
    BY <2>2, <2>3 DEF FilesInv, Placed
  <2> QED
    BY <2>1, <2>4 DEF FilesInv, Served
<1> QED
  BY <1>1, <1>2, <1>3 DEF Runnable

\* Nobody waits for a stream that does not exist.
LEMMA StreamNowIsKey ==
    ASSUME NEW c \in Contexts
    PROVE  StreamNow(c) \in Keys
BY FilesAssumption, QuotaIsPositive DEF StreamNow, Keys

\* The rest of fetch(): a transfer whose reply is on its way gets a job.
LEMMA ScheduleKeeps == ASSUME FilesInv, NEW t \in Transfers, Schedule(t) PROVE FilesInv'
<1>1. ContextOf[t] \in Contexts
  BY FilesAssumption, QuotaIsPositive
<1>2. PICK s \in Keys : s = StreamNow(ContextOf[t])
  BY <1>1, StreamNowIsKey
<1>3. PICK j, js, old : j = [t |-> t, pos |-> 0] /\ js = Append(old, j) /\ old = jobs[s]
  OBVIOUS
<1>4. /\ t \in opened /\ opened' = opened \ {t} /\ SchedulePending(s, js, unacked[s])
      /\ UNCHANGED <<targets, fetches, acks, mux, size>>
  BY <1>2, <1>3 DEF Schedule
<1>5. j \in Jobs /\ j.t = t /\ j.pos = 0
  BY <1>3 DEF Jobs
<1>6. Runnable(old, s) /\ old \in Seq(Jobs) /\ \A i \in 1..Len(old) : old[i].t \notin opened
  <2>1. Runnable(jobs[s], s) /\ \A i \in 1..Len(jobs[s]) : jobs[s][i].t \notin opened
    BY JobsRunnable
  <2>2. Runnable(old, s) /\ \A i \in 1..Len(old) : old[i].t \notin opened
    BY <1>3, <2>1
  <2> QED
    BY <2>2 DEF Runnable
<1>7. PICK n \in Nat : n = Len(old)
  BY <1>6
<1>8. /\ js \in Seq(Jobs) /\ Len(js) = n + 1 /\ js[n + 1] = j /\ \A i \in 1..n : js[i] = old[i]
  BY <1>3, <1>5, <1>6, <1>7
<1>9. \A i \in 1..(n + 1) : i \in 1..n \/ i = n + 1
  OBVIOUS
<1>10. NoJob(t) /\ t \notin fetches /\ progress[t] # "new" /\ (Sending /\ Alive(t) => Owed(t, 0))
  BY <1>4 DEF FilesInv, Placed, Served
<1>11. \A i \in 1..n : old[i].t # t
  BY <1>4, <1>6, <1>7
<1>12. Alone(js)
  <2>1. Alone(old)
    BY <1>6 DEF Runnable
  <2> QED
    BY <1>5, <1>7, <1>8, <1>9, <1>11, <2>1 DEF Alone
<1>13. ASSUME NEW i \in 1..Len(js)
       PROVE  /\ js[i].t \notin fetches /\ progress[js[i].t] # "new"
              /\ Sending /\ Alive(js[i].t) => Owed(js[i].t, js[i].pos)
              /\ \A x \in Keys \ {s} : \A l \in 1..Len(jobs[x]) : jobs[x][l].t # js[i].t
              /\ js[i].t \notin opened'
  <2>1. CASE i = n + 1
    BY <1>4, <1>5, <1>8, <1>10, <2>1 DEF NoJob
  <2>2. CASE i \in 1..n
    BY <1>4, <1>6, <1>7, <1>8, <2>2 DEF Runnable
  <2> QED
    BY <1>8, <1>9, <2>1, <2>2
<1>14. Runnable(js, s)
  BY <1>8, <1>12, <1>13 DEF Runnable
<1>15. unacked[s] \in 0..Quota /\ acks' \in [Contexts -> Nat]
  BY <1>4 DEF FilesInv, FilesTypeOK
<1>16. UNCHANGED <<targets, fetches, mux, size>> /\ opened' \subseteq opened
  BY <1>4
<1> QED
  BY <1>4, <1>13, <1>14, <1>15, <1>16, PendingKeeps

\* acknowledge(): there is room again.
LEMMA AcknowledgeKeeps == ASSUME FilesInv, NEW c \in Contexts, Acknowledge(c) PROVE FilesInv'
<1>1. PICK s \in Keys : s = StreamNow(c)
  BY StreamNowIsKey
<1>2. PICK js, u : js = jobs[s] /\ u = Credited(s)
  OBVIOUS
<1>3. /\ acks[c] > 0 /\ acks' = [acks EXCEPT ![c] = @ - 1] /\ SchedulePending(s, js, u)
      /\ UNCHANGED <<targets, fetches, opened, mux, size>>
  BY <1>1, <1>2 DEF Acknowledge
<1>4. unacked[s] \in 0..Quota /\ acks \in [Contexts -> Nat] /\ Quota \in Nat
  BY FilesAssumption, QuotaIsPositive DEF FilesInv, FilesTypeOK
<1>5. u \in 0..Quota
  BY <1>2, <1>4 DEF Credited
<1>6. acks' \in [Contexts -> Nat]
  <2>1. acks[c] - 1 \in Nat
    BY <1>3, <1>4
  <2> QED
    BY <1>3, <1>4, <2>1
<1>7. Runnable(js, s) /\ \A i \in 1..Len(js) : js[i].t \notin opened'
  BY <1>2, <1>3, JobsRunnable
<1>8. UNCHANGED <<targets, fetches, mux, size>> /\ opened' \subseteq opened
  BY <1>3
<1> QED
  BY <1>3, <1>5, <1>6, <1>7, <1>8, PendingKeeps

\* transfer_file() begins.
LEMMA TransferFileKeeps == ASSUME FilesInv, NEW t \in Transfers, TransferFile(t) PROVE FilesInv'
<1>1. /\ mux = "running" /\ progress[t] = "new"
      /\ progress' = [progress EXCEPT ![t] = "fetching"] /\ tmp' = tmp \cup {t}
      /\ fetches' = fetches \cup {t}
      /\ UNCHANGED <<want, got, out, dead, chan, acks, opened, jobs, unacked, mux, size>>
  BY DEF TransferFile
<1>2. t \notin opened /\ NoJob(t) /\ got[t] = <<>> /\ chan[t] = <<>>
  BY <1>1 DEF FilesInv, Placed, Sending
<1>3. progress \in [Transfers -> {"new"} \cup Running \cup Ended]
  BY DEF FilesInv, FilesTypeOK
<1>4. progress'[t] = "fetching" /\ \A u \in Transfers : u # t => progress'[u] = progress[u]
  BY <1>1, <1>3
<1>5. FilesTypeOK'
  <2>1. progress' \in [Transfers -> {"new"} \cup Running \cup Ended]
    BY <1>1, <1>3 DEF Running
  <2> QED
    BY <1>1, <2>1 DEF FilesInv, FilesTypeOK
<1>6. \A u : NoJob(u)' <=> NoJob(u)
  BY <1>1 DEF NoJob
<1>7. Placed'
  <2>1. \A u \in fetches' : /\ mux' = "running" /\ progress'[u] = "fetching" /\ chan'[u] = <<>>
                            /\ u \notin opened' /\ NoJob(u)'
    BY <1>1, <1>2, <1>4, <1>6 DEF FilesInv, Placed, FilesTypeOK
  <2>2. \A u \in opened' : NoJob(u)'
    BY <1>1, <1>6 DEF FilesInv, Placed
  <2>3. \A x, y \in Keys : \A i \in 1..Len(jobs'[x]), j \in 1..Len(jobs'[y]) :
            jobs'[x][i].t = jobs'[y][j].t => x = y /\ i = j
    BY <1>1 DEF FilesInv, Placed
  <2>4. \A u \in Transfers : progress'[u] = "new" =>
            u \notin opened' /\ NoJob(u)' /\ got'[u] = <<>> /\ (Sending' => chan'[u] = <<>>)
    BY <1>1, <1>4, <1>6 DEF FilesInv, Placed, Sending
  <2> QED
    BY <2>1, <2>2, <2>3, <2>4 DEF Placed
<1>8. ASSUME NEW u \in Transfers, u # t
      PROVE  (Arriving(u) => Arriving(u)') /\ \A pos : Owed(u, pos) => Owed(u, pos)'
  BY <1>1, <1>4, <1>8, StaysServed DEF Same, Sending
<1>9. Arriving(t)'
  <2>1. chan'[t] = <<>> /\ 1..Len(<<>>) = {} /\ got'[t] = <<>>
    BY <1>1, <1>2
  <2> QED
    BY <1>4, <2>1 DEF Arriving
<1>10. Served'
  <2>1. \A u \in Transfers : Alive(u)' /\ progress'[u] \in Running => Arriving(u)'
    BY <1>1, <1>4, <1>8, <1>9 DEF FilesInv, Served, Alive
  <2>2. ASSUME Sending', NEW u \in opened', Alive(u)' PROVE Owed(u, 0)'
    <3>1. u \in Transfers /\ u # t /\ Owed(u, 0)
      BY <1>1, <1>2, <2>2 DEF FilesInv, FilesTypeOK, Served, Alive, Sending
    <3> QED
      BY <1>8, <3>1
  <2>3. ASSUME Sending', NEW x \in Keys, NEW l \in 1..Len(jobs'[x]), Alive(jobs[x][l].t)'
        PROVE  Owed(jobs[x][l].t, jobs[x][l].pos)'
    <3>1. PICK v, pos : v = jobs[x][l].t /\ pos = jobs[x][l].pos
      OBVIOUS
    <3>2. Owed(v, pos) /\ v # t /\ v \in Transfers
      <4>1. jobs[x][l] \in Jobs
        <5>1. jobs \in [Keys -> Seq(Jobs)]
          BY DEF FilesInv, FilesTypeOK, Jobs
        <5> QED
          BY <1>1, <2>3, <5>1
      <4>2. v \in Transfers
        BY <3>1, <4>1 DEF Jobs
      <4> QED
        BY <1>1, <1>2, <2>3, <3>1, <4>2 DEF FilesInv, Served, Alive, Sending, NoJob
    <3> QED
      BY <1>1, <1>8, <3>1, <3>2
  <2> QED
    BY <2>1, <2>2, <2>3 DEF Served
<1>11. AllOrNothing' /\ FailsForAReason' /\ \A u \in Transfers : \A i \in 1..Len(got'[u]) : got'[u][i] = i
  BY <1>1, <1>4 DEF FilesInv, AllOrNothing, FailsForAReason, Ended
<1> QED
  BY <1>5, <1>7, <1>10, <1>11 DEF FilesInv

\* The step of one target: what it must not do to its own transfer.
LEMMA TargetKeeps ==
    ASSUME FilesInv, NEW t \in Transfers, FilesTypeOK',
           UNCHANGED <<dead, fetches, opened, jobs, mux, size>>,
           progress[t] \in Running, progress'[t] \in Running \cup Ended, chan[t] # <<>>,
           \A u \in Transfers \ {t} : /\ progress'[u] = progress[u] /\ got'[u] = got[u]
                                      /\ out'[u] = out[u] /\ want'[u] = want[u]
                                      /\ chan'[u] = chan[u] /\ (u \in tmp' <=> u \in tmp),
           progress'[t] \in Running => Arriving(t)' /\ out'[t] = out[t],
           \A pos : Sending /\ Owed(t, pos) => Owed(t, pos)',
           \A i \in 1..Len(got'[t]) : got'[t][i] = i,
           progress'[t] = "done" => out'[t] = [i \in 1..want'[t] |-> i],
           progress'[t] = "failed" =>
               /\ \/ out'[t] = out[t]
                  \/ t \in Reluctant /\ out'[t] = [i \in 1..want'[t] |-> i]
               /\ t \in Absent \cup Reluctant \/ size[t] # SizeOf[t] \/ mux # "running",
           progress'[t] \in Ended => t \notin tmp'
    PROVE  FilesInv'
<1>1. /\ t \notin fetches /\ progress'[t] # "new" /\ progress[t] # "new"
      /\ progress[t] # "done" /\ progress[t] # "failed"
  BY DEF FilesInv, Placed, Running, Ended
<1>2. \A u : NoJob(u)' <=> NoJob(u)
  BY DEF NoJob
<1>3. Placed'
  <2>1. \A u \in fetches' : /\ mux' = "running" /\ progress'[u] = "fetching" /\ chan'[u] = <<>>
                            /\ u \notin opened' /\ NoJob(u)'
    <3>1. \A u \in fetches : u \in Transfers \ {t}
      BY <1>1 DEF FilesInv, FilesTypeOK
    <3> QED
      BY <1>2, <3>1 DEF FilesInv, Placed
  <2>2. \A u \in opened' : NoJob(u)'
    BY <1>2 DEF FilesInv, Placed
  <2>3. \A x, y \in Keys : \A i \in 1..Len(jobs'[x]), j \in 1..Len(jobs'[y]) :
            jobs'[x][i].t = jobs'[y][j].t => x = y /\ i = j
    BY DEF FilesInv, Placed
  <2>4. \A u \in Transfers : progress'[u] = "new" =>
            u \notin opened' /\ NoJob(u)' /\ got'[u] = <<>> /\ (Sending' => chan'[u] = <<>>)
    BY <1>1, <1>2 DEF FilesInv, Placed, Sending
  <2> QED
    BY <2>1, <2>2, <2>3, <2>4 DEF Placed
<1>4. ASSUME NEW u \in Transfers, u # t
      PROVE  (Arriving(u) => Arriving(u)') /\ \A pos : Owed(u, pos) => Owed(u, pos)'
  BY <1>4, StaysServed DEF Same, Sending
<1>5. \A u \in Transfers : \A pos : Sending /\ Owed(u, pos) => Owed(u, pos)'
  BY <1>4
<1>6. Served'
  <2>1. \A u \in Transfers : Alive(u)' /\ progress'[u] \in Running => Arriving(u)'
    BY <1>4 DEF FilesInv, Served, Alive
  <2>2. ASSUME Sending', NEW u \in opened', Alive(u)' PROVE Owed(u, 0)'
    <3>1. u \in Transfers /\ Sending /\ Owed(u, 0)
      BY <2>2 DEF FilesInv, FilesTypeOK, Served, Alive, Sending
    <3> QED
      BY <1>5, <3>1
  <2>3. ASSUME Sending', NEW x \in Keys, NEW l \in 1..Len(jobs'[x]), Alive(jobs[x][l].t)'
        PROVE  Owed(jobs[x][l].t, jobs[x][l].pos)'
    <3>1. PICK v, pos : v = jobs[x][l].t /\ pos = jobs[x][l].pos
      OBVIOUS
    <3>2. v \in Transfers
      <4>1. jobs \in [Keys -> Seq(Jobs)]
        BY DEF FilesInv, FilesTypeOK, Jobs
      <4>2. jobs[x][l] \in Jobs
        BY <2>3, <4>1
      <4> QED
        BY <3>1, <4>2 DEF Jobs
    <3>3. Owed(v, pos) /\ Sending
      BY <2>3, <3>1 DEF FilesInv, Served, Alive, Sending
    <3> QED
      BY <1>5, <3>1, <3>2, <3>3
  <2> QED
    BY <2>1, <2>2, <2>3 DEF Served
<1>7. \A u \in Transfers : \A i \in 1..Len(got'[u]) : got'[u][i] = i
  BY DEF FilesInv
<1>8. AllOrNothing'
  <2>1. out[t] = <<>>
    BY <1>1 DEF FilesInv, AllOrNothing
  <2>2. /\ progress'[t] = "done" => out'[t] = [i \in 1..want'[t] |-> i]
        /\ progress'[t] # "done" =>
              \/ out'[t] = <<>>
              \/ progress'[t] = "failed" /\ t \in Reluctant /\ out'[t] = [i \in 1..want'[t] |-> i]
        /\ progress'[t] \in Ended => t \notin tmp'
    BY <2>1 DEF Ended
  <2>3. ASSUME NEW u \in Transfers \ {t}
        PROVE  /\ progress'[u] = "done" => out'[u] = [i \in 1..want'[u] |-> i]
               /\ progress'[u] # "done" =>
                     \/ out'[u] = <<>>
                     \/ progress'[u] = "failed" /\ u \in Reluctant /\ out'[u] = [i \in 1..want'[u] |-> i]
               /\ progress'[u] \in Ended => u \notin tmp'
    BY DEF FilesInv, AllOrNothing
  <2> QED
    BY <2>2, <2>3 DEF AllOrNothing
<1>9. FailsForAReason'
  BY DEF FilesInv, FailsForAReason
<1> QED
  BY <1>3, <1>6, <1>7, <1>8, <1>9 DEF FilesInv

\* A target takes what has arrived.
LEMMA ReceiveNextKeeps == ASSUME FilesInv, NEW t \in Transfers, ReceiveNext(t) PROVE FilesInv'
<1>1. PICK c, m, q : c = chan[t] /\ m = Head(c) /\ q = Tail(c)
  OBVIOUS
<1>2. /\ Alive(t) /\ progress[t] \in Running /\ c # <<>>
      /\ chan' = [chan EXCEPT ![t] = q]
      /\ UNCHANGED <<dead, fetches, opened, jobs, unacked, mux, size>>
  BY <1>1 DEF ReceiveNext, Alive
<1>3. c \in Seq(Message) /\ chan \in [Transfers -> Seq(Message)]
  BY <1>1 DEF FilesInv, FilesTypeOK
<1>4. PICK k \in Nat : k = Len(q)
  <2>1. q \in Seq(Message)
    BY <1>1, <1>2, <1>3
  <2> QED
    BY <2>1
<1>5. /\ q \in Seq(Message) /\ m \in Message /\ Len(c) = k + 1 /\ c[1] = m
      /\ \A i \in 1..k : q[i] = c[i + 1]
  BY <1>1, <1>2, <1>3, <1>4
<1>6. chan' \in [Transfers -> Seq(Message)] /\ chan'[t] = q /\ \A u \in Transfers \ {t} : chan'[u] = chan[u]
  BY <1>2, <1>3, <1>5
<1>7. Arriving(t)
  BY <1>2 DEF FilesInv, Served
<1>8. Fits(t, 1, m) /\ \A i \in 1..k : Fits(t, i + 1, q[i])
  <2>1. 1 \in 1..(k + 1) /\ \A i \in 1..k : i + 1 \in 1..(k + 1)
    OBVIOUS
  <2> QED
    BY <1>1, <1>5, <1>7, <2>1 DEF Arriving
<1>9. /\ progress[t] = "fetching" => got[t] = <<>> /\ m.kind \in {"stat", "error", "dead"}
      /\ progress[t] = "receiving" /\ Same(t) => want[t] = SizeOf[t]
  BY <1>1, <1>2, <1>5, <1>7 DEF Arriving
<1>10. /\ progress \in [Transfers -> {"new"} \cup Running \cup Ended]
       /\ want \in [Transfers -> Nat] /\ got \in [Transfers -> Seq(Nat)] /\ out \in [Transfers -> Seq(Nat)]
       /\ tmp \subseteq Transfers /\ acks \in [Contexts -> Nat] /\ m.n \in Nat
       /\ got[t] \in Seq(Nat) /\ out[t] = <<>>
  <2>1. out[t] = <<>>
    BY <1>2 DEF FilesInv, AllOrNothing, Running
  <2> QED
    BY <1>5, <2>1 DEF FilesInv, FilesTypeOK, Message
<1>11. PICK g \in Nat : g = Len(got[t])
  BY <1>10
<1>12. \A i \in 1..g : got[t][i] = i
  BY <1>11 DEF FilesInv
<1>13. Same(t)' <=> Same(t)
  BY <1>2 DEF Same
<1>14. CASE /\ m.kind = "stat"
            /\ progress' = [progress EXCEPT ![t] = "receiving"]
            /\ want' = [want EXCEPT ![t] = m.n]
            /\ UNCHANGED <<tmp, got, out, acks>>
  <2>1. progress[t] = "fetching" /\ (Same(t) => m.n = SizeOf[t]) /\ got[t] = <<>> /\ g = 0
    BY <1>8, <1>9, <1>11, <1>14 DEF Fits
  <2>2. /\ progress'[t] = "receiving" /\ want'[t] = m.n
        /\ \A u \in Transfers \ {t} : progress'[u] = progress[u] /\ want'[u] = want[u]
        /\ progress' \in [Transfers -> {"new"} \cup Running \cup Ended] /\ want' \in [Transfers -> Nat]
    BY <1>10, <1>14 DEF Running
  <2>3. FilesTypeOK'
    BY <1>2, <1>6, <1>14, <2>2 DEF FilesInv, FilesTypeOK
  <2>4. Due(t) = 1 /\ Due(t)' = 0
    BY <2>1, <2>2 DEF Due
  <2>5. ASSUME NEW i \in 1..k PROVE Fits(t, i, q[i])'
    <3>1. Fits(t, i + 1, q[i]) /\ ~(i + 1 = 1)
      BY <1>8
    <3>2. q[i].kind = "chunk" => q[i].n = g + i - 0
      BY <1>11, <2>4, <3>1 DEF Fits
    <3>3. q[i].kind = "close" => (Same(t) => g + i - 1 - 0 = SizeOf[t])
      BY <1>11, <2>4, <3>1 DEF Fits
    <3>4. Len(got'[t]) = g
      BY <1>11, <1>14
    <3> QED
      BY <1>2, <1>13, <2>4, <3>1, <3>2, <3>3, <3>4 DEF Fits, Sending
  <2>6. Arriving(t)'
    BY <1>4, <1>6, <1>13, <2>1, <2>2, <2>5 DEF Arriving
  <2>7. ASSUME NEW pos, Owed(t, pos) PROVE Owed(t, pos)'
    <3>1. pos = g + (k + 1) - 1 /\ \A i \in 1..(k + 1) : c[i].kind \in {"stat", "chunk"}
      BY <1>1, <1>5, <1>11, <2>4, <2>7 DEF Owed
    <3>2. \A i \in 1..k : q[i].kind \in {"stat", "chunk"}
      <4>1. \A i \in 1..k : i + 1 \in 1..(k + 1)
        OBVIOUS
      <4> QED
        BY <1>5, <3>1, <4>1
    <3>3. pos = g + k - 0
      BY <3>1
    <3>4. Len(got'[t]) = g /\ Len(chan'[t]) = k
      BY <1>4, <1>6, <1>11, <1>14
    <3> QED
      BY <1>6, <1>13, <2>2, <2>4, <2>7, <3>2, <3>3, <3>4 DEF Owed, Running
  <2>8. \A i \in 1..Len(got'[t]) : got'[t][i] = i
    BY <1>11, <1>12, <1>14
  <2> QED
    BY <1>1, <1>2, <1>6, <1>14, <2>2, <2>3, <2>6, <2>7, <2>8, TargetKeeps DEF Running, Ended
<1>15. ASSUME NEW ok \in {TRUE, FALSE}, Finish(t, ok), UNCHANGED <<want, got, acks>>,
              m.kind \notin {"stat", "chunk"},
              ok => Whole(t),
              ~ok => t \in Absent \/ size[t] # SizeOf[t] \/ mux # "running"
       PROVE  FilesInv'
  <2>1. /\ tmp' = tmp \ {t}
        /\ out' = out \/ (ok /\ out' = [out EXCEPT ![t] = got[t]])
        /\ \/ /\ ok /\ out' = [out EXCEPT ![t] = got[t]]
              /\ progress' = [progress EXCEPT ![t] = "done"]
           \/ /\ ok => t \in Reluctant
              /\ progress' = [progress EXCEPT ![t] = "failed"]
    BY <1>15 DEF Finish
  <2>2. /\ \/ ok /\ progress'[t] = "done"
           \/ progress'[t] = "failed" /\ (ok => t \in Reluctant)
        /\ \A u \in Transfers \ {t} : progress'[u] = progress[u]
        /\ progress' \in [Transfers -> {"new"} \cup Running \cup Ended]
    BY <1>10, <2>1 DEF Ended
  <2>3. /\ out' \in [Transfers -> Seq(Nat)] /\ \A u \in Transfers \ {t} : out'[u] = out[u]
        /\ progress'[t] = "done" => out'[t] = got[t]
        /\ out'[t] = out[t] \/ (ok /\ out'[t] = got[t])
    BY <1>10, <2>1
  <2>4. FilesTypeOK'
    BY <1>2, <1>6, <1>10, <1>15, <2>1, <2>2, <2>3 DEF FilesInv, FilesTypeOK
  <2>5. ASSUME NEW pos, Owed(t, pos) PROVE FALSE
    <3>1. 1 \in 1..(k + 1)
      OBVIOUS
    <3>2. c[1].kind \in {"stat", "chunk"}
      BY <1>1, <1>5, <2>5, <3>1 DEF Owed
    <3> QED
      BY <1>5, <1>15, <3>2
  <2>6. /\ progress'[t] = "done" => out'[t] = [i \in 1..want'[t] |-> i]
        /\ ok => got[t] = [i \in 1..want'[t] |-> i]
    <3> SUFFICES ASSUME ok PROVE got[t] = [i \in 1..want[t] |-> i]
      BY <1>15, <2>2, <2>3
    <3>1. g = want[t]
      BY <1>11, <1>15 DEF Whole
    <3>2. got[t] = [i \in 1..g |-> got[t][i]]
      BY <1>10, <1>11
    <3> QED
      BY <1>12, <3>1, <3>2
  <2>7. progress'[t] = "failed" =>
            /\ \/ out'[t] = out[t]
               \/ t \in Reluctant /\ out'[t] = [i \in 1..want'[t] |-> i]
            /\ t \in Absent \cup Reluctant \/ size[t] # SizeOf[t] \/ mux # "running"
    BY <1>15, <2>2, <2>3, <2>6
  <2>8. progress'[t] \in Ended /\ progress'[t] \notin Running /\ t \notin tmp'
    BY <2>1, <2>2 DEF Ended, Running
  <2>9. \A u \in Transfers \ {t} : u \in tmp' <=> u \in tmp
    BY <2>1
  <2>10. \A i \in 1..Len(got'[t]) : got'[t][i] = i
    BY <1>11, <1>12, <1>15
  <2> QED
    BY <1>1, <1>2, <1>6, <1>15, <2>2, <2>3, <2>4, <2>5, <2>6, <2>7, <2>8, <2>9, <2>10, TargetKeeps
<1>16. CASE /\ \/ m.kind = "error"
               \/ m.kind = "dead" /\ progress[t] = "fetching"
            /\ Finish(t, FALSE)
            /\ UNCHANGED <<want, got, acks>>
  <2>1. t \in Absent \/ mux # "running"
    BY <1>8, <1>16 DEF Fits, Sending
  <2> QED
    BY <1>15, <1>16, <2>1
<1>17. CASE /\ m.kind = "chunk"
            /\ got' = [got EXCEPT ![t] = Append(@, m.n)]
            /\ acks' = IF mux = "running"
                       THEN [acks EXCEPT ![ContextOf[t]] = @ + 1] ELSE acks
            /\ UNCHANGED <<progress, tmp, want, out>>
  <2>1. progress[t] = "receiving" /\ Due(t) = 0 /\ Due(t)' = 0 /\ progress'[t] = "receiving"
    BY <1>2, <1>9, <1>17 DEF Due, Running
  <2>2. m.n = g + 1
    BY <1>8, <1>11, <1>17, <2>1 DEF Fits
  <2>3. PICK s : s = Append(got[t], g + 1)
    OBVIOUS
  <2>4. s \in Seq(Nat) /\ Len(s) = g + 1 /\ \A i \in 1..(g + 1) : s[i] = i
    <3>1. s \in Seq(Nat) /\ Len(s) = g + 1 /\ s[g + 1] = g + 1 /\ \A i \in 1..g : s[i] = got[t][i]
      BY <1>10, <1>11, <2>3
    <3>2. \A i \in 1..(g + 1) : i \in 1..g \/ i = g + 1
      OBVIOUS
    <3> QED
      BY <1>12, <3>1, <3>2
  <2>5. got' \in [Transfers -> Seq(Nat)] /\ got'[t] = s /\ \A u \in Transfers \ {t} : got'[u] = got[u]
    BY <1>10, <1>17, <2>2, <2>3, <2>4
  <2>6. acks' \in [Contexts -> Nat]
    <3>1. ContextOf[t] \in Contexts
      BY FilesAssumption, QuotaIsPositive
    <3>2. acks[ContextOf[t]] + 1 \in Nat
      BY <1>10, <3>1
    <3> QED
      BY <1>10, <1>17, <3>2
  <2>7. FilesTypeOK'
    BY <1>2, <1>6, <1>17, <2>5, <2>6 DEF FilesInv, FilesTypeOK
  <2>8. ASSUME NEW i \in 1..k PROVE Fits(t, i, q[i])'
    <3>1. Fits(t, i + 1, q[i]) /\ ~(i + 1 = 1)
      BY <1>8
    <3>2. q[i].kind = "chunk" => q[i].n = (g + 1) + i - 0
      BY <1>11, <2>1, <3>1 DEF Fits
    <3>3. q[i].kind = "close" => (Same(t) => (g + 1) + i - 1 - 0 = SizeOf[t])
      BY <1>11, <2>1, <3>1 DEF Fits
    <3>4. Len(got'[t]) = g + 1
      BY <2>4, <2>5
    <3> QED
      BY <1>2, <1>13, <2>1, <3>1, <3>2, <3>3, <3>4 DEF Fits, Sending
  <2>9. Arriving(t)'
    BY <1>4, <1>6, <1>9, <1>13, <1>17, <2>1, <2>8 DEF Arriving
  <2>10. ASSUME NEW pos, Owed(t, pos) PROVE Owed(t, pos)'
    <3>1. pos = g + (k + 1) - 0 /\ \A i \in 1..(k + 1) : c[i].kind \in {"stat", "chunk"}
      BY <1>1, <1>5, <1>11, <2>1, <2>10 DEF Owed
    <3>2. \A i \in 1..k : q[i].kind \in {"stat", "chunk"}
      <4>1. \A i \in 1..k : i + 1 \in 1..(k + 1)
        OBVIOUS
      <4> QED
        BY <1>5, <3>1, <4>1
    <3>3. pos = (g + 1) + k - 0
      BY <3>1
    <3>4. Len(got'[t]) = g + 1 /\ Len(chan'[t]) = k
      BY <1>4, <1>6, <2>4, <2>5
    <3> QED
      BY <1>6, <1>13, <2>1, <2>10, <3>2, <3>3, <3>4 DEF Owed, Running
  <2>11. \A i \in 1..Len(got'[t]) : got'[t][i] = i
    BY <2>4, <2>5
  <2> QED
    BY <1>1, <1>2, <1>6, <1>17, <2>1, <2>5, <2>7, <2>9, <2>10, <2>11, TargetKeeps DEF Running, Ended
<1>18. CASE /\ m.kind \in {"close", "dead"} /\ progress[t] = "receiving"
            /\ Finish(t, Whole(t))
            /\ UNCHANGED <<want, got, acks>>
  <2>1. PICK ok \in {TRUE, FALSE} : ok = Whole(t)
    BY DEF Whole
  <2>2. ASSUME ~Whole(t) PROVE size[t] # SizeOf[t] \/ mux # "running"
    <3>1. CASE m.kind = "dead"
      BY <1>8, <3>1 DEF Fits, Sending
    <3>2. CASE m.kind = "close"
      <4>1. Due(t) = 0
        BY <1>18 DEF Due
      <4>2. Same(t) => g + 1 - 1 - 0 = SizeOf[t]
        BY <1>8, <1>11, <3>2, <4>1 DEF Fits
      <4>3. Same(t) => g = want[t]
        BY <1>9, <1>18, <4>2
      <4> QED
        BY <1>11, <2>2, <4>3 DEF Whole, Same
    <3> QED
      BY <1>18, <3>1, <3>2
  <2> QED
    BY <1>15, <1>18, <2>1, <2>2
<1> QED
  <2>1. \/ /\ m.kind = "stat"
           /\ progress' = [progress EXCEPT ![t] = "receiving"]
           /\ want' = [want EXCEPT ![t] = m.n]
           /\ UNCHANGED <<tmp, got, out, acks>>
        \/ /\ \/ m.kind = "error"
              \/ m.kind = "dead" /\ progress[t] = "fetching"
           /\ Finish(t, FALSE)
           /\ UNCHANGED <<want, got, acks>>
        \/ /\ m.kind = "chunk"
           /\ got' = [got EXCEPT ![t] = Append(@, m.n)]
           /\ acks' = IF mux = "running"
                      THEN [acks EXCEPT ![ContextOf[t]] = @ + 1] ELSE acks
           /\ UNCHANGED <<progress, tmp, want, out>>
        \/ /\ m.kind \in {"close", "dead"} /\ progress[t] = "receiving"
           /\ Finish(t, Whole(t))
           /\ UNCHANGED <<want, got, acks>>
    BY <1>1, Zenon DEF ReceiveNext
  <2> QED
    BY <1>14, <1>16, <1>17, <1>18, <2>1

\* The reply of fetch(): of it the transfer knows what it will get.
LEMMA FetchKeeps == ASSUME FilesInv, NEW t \in Transfers, Fetch(t) PROVE FilesInv'
<1>1. PICK reply, ms : /\ reply = (IF t \in Absent THEN [kind |-> "error", n |-> 0]
                                   ELSE [kind |-> "stat", n |-> size[t]])
                       /\ ms = [u \in Transfers |-> IF u = t THEN <<reply>> ELSE <<>>]
  OBVIOUS
<1>2. /\ t \in fetches /\ fetches' = fetches \ {t}
      /\ opened' = IF t \in Absent THEN opened ELSE opened \cup {t}
      /\ chan' = Sent(ms)
      /\ UNCHANGED <<targets, acks, jobs, unacked, mux, size>>
  BY <1>1, Zenon DEF Fetch
<1>3. /\ progress' = progress /\ tmp' = tmp /\ want' = want /\ got' = got /\ out' = out
      /\ dead' = dead /\ jobs' = jobs /\ mux' = mux /\ size' = size
  BY <1>2 DEF targets
<1>4. /\ mux = "running" /\ progress[t] = "fetching" /\ chan[t] = <<>> /\ t \notin opened /\ NoJob(t)
  BY <1>2 DEF FilesInv, Placed
<1>5. FilesTypeOK /\ size[t] \in Nat /\ SizeOf[t] \in Nat
  BY FilesAssumption, QuotaIsPositive DEF FilesInv, FilesTypeOK
<1>6. reply \in Message
  <2>1. PICK z \in Nat : z = size[t]
    BY <1>5
  <2>2. CASE t \in Absent
    <3>1. reply = [kind |-> "error", n |-> 0]
      BY <1>1, <2>2
    <3> QED
      BY <3>1 DEF Message
  <2>3. CASE t \notin Absent
    <3>1. reply = [kind |-> "stat", n |-> z]
      BY <1>1, <2>1, <2>3
    <3> QED
      BY <3>1 DEF Message
  <2> QED
    BY <2>2, <2>3
<1>7. ms \in [Transfers -> Seq(Message)] /\ ms[t] = <<reply>> /\ \A u \in Transfers : u # t => ms[u] = <<>>
  BY <1>1, <1>6
<1>8. /\ chan' \in [Transfers -> Seq(Message)]
      /\ ~Alive(t) => chan'[t] = chan[t]
      /\ Alive(t) => IsConcat(chan'[t], chan[t], <<reply>>)
      /\ \A u \in Transfers : u # t => chan'[u] = chan[u]
  <2>1. Sending
    BY <1>4 DEF Sending
  <2> QED
    BY <1>2, <1>5, <1>7, <2>1, SentFacts
<1>9. FilesTypeOK'
  BY <1>2, <1>3, <1>5, <1>8 DEF FilesTypeOK
<1>10. \A u : NoJob(u)' <=> NoJob(u)
  BY <1>3 DEF NoJob
<1>11. Placed'
  <2>1. \A u \in fetches' : /\ mux' = "running" /\ progress'[u] = "fetching" /\ chan'[u] = <<>>
                            /\ u \notin opened' /\ NoJob(u)'
    BY <1>2, <1>3, <1>5, <1>8, <1>10 DEF FilesInv, Placed, FilesTypeOK
  <2>2. \A u \in opened' : NoJob(u)'
    BY <1>2, <1>4, <1>10 DEF FilesInv, Placed
  <2>3. \A x, y \in Keys : \A i \in 1..Len(jobs'[x]), j \in 1..Len(jobs'[y]) :
            jobs'[x][i].t = jobs'[y][j].t => x = y /\ i = j
    BY <1>3 DEF FilesInv, Placed
  <2>4. \A u \in Transfers : progress'[u] = "new" =>
            u \notin opened' /\ NoJob(u)' /\ got'[u] = <<>> /\ (Sending' => chan'[u] = <<>>)
    <3> SUFFICES ASSUME NEW u \in Transfers, progress[u] = "new"
                 PROVE  u \notin opened' /\ NoJob(u)' /\ got[u] = <<>> /\ (Sending => chan'[u] = <<>>)
      BY <1>3 DEF Sending
    <3>1. u # t
      BY <1>4
    <3> QED
      BY <1>2, <1>8, <1>10, <3>1 DEF FilesInv, Placed
  <2> QED
    BY <2>1, <2>2, <2>3, <2>4 DEF Placed
<1>12. ASSUME NEW u \in Transfers, u # t
       PROVE  (Arriving(u) => Arriving(u)') /\ \A pos : Owed(u, pos) => Owed(u, pos)'
  BY <1>3, <1>8, <1>12, StaysServed DEF Same, Sending
<1>13. ASSUME Alive(t) PROVE Arriving(t)' /\ (t \notin Absent => Owed(t, 0)')
  <2>1. PICK r : r = chan'[t]
    OBVIOUS
  <2>2. r \in Seq(Message) /\ Len(r) = 1 /\ r[1] = reply
    <3>1. Len(<<>>) = 0 /\ Len(<<reply>>) = 1 /\ <<reply>>[1] = reply
      OBVIOUS
    <3>2. r \in Seq(Message)
      BY <1>8, <2>1
    <3>3. Len(r) = 0 + 1 /\ \A j \in 1..(0 + 1) : r[j] = IF j <= 0 THEN <<>>[j] ELSE <<reply>>[j - 0]
      BY <1>4, <1>8, <1>13, <2>1, <3>1 DEF IsConcat
    <3>4. 1 \in 1..(0 + 1) /\ ~(1 <= 0) /\ 1 - 0 = 1
      OBVIOUS
    <3>5. r[1] = <<reply>>[1]
      BY <3>3, <3>4
    <3> QED
      BY <3>1, <3>2, <3>3, <3>5
  <2>3. got[t] = <<>>
    BY <1>4, <1>13 DEF FilesInv, Served, Arriving, Running
  <2>4. /\ reply.kind = (IF t \in Absent THEN "error" ELSE "stat")
        /\ t \notin Absent => reply.n = size[t]
    BY <1>1
  <2>5. Fits(t, 1, reply)'
    BY <1>3, <1>4, <2>4 DEF Fits, Same
  <2>6. \A i \in 1..Len(r) : i = 1
    BY <2>2
  <2>7. progress'[t] = "fetching" /\ progress'[t] # "receiving" /\ got'[t] = <<>>
    BY <1>3, <1>4, <2>3
  <2>8. Arriving(t)'
    BY <2>1, <2>2, <2>4, <2>5, <2>6, <2>7 DEF Arriving
  <2>9. ASSUME t \notin Absent PROVE Owed(t, 0)'
    <3>1. r # <<>> /\ r[1].kind = "stat"
      <4>1. Len(<<>>) = 0
        OBVIOUS
      <4>2. r # <<>>
        BY <2>2, <4>1
      <4> QED
        BY <2>2, <2>4, <2>9, <4>2
    <3>2. Len(got'[t]) = 0 /\ Due(t)' = 1 /\ 0 = 0 + 1 - 1
      BY <2>7 DEF Due
    <3>3. progress'[t] \in Running /\ 0 <= SizeOf[t]
      BY <1>5, <2>7 DEF Running
    <3> QED
      BY <2>1, <2>2, <2>6, <3>1, <3>2, <3>3 DEF Owed
  <2> QED
    BY <2>8, <2>9
<1>14. Served'
  <2>1. \A u \in Transfers : Alive(u)' /\ progress'[u] \in Running => Arriving(u)'
    BY <1>3, <1>12, <1>13 DEF FilesInv, Served, Alive
  <2>2. ASSUME Sending', NEW u \in opened', Alive(u)' PROVE Owed(u, 0)'
    <3>1. u \in Transfers /\ Alive(u) /\ Sending
      BY <1>3, <1>9, <2>2 DEF FilesTypeOK, Alive, Sending
    <3>2. CASE u = t
      BY <1>2, <1>4, <1>13, <2>2, <3>1, <3>2
    <3>3. CASE u # t
      <4>1. u \in opened
        BY <1>2, <2>2, <3>3
      <4>2. Owed(u, 0)
        BY <3>1, <4>1 DEF FilesInv, Served
      <4> QED
        BY <1>12, <3>1, <3>3, <4>2
    <3> QED
      BY <3>2, <3>3
  <2>3. ASSUME Sending', NEW x \in Keys, NEW l \in 1..Len(jobs'[x]), Alive(jobs[x][l].t)'
        PROVE  Owed(jobs[x][l].t, jobs[x][l].pos)'
    <3>1. PICK v, pos : v = jobs[x][l].t /\ pos = jobs[x][l].pos
      OBVIOUS
    <3>2. v \in Transfers /\ v # t
      <4>1. jobs \in [Keys -> Seq(Jobs)]
        BY <1>5 DEF FilesTypeOK, Jobs
      <4>2. jobs[x][l] \in Jobs /\ l \in 1..Len(jobs[x])
        BY <1>3, <2>3, <4>1
      <4> QED
        BY <1>4, <3>1, <4>2 DEF Jobs, NoJob
    <3>3. Owed(v, pos)
      BY <1>3, <2>3, <3>1 DEF FilesInv, Served, Alive, Sending
    <3> QED
      BY <1>3, <1>12, <3>1, <3>2, <3>3
  <2> QED
    BY <2>1, <2>2, <2>3 DEF Served
<1>15. AllOrNothing' /\ FailsForAReason' /\ \A u \in Transfers : \A i \in 1..Len(got'[u]) : got'[u][i] = i
  BY <1>3 DEF FilesInv, AllOrNothing, FailsForAReason
<1> QED
  BY <1>9, <1>11, <1>14, <1>15 DEF FilesInv

\* What happens around the transfers: files change, processes go, the multiplexer stops.
\* It keeps the invariant if those that are left are served as they were.
LEMMA WorldKeeps ==
    ASSUME FilesInv, FilesTypeOK', UNCHANGED <<progress, tmp, want, got, out, opened>>,
           fetches' \subseteq fetches, dead \subseteq dead', Sending' => Sending,
           mux # "running" => mux' # "running",
           fetches' # {} => mux' = "running",
           \A t \in Transfers : chan[t] = <<>> /\ Sending' => chan'[t] = <<>>,
           \A t \in Transfers : size[t] # SizeOf[t] => size'[t] # SizeOf[t],
           jobs' = jobs \/ jobs' = [s \in Keys |-> <<>>],
           \A t \in Transfers : Alive(t)' /\ Arriving(t) => Arriving(t)',
           Sending' => \A t \in Transfers : chan'[t] = chan[t] \/ ~Alive(t)'
    PROVE  FilesInv'
<1>1. FilesTypeOK
  BY DEF FilesInv
<1>2. \A x \in Keys : Len(<<>>) = 0 /\ (jobs'[x] = jobs[x] \/ jobs'[x] = <<>>)
  OBVIOUS
<1>3. \A x \in Keys : \A l \in 1..Len(jobs'[x]) : jobs'[x] = jobs[x] /\ l \in 1..Len(jobs[x])
  BY <1>2
<1>4. \A u : NoJob(u) => NoJob(u)'
  BY <1>3 DEF NoJob
<1>5. Placed'
  <2>1. \A u \in fetches' : /\ mux' = "running" /\ progress'[u] = "fetching" /\ chan'[u] = <<>>
                            /\ u \notin opened' /\ NoJob(u)'
    <3> SUFFICES ASSUME NEW u \in fetches'
                 PROVE  /\ mux' = "running" /\ progress[u] = "fetching" /\ chan'[u] = <<>>
                        /\ u \notin opened /\ NoJob(u)'
      OBVIOUS
    <3>1. u \in fetches /\ u \in Transfers /\ mux' = "running" /\ Sending'
      BY <1>1 DEF FilesTypeOK, Sending
    <3>2. progress[u] = "fetching" /\ chan[u] = <<>> /\ u \notin opened /\ NoJob(u)
      BY <3>1 DEF FilesInv, Placed
    <3> QED
      BY <1>4, <3>1, <3>2
  <2>2. \A u \in opened' : NoJob(u)'
    BY <1>4 DEF FilesInv, Placed
  <2>3. \A x, y \in Keys : \A i \in 1..Len(jobs'[x]), j \in 1..Len(jobs'[y]) :
            jobs'[x][i].t = jobs'[y][j].t => x = y /\ i = j
    BY <1>3 DEF FilesInv, Placed
  <2>4. \A u \in Transfers : progress'[u] = "new" =>
            u \notin opened' /\ NoJob(u)' /\ got'[u] = <<>> /\ (Sending' => chan'[u] = <<>>)
    BY <1>4 DEF FilesInv, Placed
  <2> QED
    BY <2>1, <2>2, <2>3, <2>4 DEF Placed
<1>6. ASSUME Sending', NEW u \in Transfers, Alive(u)'
      PROVE  \A pos : Owed(u, pos) => Owed(u, pos)'
  <2>1. chan'[u] = chan[u] /\ (Same(u)' => Same(u))
    BY <1>6 DEF Same
  <2> QED
    BY <1>6, <2>1, StaysServed
<1>7. \A u \in Transfers : Alive(u)' => Alive(u)
  BY DEF Alive
<1>8. Served'
  <2>1. \A u \in Transfers : Alive(u)' /\ progress'[u] \in Running => Arriving(u)'
    BY <1>7 DEF FilesInv, Served
  <2>2. ASSUME Sending', NEW u \in opened', Alive(u)' PROVE Owed(u, 0)'
    <3>1. u \in Transfers /\ u \in opened
      BY <1>1 DEF FilesTypeOK
    <3>2. Owed(u, 0)
      BY <1>7, <2>2, <3>1 DEF FilesInv, Served
    <3> QED
      BY <1>6, <2>2, <3>1, <3>2
  <2>3. ASSUME Sending', NEW x \in Keys, NEW l \in 1..Len(jobs'[x]), Alive(jobs[x][l].t)'
        PROVE  Owed(jobs[x][l].t, jobs[x][l].pos)'
    <3>1. jobs'[x] = jobs[x] /\ l \in 1..Len(jobs[x])
      BY <1>3
    <3>2. PICK v, pos : v = jobs[x][l].t /\ pos = jobs[x][l].pos
      OBVIOUS
    <3>3. v \in Transfers
      <4>1. jobs \in [Keys -> Seq(Jobs)]
        BY <1>1 DEF FilesTypeOK, Jobs
      <4>2. jobs[x][l] \in Jobs
        BY <3>1, <4>1
      <4> QED
        BY <3>2, <4>2 DEF Jobs
    <3>4. Alive(v)'
      BY <2>3, <3>1, <3>2 DEF Alive
    <3>5. Owed(v, pos)
      BY <1>7, <2>3, <3>1, <3>2, <3>3, <3>4 DEF FilesInv, Served
    <3>6. Owed(v, pos)'
      BY <1>6, <2>3, <3>3, <3>4, <3>5
    <3> QED
      BY <3>1, <3>2, <3>6
  <2> QED
    BY <2>1, <2>2, <2>3 DEF Served
<1>9. AllOrNothing' /\ FailsForAReason' /\ \A u \in Transfers : \A i \in 1..Len(got'[u]) : got'[u][i] = i
  BY DEF FilesInv, AllOrNothing, FailsForAReason
<1> QED
  BY <1>5, <1>8, <1>9 DEF FilesInv

\* The file changes: from then on nothing is said of its size.
LEMMA ChangeKeeps == ASSUME FilesInv, NEW t \in Transfers, Change(t) PROVE FilesInv'
<1>1. /\ size[t] = SizeOf[t]
      /\ UNCHANGED <<targets, chan, fetches, acks, opened, jobs, unacked, mux>>
  BY DEF Change
<1>2. PICK n \in {SizeOf[t] - 1, SizeOf[t] + 1} \cap Nat : size' = [size EXCEPT ![t] = n]
  BY DEF Change
<1>3. size \in [Transfers -> Nat] /\ SizeOf[t] \in Nat
  BY FilesAssumption, QuotaIsPositive DEF FilesInv, FilesTypeOK
<1>4. size' \in [Transfers -> Nat] /\ \A u \in Transfers : size[u] # SizeOf[u] => size'[u] # SizeOf[u]
  BY <1>1, <1>2, <1>3
<1>5. /\ progress' = progress /\ tmp' = tmp /\ want' = want /\ got' = got /\ out' = out /\ dead' = dead
      /\ chan' = chan /\ fetches' = fetches /\ acks' = acks /\ opened' = opened /\ jobs' = jobs
      /\ unacked' = unacked /\ mux' = mux
  BY <1>1 DEF targets
<1>6. FilesTypeOK'
  BY <1>4, <1>5 DEF FilesInv, FilesTypeOK
<1>7. ASSUME NEW u \in Transfers, Arriving(u) PROVE Arriving(u)'
  <2>1. (Same(u)' => Same(u)) /\ (Sending' => Sending)
    BY <1>4, <1>5 DEF Same, Sending
  <2> QED
    BY <1>5, <1>7, <2>1, StaysServed
<1>8. \A u \in fetches' : mux' = "running"
  BY <1>5 DEF FilesInv, Placed
<1> QED
  BY <1>4, <1>5, <1>6, <1>7, <1>8, WorldKeeps DEF Sending

\* Processes are gone.
LEMMA GoneKeeps == ASSUME FilesInv, NEW cs \in SUBSET Contexts, Gone(cs) PROVE FilesInv'
<1>1. /\ dead' = dead \cup cs
      /\ chan' = [t \in Transfers |-> IF ContextOf[t] \in cs THEN <<>> ELSE chan[t]]
      /\ UNCHANGED <<progress, tmp, want, got, out, fetches, acks, opened, jobs, unacked, mux, size>>
  BY DEF Gone
<1>2. chan \in [Transfers -> Seq(Message)] /\ <<>> \in Seq(Message)
  BY DEF FilesInv, FilesTypeOK
<1>3. /\ chan' \in [Transfers -> Seq(Message)]
      /\ \A t \in Transfers : /\ Alive(t)' => chan'[t] = chan[t]
                              /\ chan[t] = <<>> => chan'[t] = <<>>
  BY <1>1, <1>2 DEF Alive
<1>4. FilesTypeOK'
  BY <1>1, <1>3 DEF FilesInv, FilesTypeOK
<1>5. ASSUME NEW u \in Transfers, Alive(u)', Arriving(u) PROVE Arriving(u)'
  <2>1. (Same(u)' => Same(u)) /\ (Sending' => Sending)
    BY <1>1 DEF Same, Sending
  <2> QED
    BY <1>1, <1>3, <1>5, <2>1, StaysServed
<1>6. \A u \in fetches' : mux' = "running"
  BY <1>1 DEF FilesInv, Placed
<1>7. Sending' => Sending
  BY <1>1 DEF Sending
<1> QED
  BY <1>1, <1>3, <1>4, <1>5, <1>6, <1>7, WorldKeeps

\* The pool stops, and what it had not taken is dropped.
LEMMA StopPoolKeeps == ASSUME FilesInv, StopPool PROVE FilesInv'
<1>1. /\ mux = "running" /\ mux' = "stopping" /\ fetches' = {} /\ acks' = [c \in Contexts |-> 0]
      /\ UNCHANGED <<targets, chan, opened, jobs, unacked, size>>
  BY DEF StopPool
<1>2. /\ progress' = progress /\ tmp' = tmp /\ want' = want /\ got' = got /\ out' = out /\ dead' = dead
  BY <1>1 DEF targets
<1>3. FilesTypeOK'
  BY <1>1, <1>2 DEF FilesInv, FilesTypeOK
<1>4. Sending /\ mux' # "running"
  BY <1>1 DEF Sending
<1>5. ASSUME NEW u \in Transfers, Arriving(u) PROVE Arriving(u)'
  BY <1>1, <1>2, <1>4, <1>5, StaysServed DEF Same
<1> QED
  BY <1>1, <1>2, <1>3, <1>4, <1>5, WorldKeeps

\* The streams are disconnected: nothing comes any more but a dead message.
LEMMA ExitKeeps == ASSUME FilesInv, Exit PROVE FilesInv'
<1>1. PICK m, ms : m = [kind |-> "dead", n |-> 0] /\ ms = [t \in Transfers |-> <<m>>]
  OBVIOUS
<1>2. /\ mux = "stopping" /\ mux' = "exited" /\ chan' = Sent(ms)
      /\ UNCHANGED <<targets, fetches, acks, opened, jobs, unacked, size>>
  BY <1>1, Zenon DEF Exit
<1>3. /\ progress' = progress /\ tmp' = tmp /\ want' = want /\ got' = got /\ out' = out /\ dead' = dead
      /\ fetches' = fetches /\ opened' = opened /\ jobs' = jobs /\ size' = size
  BY <1>2 DEF targets
<1>4. fetches' = {} /\ Sending /\ ~Sending'
  BY <1>2, <1>3 DEF FilesInv, Placed, Sending
<1>5. m \in Message /\ m.kind = "dead"
  BY <1>1 DEF Message
<1>6. ms \in [Transfers -> Seq(Message)] /\ \A t \in Transfers : ms[t] = <<m>>
  BY <1>1, <1>5
<1>7. /\ chan' \in [Transfers -> Seq(Message)]
      /\ \A t \in Transfers : Alive(t) => IsConcat(chan'[t], chan[t], <<m>>)
  <2>1. FilesTypeOK
    BY DEF FilesInv
  <2> QED
    BY <1>2, <1>4, <1>6, <2>1, SentFacts
<1>8. FilesTypeOK'
  BY <1>2, <1>3, <1>7 DEF FilesInv, FilesTypeOK
<1>9. ASSUME NEW u \in Transfers, Alive(u), Arriving(u) PROVE Arriving(u)'
  <2>1. PICK c, r : c = chan[u] /\ r = chan'[u]
    OBVIOUS
  <2>2. c \in Seq(Message) /\ r \in Seq(Message)
    BY <1>8, <2>1 DEF FilesInv, FilesTypeOK
  <2>3. PICK k \in Nat : k = Len(c)
    BY <2>2
  <2>4. Len(r) = k + 1 /\ r[k + 1] = m /\ \A i \in 1..k : r[i] = c[i]
    <3>1. Len(<<m>>) = 1 /\ <<m>>[1] = m
      OBVIOUS
    <3>2. Len(r) = k + 1 /\ \A i \in 1..(k + 1) : r[i] = IF i <= k THEN c[i] ELSE <<m>>[i - k]
      BY <1>7, <1>9, <2>1, <2>3, <3>1 DEF IsConcat
    <3>3. k + 1 \in 1..(k + 1) /\ ~(k + 1 <= k) /\ (k + 1) - k = 1 /\ \A i \in 1..k : i \in 1..(k + 1) /\ i <= k
      OBVIOUS
    <3> QED
      BY <3>1, <3>2, <3>3
  <2>5. Due(u)' = Due(u) /\ (Same(u)' <=> Same(u))
    BY <1>3 DEF Due, Same
  <2>6. ASSUME NEW i \in 1..(k + 1) PROVE Fits(u, i, r[i])'
    <3>1. CASE i \in 1..k
      <4>1. Fits(u, i, c[i])
        BY <1>9, <2>1, <2>3, <3>1 DEF Arriving
      <4>2. Fits(u, i, c[i])'
        BY <1>3, <1>4, <2>5, <4>1 DEF Fits
      <4> QED
        BY <2>4, <3>1, <4>2
    <3>2. CASE i \notin 1..k
      <4>1. i = k + 1
        BY <3>2
      <4>2. r[i].kind = "dead"
        BY <1>5, <2>4, <4>1
      <4> QED
        BY <1>4, <4>2 DEF Fits
    <3> QED
      BY <3>1, <3>2
  <2>7. progress[u] = "fetching" => got[u] = <<>> /\ r[1].kind \in {"stat", "error", "dead"}
    <3>1. progress[u] = "fetching" => got[u] = <<>> /\ (c # <<>> => c[1].kind \in {"stat", "error", "dead"})
      BY <1>9, <2>1 DEF Arriving
    <3>2. CASE k = 0
      BY <1>5, <2>4, <3>1, <3>2
    <3>3. CASE k # 0
      <4>1. 1 \in 1..k /\ c # <<>>
        BY <2>2, <2>3, <3>3
      <4> QED
        BY <2>4, <3>1, <4>1
    <3> QED
      BY <3>2, <3>3
  <2>8. progress[u] = "receiving" /\ Same(u) => want[u] = SizeOf[u]
    BY <1>9 DEF Arriving
  <2> QED
    BY <1>3, <2>1, <2>4, <2>5, <2>6, <2>7, <2>8 DEF Arriving
<1>10. \A u \in Transfers : Alive(u)' => Alive(u)
  BY <1>3 DEF Alive
<1>11. mux' # "running"
  BY <1>2
<1> QED
  BY <1>3, <1>4, <1>8, <1>9, <1>10, <1>11, WorldKeeps

\* The threads are joined, and every job is closed.
LEMMA JoinKeeps == ASSUME FilesInv, Join PROVE FilesInv'
<1>1. /\ mux = "exited" /\ mux' = "joined" /\ jobs' = [s \in Keys |-> <<>>]
      /\ UNCHANGED <<targets, chan, fetches, acks, opened, unacked, size>>
  BY DEF Join
<1>2. /\ progress' = progress /\ tmp' = tmp /\ want' = want /\ got' = got /\ out' = out /\ dead' = dead
  BY <1>1 DEF targets
<1>3. jobs' \in [Keys -> Seq([t : Transfers, pos : Nat])]
  <2>1. <<>> \in Seq([t : Transfers, pos : Nat])
    OBVIOUS
  <2> QED
    BY <1>1, <2>1
<1>4. FilesTypeOK'
  BY <1>1, <1>2, <1>3 DEF FilesInv, FilesTypeOK
<1>5. ~Sending' /\ mux' # "running" /\ fetches' = {}
  BY <1>1 DEF FilesInv, Placed, Sending
<1>6. ASSUME NEW u \in Transfers, Arriving(u) PROVE Arriving(u)'
  BY <1>1, <1>2, <1>5, <1>6, StaysServed DEF Same
<1> QED
  BY <1>1, <1>2, <1>4, <1>5, <1>6, WorldKeeps

\* Nothing has begun.
LEMMA FilesBegin == ASSUME FilesInit PROVE FilesInv
<1>1. <<>> \in Seq(Nat) /\ <<>> \in Seq(Message) /\ <<>> \in Seq([t : Transfers, pos : Nat]) /\ 0 \in 0..Quota
  BY FilesAssumption, QuotaIsPositive
<1>2. FilesTypeOK
  BY <1>1, FilesAssumption, QuotaIsPositive DEF FilesInit, FilesTypeOK
<1>3. 1..Len(<<>>) = {}
  OBVIOUS
<1>4. \A x \in Keys : jobs[x] = <<>>
  BY DEF FilesInit
<1>5. Placed
  BY <1>3, <1>4 DEF FilesInit, Placed, NoJob
<1>6. Served
  BY <1>3, <1>4 DEF FilesInit, Served, Running
<1>7. AllOrNothing /\ FailsForAReason /\ \A t \in Transfers : \A i \in 1..Len(got[t]) : got[t][i] = i
  BY <1>3 DEF FilesInit, AllOrNothing, FailsForAReason, Ended
<1> QED
  BY <1>2, <1>5, <1>6, <1>7 DEF FilesInv

\* What the inductive invariant is about does not change with no step.
LEMMA FilesStutter == ASSUME FilesInv, UNCHANGED filesVars PROVE FilesInv'
<1>1. /\ progress' = progress /\ tmp' = tmp /\ want' = want /\ got' = got /\ out' = out /\ dead' = dead
      /\ chan' = chan /\ fetches' = fetches /\ acks' = acks /\ opened' = opened /\ jobs' = jobs
      /\ unacked' = unacked /\ mux' = mux /\ size' = size
  BY DEF filesVars, targets
<1>2. FilesTypeOK'
  BY <1>1 DEF FilesInv, FilesTypeOK
<1>3. ASSUME NEW u \in Transfers, Arriving(u) PROVE Arriving(u)'
  BY <1>1, <1>3, StaysServed DEF Same, Sending
<1>4. \A u \in fetches' : mux' = "running"
  BY <1>1 DEF FilesInv, Placed
<1>5. Sending' => Sending
  BY <1>1 DEF Sending
<1> QED
  BY <1>1, <1>2, <1>3, <1>4, <1>5, WorldKeeps

\* service.FileService and its targets: the invariant holds whatever is registered,
\* whoever dies and however the pool's threads interleave.
THEOREM FilesInvariance == FilesSpec => []FilesInv
<1>1. FilesInit => FilesInv
  BY FilesBegin
<1>2. FilesInv /\ [FilesNext]_filesVars => FilesInv'
  <2> SUFFICES ASSUME FilesInv, [FilesNext]_filesVars PROVE FilesInv'
    OBVIOUS
  <2>1. CASE \E t \in Transfers : TransferFile(t) \/ ReceiveNext(t) \/ Change(t)
    BY <2>1, TransferFileKeeps, ReceiveNextKeeps, ChangeKeeps
  <2>2. CASE FilesPoolStep
    BY <2>2, FetchKeeps, ScheduleKeeps, AcknowledgeKeeps DEF FilesPoolStep
  <2>3. ASSUME NEW c \in Contexts, Die(c) \/ Kill(c) PROVE FilesInv'
    <3>1. Gone({c}) /\ {c} \in SUBSET Contexts
      BY <2>3 DEF Die, Kill
    <3> QED
      BY <3>1, GoneKeeps
  <2>4. ASSUME NEW s \in Streams, Lose(s) PROVE FilesInv'
    <3>1. PICK cs : cs = {c \in Contexts : StreamOf[c] = s}
      OBVIOUS
    <3>2. Gone(cs) /\ cs \in SUBSET Contexts
      BY <2>4, <3>1 DEF Lose
    <3> QED
      BY <3>2, GoneKeeps
  <2>5. CASE StopPool \/ Exit \/ Join
    BY <2>5, StopPoolKeeps, ExitKeeps, JoinKeeps
  <2>6. CASE UNCHANGED filesVars
    BY <2>6, FilesStutter
  <2> QED
    BY <2>1, <2>2, <2>3, <2>4, <2>5, <2>6 DEF FilesNext
<1> QED
  BY <1>1, <1>2, PTL DEF FilesSpec

\* FileService's variables and its targets' keep their types.
THEOREM FilesTypeCorrect == FilesSpec => []FilesTypeOK
<1>1. FilesInv => FilesTypeOK
  BY DEF FilesInv
<1> QED
  BY <1>1, FilesInvariance, PTL

\* transfer_file(): the output is replaced by every chunk the service promised, in
\* order, or not at all, no temporary file stays behind, and a transfer only fails
\* because its path is refused, its file changed, its target refuses what is asked of it
\* or the multiplexer stops: neither the other transfers of its stream nor the death of
\* other contexts touch it.
THEOREM OutcomesAreDue == FilesSpec => []OutcomeIsDue
<1>1. FilesInv => OutcomeIsDue
  BY DEF FilesInv, OutcomeIsDue
<1> QED
  BY <1>1, FilesInvariance, PTL

-----------------------------------------------------------------------------
(* The window.                                                             *)

\* A job is with the stream of its context, or with none once that died.
Routed(t, x) == IF x = NoStream THEN ContextOf[t] \in dead ELSE StreamOf[ContextOf[t]] = x

Shared == \A x \in Keys : \A i \in 1..Len(jobs[x]) : Routed(jobs[x][i].t, x)

ContextsOf(s) == {c \in Contexts : StreamOf[c] = s}

Counted(s) ==
    /\ IsFiniteSet(InFlight(Sharing(s), chan))
    /\ IsFiniteSet(Confirming(ContextsOf(s), acks))
    /\ Unconfirmed(s) <= unacked[s]
    /\ Intact(s) => Unconfirmed(s) = unacked[s]

WindowInv == Shared /\ \A s \in Streams : Counted(s)

\* Jobs are of no other stream.
LEMMA RoutedFacts ==
    ASSUME FilesTypeOK, NEW s \in Keys, NEW t \in Transfers, Routed(t, s)
    PROVE  /\ s \in Streams => t \in Sharing(s)
           /\ \A x \in Streams : x # s /\ t \in Sharing(x) => ~Alive(t)
<1>1. NoStream \notin Streams
  BY FilesAssumption, QuotaIsPositive
<1> QED
  BY <1>1 DEF Routed, Sharing, Alive, Keys

\* What running a stream's jobs sends is added to what the stream is counted for.
LEMMA PendingPays ==
    ASSUME FilesTypeOK, NEW s \in Keys, NEW js \in Seq(Jobs), Alone(js), NEW u \in 0..Quota,
           SchedulePending(s, js, u), \A i \in 1..Len(js) : Routed(js[i].t, s),
           NEW x \in Streams, IsFiniteSet(InFlight(Sharing(x), chan))
    PROVE  /\ IsFiniteSet(InFlight(Sharing(x), chan'))
           /\ x # s => /\ InFlight(Sharing(x), chan') = InFlight(Sharing(x), chan)
                       /\ unacked'[x] = unacked[x]
           /\ x = s => /\ Cardinality(InFlight(Sharing(x), chan')) - Cardinality(InFlight(Sharing(x), chan))
                              <= unacked'[x] - u
                       /\ Intact(x) =>
                            Cardinality(InFlight(Sharing(x), chan')) - Cardinality(InFlight(Sharing(x), chan))
                              = unacked'[x] - u
<1>1. unacked \in [Keys -> 0..Quota] /\ chan \in [Transfers -> Seq(Message)] /\ x \in Keys /\ Quota \in Nat
  BY FilesAssumption, QuotaIsPositive DEF FilesTypeOK, Keys
<1>2. PICK A, B : A = InFlight(Sharing(x), chan) /\ B = InFlight(Sharing(x), chan')
  OBVIOUS
<1>3. Cardinality(A) \in Nat /\ u \in Nat
  BY <1>1, <1>2, FS_CardinalityType
<1>4. CASE mux = "exited"
  <2>1. unacked' = [unacked EXCEPT ![s] = u] /\ chan' = chan
    BY <1>4, Zenon DEF SchedulePending
  <2>2. B = A /\ (x # s => unacked'[x] = unacked[x]) /\ (x = s => unacked'[x] = u)
    BY <1>1, <1>2, <2>1
  <2>3. Cardinality(B) - Cardinality(A) = 0 /\ u - u = 0
    BY <1>3, <2>2
  <2> QED
    BY <1>2, <2>2, <2>3
<1>5. CASE mux # "exited"
  <2>1. PICK p : p = Pumped(js, u)
    OBVIOUS
  <2>2. unacked' = [unacked EXCEPT ![s] = Quota - p.room] /\ chan' = Sent(p.ms)
    BY <1>5, <2>1, Zenon DEF SchedulePending
  <2>3. Pump(p, js, Len(js)) /\ Paid(p, u)
    BY <2>1, PumpedFacts
  <2>4. p.room \in 0..Quota /\ p.ms \in [Transfers -> Seq(Message)]
    BY <2>3 DEF Pump, Accs
  <2>5. /\ chan' \in [Transfers -> Seq(Message)]
        /\ \A t \in Transfers : ~(Alive(t) /\ Sending) => chan'[t] = chan[t]
        /\ \A t \in Transfers : Alive(t) /\ Sending => IsConcat(chan'[t], chan[t], p.ms[t])
        /\ \A t \in Transfers : p.ms[t] = <<>> => chan'[t] = chan[t]
    BY <2>2, <2>4, SentFacts
  <2>6. ASSUME NEW t \in Transfers, p.ms[t] # <<>> PROVE Routed(t, s)
    BY <2>3, <2>6 DEF Pump
  <2>7. Sharing(x) \in SUBSET Transfers
    BY DEF Sharing
  <2>8. CASE x # s
    <3>1. ASSUME NEW t \in Sharing(x) PROVE chan'[t] = chan[t]
      BY <2>5, <2>6, <2>7, <2>8, RoutedFacts
    <3>2. \A t \in Sharing(x) : ChunksIn(chan'[t]) = ChunksIn(chan[t])
      BY <3>1
    <3>3. B = A
      BY <1>2, <3>2, InFlightSame
    <3>4. unacked'[x] = unacked[x]
      BY <1>1, <2>2, <2>8
    <3> QED
      BY <1>2, <2>8, <3>3, <3>4
  <2>9. CASE x = s
    <3>1. PICK C : C = InFlight(Transfers, p.ms)
      OBVIOUS
    <3>2. IsFiniteSet(C) /\ Cardinality(C) \in Nat /\ p.room + Cardinality(C) = Quota - u
      BY <2>3, <3>1, FS_CardinalityType DEF Paid
    <3>3. unacked'[x] - u = Cardinality(C)
      <4>1. unacked'[x] = Quota - p.room
        BY <1>1, <2>2, <2>9
      <4> QED
        BY <1>1, <1>3, <2>4, <3>2, <4>1
    <3>4. \A t \in Sharing(x) : chan'[t] = chan[t] \/ IsConcat(chan'[t], chan[t], p.ms[t])
      BY <2>5, <2>7
    <3>5. /\ IsFiniteSet(B) /\ Cardinality(B) <= Cardinality(A) + Cardinality(C)
          /\ Written(Sharing(x), p.ms, chan, chan') =>
                 Cardinality(B) = Cardinality(A) + Cardinality(C)
      <4>1. PICK ts, ms, ch, dh : ts = Sharing(x) /\ ms = p.ms /\ ch = chan /\ dh = chan'
        OBVIOUS
      <4>2. /\ ts \in SUBSET Transfers /\ ms \in [Transfers -> Seq(Message)]
            /\ ch \in [Transfers -> Seq(Message)] /\ dh \in [Transfers -> Seq(Message)]
        BY <1>1, <2>4, <2>5, <2>7, <4>1
      <4>3. WrittenOrLost(ts, ms, ch, dh)
        BY <3>4, <4>1, <4>2 DEF WrittenOrLost
      <4>4. IsFiniteSet(InFlight(ts, ch)) /\ IsFiniteSet(InFlight(Transfers, ms))
        BY <3>1, <3>2, <4>1
      <4>5. /\ IsFiniteSet(InFlight(ts, dh))
            /\ Cardinality(InFlight(ts, dh)) <=
                   Cardinality(InFlight(ts, ch)) + Cardinality(InFlight(Transfers, ms))
            /\ Written(ts, ms, ch, dh) =>
                   Cardinality(InFlight(ts, dh)) =
                       Cardinality(InFlight(ts, ch)) + Cardinality(InFlight(Transfers, ms))
        BY <4>3, <4>4, BurstCounted
      <4> QED
        BY <1>2, <3>1, <4>1, <4>5
    <3>6. Cardinality(B) \in Nat
      BY <3>5, FS_CardinalityType
    <3>7. ASSUME Intact(x) PROVE Cardinality(B) = Cardinality(A) + Cardinality(C)
      <4>1. ASSUME NEW t \in Sharing(x) PROVE IsConcat(chan'[t], chan[t], p.ms[t])
        <5>1. t \in Transfers /\ ContextOf[t] \in Contexts /\ StreamOf[ContextOf[t]] = x
          BY <2>7, FilesAssumption, QuotaIsPositive DEF Sharing
        <5>2. Alive(t) /\ Sending
          BY <3>7, <5>1 DEF Intact, Alive, Sending
        <5> QED
          BY <2>5, <5>1, <5>2
      <4>2. \A t \in Transfers \ Sharing(x) : p.ms[t] = <<>>
        BY <2>6, <2>9, RoutedFacts
      <4>3. Written(Sharing(x), p.ms, chan, chan')
        BY <4>1, <4>2 DEF Written
      <4> QED
        BY <3>5, <4>3
    <3>8. Cardinality(B) - Cardinality(A) <= Cardinality(C)
      BY <1>3, <3>2, <3>5, <3>6
    <3>9. Intact(x) => Cardinality(B) - Cardinality(A) = Cardinality(C)
      BY <1>3, <3>2, <3>6, <3>7
    <3> QED
      BY <1>2, <2>9, <3>3, <3>5, <3>8, <3>9
  <2> QED
    BY <2>8, <2>9
<1> QED
  BY <1>4, <1>5

\* What is counted for a stream grows by nothing, and unless it is complete to begin
\* with, or no longer meant to be, shrinks by nothing.
LEMMA CountKept ==
    ASSUME NEW s \in Streams, unacked \in [Keys -> 0..Quota], Counted(s), unacked' = unacked,
           IsFiniteSet(InFlight(Sharing(s), chan')), IsFiniteSet(Confirming(ContextsOf(s), acks')),
           Cardinality(InFlight(Sharing(s), chan')) + Cardinality(Confirming(ContextsOf(s), acks')) <=
               Cardinality(InFlight(Sharing(s), chan)) + Cardinality(Confirming(ContextsOf(s), acks)),
           Intact(s)' =>
               /\ Intact(s)
               /\ Cardinality(InFlight(Sharing(s), chan')) + Cardinality(Confirming(ContextsOf(s), acks')) =
                      Cardinality(InFlight(Sharing(s), chan)) + Cardinality(Confirming(ContextsOf(s), acks))
    PROVE  Counted(s)'
<1>1. PICK a, b, c, d : /\ a = Cardinality(InFlight(Sharing(s), chan)) /\ b = Cardinality(Confirming(ContextsOf(s), acks))
                        /\ c = Cardinality(InFlight(Sharing(s), chan')) /\ d = Cardinality(Confirming(ContextsOf(s), acks'))
  OBVIOUS
<1>2. a \in Nat /\ b \in Nat /\ c \in Nat /\ d \in Nat
  BY <1>1, FS_CardinalityType DEF Counted
<1>3. Unconfirmed(s) = a + b /\ Unconfirmed(s)' = c + d
  BY <1>1 DEF Unconfirmed, ContextsOf, Sharing
<1>4. PICK n \in Nat : n = unacked[s]
  BY FilesAssumption, QuotaIsPositive DEF Keys
<1>5. a + b <= n /\ (Intact(s) => a + b = n) /\ c + d <= a + b
  BY <1>1, <1>3, <1>4 DEF Counted
<1>6. c + d <= n
  BY <1>2, <1>5
<1>7. Intact(s)' => c + d = n
  BY <1>1, <1>5
<1>8. (Intact(s))' => (Unconfirmed(s))' = unacked'[s]
  BY <1>3, <1>4, <1>7
<1> QED
  BY <1>3, <1>4, <1>6, <1>8 DEF Counted, ContextsOf, Sharing

\* No chunk arrives or is sent, nothing is acknowledged.
LEMMA CountSame ==
    ASSUME NEW s \in Streams, unacked \in [Keys -> 0..Quota], Counted(s), unacked' = unacked,
           \A c \in ContextsOf(s) : acks'[c] = acks[c],
           \A t \in Sharing(s) : ChunksIn(chan'[t]) = ChunksIn(chan[t]), Intact(s)' => Intact(s)
    PROVE  Counted(s)'
<1>1. InFlight(Sharing(s), chan') = InFlight(Sharing(s), chan)
  BY InFlightSame
<1>2. PICK A, B : A = InFlight(Sharing(s), chan) /\ B = Confirming(ContextsOf(s), acks)
  OBVIOUS
<1>3. IsFiniteSet(A) /\ IsFiniteSet(B)
  BY <1>2 DEF Counted
<1>4. Cardinality(A) + Cardinality(B) <= Cardinality(A) + Cardinality(B)
  <2>1. Cardinality(A) \in Nat /\ Cardinality(B) \in Nat
    BY <1>3, FS_CardinalityType
  <2> QED
    BY <2>1
<1>5. Confirming(ContextsOf(s), acks') = B /\ InFlight(Sharing(s), chan') = A
  BY <1>1, <1>2, ConfirmingSame
<1> QED
  BY <1>2, <1>3, <1>4, <1>5, CountKept

\* Processes are gone.
LEMMA GoneCounts ==
    ASSUME FilesTypeOK, NEW s \in Streams, Counted(s), NEW cs \in SUBSET Contexts, Gone(cs)
    PROVE  Counted(s)'
<1>1. /\ dead' = dead \cup cs /\ acks' = acks /\ unacked' = unacked /\ mux' = mux
      /\ \A t \in Transfers : chan'[t] = IF ContextOf[t] \in cs THEN <<>> ELSE chan[t]
  BY DEF Gone
<1>2. \A t \in Sharing(s) : t \in Transfers /\ ContextOf[t] \in Contexts /\ StreamOf[ContextOf[t]] = s
  BY FilesAssumption, QuotaIsPositive DEF Sharing
<1>3. \A t \in Sharing(s) : ChunksIn(chan'[t]) \subseteq ChunksIn(chan[t])
  <2>1. ChunksIn(<<>>) = {}
    BY DEF ChunksIn
  <2> QED
    BY <1>1, <1>2, <2>1
<1>4. PICK A, B, C : A = InFlight(Sharing(s), chan) /\ B = Confirming(ContextsOf(s), acks) /\ C = InFlight(Sharing(s), chan')
  OBVIOUS
<1>5. IsFiniteSet(A) /\ IsFiniteSet(B)
  BY <1>4 DEF Counted
<1>6. IsFiniteSet(C) /\ Cardinality(C) <= Cardinality(A)
  BY <1>3, <1>4, <1>5, InFlightLess
<1>7. Confirming(ContextsOf(s), acks') = B
  BY <1>1, <1>4
<1>8. ASSUME Intact(s)' PROVE Intact(s) /\ C = A
  <2>1. Intact(s) /\ \A c \in cs : StreamOf[c] # s
    BY <1>1, <1>8 DEF Intact
  <2>2. \A t \in Sharing(s) : ChunksIn(chan'[t]) = ChunksIn(chan[t])
    BY <1>1, <1>2, <2>1
  <2>3. C = A
    BY <1>4, <2>2, InFlightSame
  <2> QED
    BY <2>1, <2>3
<1>9. unacked \in [Keys -> 0..Quota]
  BY DEF FilesTypeOK
<1>10. Cardinality(C) + Cardinality(B) <= Cardinality(A) + Cardinality(B)
  <2>1. Cardinality(A) \in Nat /\ Cardinality(B) \in Nat /\ Cardinality(C) \in Nat
    BY <1>5, <1>6, FS_CardinalityType
  <2> QED
    BY <1>6, <2>1
<1>11. Intact(s)' => Intact(s) /\ Cardinality(C) + Cardinality(B) = Cardinality(A) + Cardinality(B)
  BY <1>8
<1> QED
  BY <1>1, <1>4, <1>5, <1>6, <1>7, <1>9, <1>10, <1>11, CountKept

\* The pool stops, and acknowledgements it has not taken are lost.
LEMMA StopPoolCounts ==
    ASSUME FilesTypeOK, NEW s \in Streams, Counted(s), StopPool
    PROVE  Counted(s)'
<1>1. mux' = "stopping" /\ acks' = [c \in Contexts |-> 0] /\ chan' = chan /\ unacked' = unacked
  BY DEF StopPool
<1>2. PICK A, B : A = InFlight(Sharing(s), chan) /\ B = Confirming(ContextsOf(s), acks)
  OBVIOUS
<1>3. IsFiniteSet(A) /\ IsFiniteSet(B)
  BY <1>2 DEF Counted
<1>4. Cardinality(A) \in Nat /\ Cardinality(B) \in Nat
  BY <1>3, FS_CardinalityType
<1>5. Confirming(ContextsOf(s), acks') = {}
  <2>1. \A c \in ContextsOf(s) : acks'[c] = 0
    BY <1>1 DEF ContextsOf
  <2> QED
    BY <2>1, ConfirmingNone
<1>6. IsFiniteSet(Confirming(ContextsOf(s), acks')) /\ Cardinality(Confirming(ContextsOf(s), acks')) = 0
  BY <1>5, FS_EmptySet
<1>7. InFlight(Sharing(s), chan') = A /\ Cardinality(A) + 0 <= Cardinality(A) + Cardinality(B)
  BY <1>1, <1>2, <1>4
<1>8. ~Intact(s)'
  BY <1>1 DEF Intact
<1>9. unacked \in [Keys -> 0..Quota]
  BY DEF FilesTypeOK
<1> QED
  BY <1>1, <1>2, <1>3, <1>6, <1>7, <1>8, <1>9, CountKept


\* No message of m's kind is a chunk, so nothing is counted for it.
LEMMA NoneCounts ==
    ASSUME FilesTypeOK, NEW s \in Streams, Counted(s), NEW ms \in [Transfers -> Seq(Message)],
           \A t \in Transfers : ms[t] = <<>> \/ \E m \in Message : m.kind # "chunk" /\ ms[t] = <<m>>,
           chan' = Sent(ms), unacked' = unacked, acks' = acks, Intact(s)' => Intact(s)
    PROVE  Counted(s)'
<1>1. /\ chan' \in [Transfers -> Seq(Message)]
      /\ \A t \in Transfers : ~(Alive(t) /\ Sending) => chan'[t] = chan[t]
      /\ \A t \in Transfers : Alive(t) /\ Sending => IsConcat(chan'[t], chan[t], ms[t])
      /\ \A t \in Transfers : ms[t] = <<>> => chan'[t] = chan[t]
  BY SentFacts
<1>2. ASSUME NEW t \in Sharing(s) PROVE ChunksIn(chan'[t]) = ChunksIn(chan[t])
  <2>1. t \in Transfers /\ chan[t] \in Seq(Message)
    BY DEF Sharing, FilesTypeOK
  <2>2. CASE ms[t] = <<>> \/ ~(Alive(t) /\ Sending)
    BY <1>1, <2>1, <2>2
  <2>3. CASE ms[t] # <<>> /\ Alive(t) /\ Sending
    <3>1. PICK m \in Message : m.kind # "chunk" /\ ms[t] = <<m>>
      BY <2>1, <2>3
    <3>2. IsConcat(chan'[t], chan[t], <<m>>)
      BY <1>1, <2>1, <2>3, <3>1
    <3> QED
      BY <2>1, <3>1, <3>2, OtherMessage
  <2> QED
    BY <2>2, <2>3
<1>3. unacked \in [Keys -> 0..Quota] /\ \A c \in ContextsOf(s) : acks'[c] = acks[c]
  BY DEF FilesTypeOK
<1> QED
  BY <1>2, <1>3, CountSame

\* The reply of fetch() is no chunk.
LEMMA FetchCounts ==
    ASSUME FilesTypeOK, NEW s \in Streams, Counted(s), NEW t \in Transfers, Fetch(t)
    PROVE  Counted(s)'
<1>1. PICK reply, ms : /\ reply = (IF t \in Absent THEN [kind |-> "error", n |-> 0]
                                   ELSE [kind |-> "stat", n |-> size[t]])
                       /\ ms = [u \in Transfers |-> IF u = t THEN <<reply>> ELSE <<>>]
  OBVIOUS
<1>2. chan' = Sent(ms) /\ UNCHANGED <<targets, acks, jobs, unacked, mux, size>>
  BY <1>1, Zenon DEF Fetch
<1>3. reply \in Message /\ reply.kind # "chunk"
  <2>1. PICK z \in Nat : z = size[t]
    BY DEF FilesTypeOK
  <2>2. reply = [kind |-> "error", n |-> 0] \/ reply = [kind |-> "stat", n |-> z]
    BY <1>1, <2>1
  <2> QED
    BY <2>2 DEF Message
<1>4. ms \in [Transfers -> Seq(Message)]
  BY <1>1, <1>3
<1>5. \A u \in Transfers : ms[u] = <<>> \/ \E m \in Message : m.kind # "chunk" /\ ms[u] = <<m>>
  BY <1>1, <1>3
<1>6. Intact(s)' => Intact(s)
  BY <1>2 DEF Intact, targets
<1>7. unacked' = unacked /\ acks' = acks
  BY <1>2
<1> QED
  BY <1>2, <1>4, <1>5, <1>6, <1>7, NoneCounts

\* Nor is the dead message each transfer gets.
LEMMA ExitCounts ==
    ASSUME FilesTypeOK, NEW s \in Streams, Counted(s), Exit
    PROVE  Counted(s)'
<1>1. PICK m, ms : m = [kind |-> "dead", n |-> 0] /\ ms = [t \in Transfers |-> <<m>>]
  OBVIOUS
<1>2. /\ mux' = "exited" /\ chan' = Sent(ms)
      /\ UNCHANGED <<targets, fetches, acks, opened, jobs, unacked, size>>
  BY <1>1, Zenon DEF Exit
<1>3. m \in Message /\ m.kind # "chunk"
  BY <1>1 DEF Message
<1>4. ms \in [Transfers -> Seq(Message)]
  BY <1>1, <1>3
<1>5. \A u \in Transfers : ms[u] = <<>> \/ \E k \in Message : k.kind # "chunk" /\ ms[u] = <<k>>
  BY <1>1, <1>3
<1>6. Intact(s)' => Intact(s)
  BY <1>2 DEF Intact
<1>7. unacked' = unacked /\ acks' = acks
  BY <1>2
<1> QED
  BY <1>2, <1>4, <1>5, <1>6, <1>7, NoneCounts

\* transfer_file() takes what arrived: a chunk becomes an acknowledgement, unless the
\* multiplexer is past caring.
LEMMA ReceiveNextCounts ==
    ASSUME FilesTypeOK, NEW s \in Streams, Counted(s), NEW t \in Transfers, ReceiveNext(t)
    PROVE  Counted(s)'
<1>1. PICK c \in Contexts : c = ContextOf[t]
  BY FilesAssumption, QuotaIsPositive
<1>2. PICK q : q = chan[t]
  OBVIOUS
<1>3. /\ q # <<>> /\ chan' = [chan EXCEPT ![t] = Tail(q)]
      /\ dead' = dead /\ unacked' = unacked /\ mux' = mux
      /\ IF Head(q).kind = "chunk" /\ mux = "running" THEN acks' = [acks EXCEPT ![c] = @ + 1] ELSE acks' = acks
  BY <1>1, <1>2 DEF ReceiveNext
<1>4. /\ chan \in [Transfers -> Seq(Message)] /\ acks \in [Contexts -> Nat] /\ unacked \in [Keys -> 0..Quota]
      /\ q \in Seq(Message)
  BY <1>2 DEF FilesTypeOK
<1>5. chan'[t] = Tail(chan[t]) /\ \A u \in Transfers \ {t} : chan'[u] = chan[u]
  BY <1>2, <1>3, <1>4
<1>6. \A d \in Contexts \ {c} : acks'[d] = acks[d]
  BY <1>3, <1>4
<1>7. Intact(s)' => Intact(s)
  BY <1>3 DEF Intact
<1>8. CASE t \notin Sharing(s)
  <2>1. \A u \in Sharing(s) : chan'[u] = chan[u]
    BY <1>5, <1>8 DEF Sharing
  <2>2. \A u \in Sharing(s) : ChunksIn(chan'[u]) = ChunksIn(chan[u])
    BY <2>1
  <2>3. \A d \in ContextsOf(s) : acks'[d] = acks[d]
    BY <1>1, <1>6, <1>8 DEF ContextsOf, Sharing
  <2> QED
    BY <1>3, <1>4, <1>7, <2>2, <2>3, CountSame
<1>9. CASE t \in Sharing(s)
  <2>1. PICK A, B, C, D : /\ A = InFlight(Sharing(s), chan) /\ B = Confirming(ContextsOf(s), acks)
                          /\ C = InFlight(Sharing(s), chan') /\ D = Confirming(ContextsOf(s), acks')
    OBVIOUS
  <2>2. IsFiniteSet(A) /\ IsFiniteSet(B) /\ Cardinality(A) \in Nat /\ Cardinality(B) \in Nat
    BY <2>1, FS_CardinalityType DEF Counted
  <2>3. \A u \in Sharing(s) \ {t} : chan'[u] = chan[u]
    BY <1>5 DEF Sharing
  <2>4. IsFiniteSet(C) /\ Cardinality(C) = Cardinality(A) - (IF chan[t][1].kind = "chunk" THEN 1 ELSE 0)
    <3>1. IsFiniteSet(InFlight(Sharing(s), chan)) /\ chan[t] \in Seq(Message) /\ chan[t] # <<>>
      BY <1>2, <1>3, <1>4, <2>1, <2>2
    <3>2. /\ IsFiniteSet(InFlight(Sharing(s), chan'))
          /\ Cardinality(InFlight(Sharing(s), chan')) =
                 Cardinality(InFlight(Sharing(s), chan)) - (IF chan[t][1].kind = "chunk" THEN 1 ELSE 0)
      BY <1>5, <1>9, <2>3, <3>1, HeadTaken
    <3> QED
      BY <2>1, <3>2
  <2>5. q[1] = Head(q)
    BY <1>3, <1>4
  <2>6. c \in ContextsOf(s)
    BY <1>1, <1>9 DEF ContextsOf, Sharing
  <2>7. \A d \in ContextsOf(s) \ {c} : acks'[d] = acks[d]
    BY <1>6 DEF ContextsOf
  <2>8. CASE q[1].kind = "chunk" /\ mux = "running"
    <3>1. acks[c] \in Nat /\ acks'[c] = acks[c] + 1
      BY <1>3, <1>4, <2>5, <2>8
    <3>2. IsFiniteSet(D) /\ Cardinality(D) = Cardinality(B) + 1
      BY <2>1, <2>2, <2>6, <2>7, <3>1, ConfirmingMore
    <3>3. Cardinality(C) = Cardinality(A) - 1
      BY <1>2, <2>4, <2>8
    <3>4. /\ Cardinality(C) + Cardinality(D) = Cardinality(A) + Cardinality(B)
          /\ Cardinality(C) + Cardinality(D) <= Cardinality(A) + Cardinality(B)
      BY <2>2, <3>2, <3>3
    <3> QED
      BY <1>3, <1>4, <1>7, <2>1, <2>4, <3>2, <3>4, CountKept
  <2>9. CASE ~(q[1].kind = "chunk" /\ mux = "running")
    <3>1. D = B
      BY <1>3, <2>1, <2>5, <2>9
    <3>2. Cardinality(C) + Cardinality(D) <= Cardinality(A) + Cardinality(B)
      BY <2>2, <2>4, <3>1
    <3>3. mux = "running" => Cardinality(C) + Cardinality(D) = Cardinality(A) + Cardinality(B)
      BY <1>2, <2>2, <2>4, <2>9, <3>1
    <3>4. Intact(s)' => /\ Intact(s) /\ Cardinality(C) + Cardinality(D) = Cardinality(A) + Cardinality(B)
      BY <1>7, <3>3 DEF Intact
    <3> QED
      BY <1>3, <1>4, <2>1, <2>2, <2>4, <3>1, <3>2, <3>4, CountKept
  <2> QED
    BY <2>8, <2>9
<1> QED
  BY <1>8, <1>9

\* A stream's jobs are run, with as much room as what is acknowledged leaves.
LEMMA PendingCounts ==
    ASSUME FilesTypeOK, NEW s \in Keys, NEW js \in Seq(Jobs), Alone(js), NEW u \in 0..Quota,
           SchedulePending(s, js, u), \A i \in 1..Len(js) : Routed(js[i].t, s),
           dead' = dead, mux' = mux, NEW x \in Streams, Counted(x),
           IsFiniteSet(Confirming(ContextsOf(x), acks')),
           x = s => Cardinality(Confirming(ContextsOf(x), acks')) + unacked[x] =
                        Cardinality(Confirming(ContextsOf(x), acks)) + u,
           x # s => Cardinality(Confirming(ContextsOf(x), acks')) <= Cardinality(Confirming(ContextsOf(x), acks)),
           x # s /\ Intact(x) => Confirming(ContextsOf(x), acks') = Confirming(ContextsOf(x), acks)
    PROVE  Counted(x)'
<1>1. PICK a, b, c, d : /\ a = Cardinality(InFlight(Sharing(x), chan)) /\ b = Cardinality(Confirming(ContextsOf(x), acks))
                        /\ c = Cardinality(InFlight(Sharing(x), chan')) /\ d = Cardinality(Confirming(ContextsOf(x), acks'))
  OBVIOUS
<1>2. PICK A, C : A = InFlight(Sharing(x), chan) /\ C = InFlight(Sharing(x), chan')
  OBVIOUS
<1>3. /\ IsFiniteSet(C)
      /\ x # s => C = A /\ unacked'[x] = unacked[x]
      /\ x = s => c - a <= unacked'[x] - u /\ (Intact(x) => c - a = unacked'[x] - u)
  <2>1. IsFiniteSet(InFlight(Sharing(x), chan))
    BY DEF Counted
  <2>2. /\ IsFiniteSet(InFlight(Sharing(x), chan'))
        /\ x # s => /\ InFlight(Sharing(x), chan') = InFlight(Sharing(x), chan)
                    /\ unacked'[x] = unacked[x]
        /\ x = s => /\ Cardinality(InFlight(Sharing(x), chan')) - Cardinality(InFlight(Sharing(x), chan))
                           <= unacked'[x] - u
                    /\ Intact(x) =>
                         Cardinality(InFlight(Sharing(x), chan')) - Cardinality(InFlight(Sharing(x), chan))
                           = unacked'[x] - u
    BY <2>1, PendingPays
  <2> QED
    BY <1>1, <1>2, <2>2
<1>4. a \in Nat /\ b \in Nat /\ c \in Nat /\ d \in Nat /\ u \in Nat
  <2>1. Quota \in Nat
    BY FilesAssumption, QuotaIsPositive
  <2> QED
    BY <1>1, <1>2, <1>3, <2>1, FS_CardinalityType DEF Counted
<1>5. Unconfirmed(x) = a + b /\ Unconfirmed(x)' = c + d
  BY <1>1 DEF Unconfirmed, ContextsOf, Sharing
<1>6. PICK n \in Nat : n = unacked[x]
  BY FilesAssumption, QuotaIsPositive DEF FilesTypeOK, Keys
<1>7. PICK m \in Nat : m = unacked'[x]
  <2>1. \E kept \in Seq(Jobs) : PendingDone(s, js, kept)
    BY PendingEffect
  <2>2. unacked' \in [Keys -> 0..Quota]
    BY <2>1 DEF PendingDone
  <2> QED
    BY <2>2, FilesAssumption, QuotaIsPositive DEF Keys
<1>8. a + b <= n /\ (Intact(x) => a + b = n)
  BY <1>5, <1>6 DEF Counted
<1>9. Intact(x)' <=> Intact(x)
  BY DEF Intact
<1>10. c + d <= m /\ (Intact(x) => c + d = m)
  <2>1. CASE x = s
    <3>1. d + n = b + u /\ c - a <= m - u /\ (Intact(x) => c - a = m - u)
      BY <1>1, <1>3, <1>6, <1>7, <2>1
    <3>2. c + d <= m
      BY <1>4, <1>8, <3>1
    <3>3. Intact(x) => c + d = m
      BY <1>4, <1>8, <3>1
    <3> QED
      BY <3>2, <3>3
  <2>2. CASE x # s
    <3>1. c = a /\ m = n /\ d <= b /\ (Intact(x) => d = b)
      BY <1>1, <1>2, <1>3, <1>6, <1>7, <2>2
    <3> QED
      BY <1>4, <1>8, <3>1
  <2> QED
    BY <2>1, <2>2
<1>11. (Intact(x))' => (Unconfirmed(x))' = unacked'[x]
  BY <1>5, <1>7, <1>9, <1>10
<1> QED
  BY <1>2, <1>3, <1>5, <1>7, <1>10, <1>11 DEF Counted, ContextsOf, Sharing
\* The jobs stay with their streams while contexts die.
LEMMA SharedKept ==
    ASSUME FilesTypeOK, Shared, jobs' = jobs, dead \subseteq dead'
    PROVE  Shared'
<1>1. ASSUME NEW x \in Keys, NEW i \in 1..Len(jobs[x]) PROVE Routed(jobs[x][i].t, x)'
  <2>1. Routed(jobs[x][i].t, x)
    BY DEF Shared
  <2> QED
    BY <2>1 DEF Routed
<1> QED
  BY <1>1 DEF Shared

\* Those that are left of a stream's jobs are of that stream.
LEMMA PendingShared ==
    ASSUME FilesTypeOK, Shared, NEW s \in Keys, NEW js \in Seq(Jobs), Alone(js), NEW u \in 0..Quota,
           SchedulePending(s, js, u), \A i \in 1..Len(js) : Routed(js[i].t, s), dead' = dead
    PROVE  Shared'
<1>1. PICK kept \in Seq(Jobs) : PendingDone(s, js, kept)
  BY PendingEffect
<1>2. /\ jobs' = [jobs EXCEPT ![s] = kept] /\ jobs \in [Keys -> Seq(Jobs)]
      /\ \A l \in 1..Len(kept) : \E i \in 1..Len(js) : kept[l].t = js[i].t
  BY <1>1 DEF PendingDone, FilesTypeOK, Jobs
<1>3. ASSUME NEW x \in Keys, NEW i \in 1..Len(jobs'[x]) PROVE Routed(jobs[x][i].t, x)'
  <2>1. PICK t : t = jobs'[x][i].t
    OBVIOUS
  <2>2. CASE x = s
    <3>1. jobs'[x] = kept
      BY <1>2, <2>2
    <3>2. Routed(t, x)
      BY <1>2, <1>3, <2>1, <2>2, <3>1
    <3> QED
      BY <2>1, <3>2 DEF Routed
  <2>3. CASE x # s
    <3>1. jobs'[x] = jobs[x]
      BY <1>2, <2>3
    <3>2. Routed(t, x)
      BY <1>3, <2>1, <3>1 DEF Shared
    <3> QED
      BY <2>1, <3>2 DEF Routed
  <2> QED
    BY <2>2, <2>3
<1> QED
  BY <1>3 DEF Shared

\* fetch() adds its job to the stream its context is reached through now.
LEMMA ScheduleCounts ==
    ASSUME FilesInv, WindowInv, NEW t \in Transfers, Schedule(t)
    PROVE  WindowInv'
<1>1. ContextOf[t] \in Contexts
  BY FilesAssumption, QuotaIsPositive
<1>2. PICK s \in Keys : s = StreamNow(ContextOf[t])
  BY <1>1, StreamNowIsKey
<1>3. PICK j, js, old, u : j = [t |-> t, pos |-> 0] /\ js = Append(old, j) /\ old = jobs[s] /\ u = unacked[s]
  OBVIOUS
<1>4. /\ t \in opened /\ SchedulePending(s, js, u)
      /\ UNCHANGED <<targets, fetches, acks, mux, size>>
  BY <1>2, <1>3 DEF Schedule
<1>5. j \in Jobs /\ j.t = t
  BY <1>3 DEF Jobs
<1>6. old \in Seq(Jobs) /\ Alone(old) /\ \A i \in 1..Len(old) : old[i].t \notin opened
  <2>1. Runnable(jobs[s], s) /\ \A i \in 1..Len(jobs[s]) : jobs[s][i].t \notin opened
    BY JobsRunnable
  <2> QED
    BY <1>3, <2>1 DEF Runnable
<1>7. PICK n \in Nat : n = Len(old)
  BY <1>6
<1>8. /\ js \in Seq(Jobs) /\ Len(js) = n + 1 /\ js[n + 1] = j /\ \A i \in 1..n : js[i] = old[i]
  BY <1>3, <1>5, <1>6, <1>7
<1>9. \A i \in 1..(n + 1) : i \in 1..n \/ i = n + 1
  OBVIOUS
<1>10. Alone(js)
  <2>1. \A i \in 1..n : old[i].t # t
    BY <1>4, <1>6, <1>7
  <2> QED
    BY <1>5, <1>6, <1>7, <1>8, <1>9, <2>1 DEF Alone
<1>11. \A i \in 1..Len(js) : Routed(js[i].t, s)
  <2>1. Routed(t, s)
    BY <1>1, <1>2, FilesAssumption, QuotaIsPositive DEF Routed, StreamNow
  <2>2. \A i \in 1..n : Routed(old[i].t, s)
    BY <1>3, <1>7 DEF WindowInv, Shared
  <2> QED
    BY <1>5, <1>8, <1>9, <2>1, <2>2
<1>12. u \in 0..Quota
  BY <1>3 DEF FilesInv, FilesTypeOK
<1>13. FilesTypeOK /\ dead' = dead /\ mux' = mux /\ acks' = acks
  BY <1>4 DEF FilesInv, targets
<1>14. Shared'
  BY <1>4, <1>8, <1>10, <1>11, <1>12, <1>13, PendingShared DEF WindowInv
<1>15. ASSUME NEW x \in Streams PROVE Counted(x)'
  <2>1. Counted(x)
    BY DEF WindowInv
  <2>2. PICK B : B = Confirming(ContextsOf(x), acks)
    OBVIOUS
  <2>3. IsFiniteSet(B) /\ Cardinality(B) \in Nat
    BY <2>1, <2>2, FS_CardinalityType DEF Counted
  <2>4. Confirming(ContextsOf(x), acks') = B
    BY <1>13, <2>2
  <2>5. Cardinality(B) <= Cardinality(B) /\ (x = s => Cardinality(B) + unacked[x] = Cardinality(B) + u)
    BY <1>3, <2>3
  <2> QED
    BY <1>4, <1>8, <1>10, <1>11, <1>12, <1>13, <2>1, <2>2, <2>3, <2>4, <2>5, PendingCounts
<1> QED
  BY <1>14, <1>15 DEF WindowInv

\* acknowledge() gives the room of one chunk back, to the stream its caller is reached
\* through now: one that died gives none.
LEMMA AcknowledgeCounts ==
    ASSUME FilesInv, WindowInv, NEW c \in Contexts, Acknowledge(c)
    PROVE  WindowInv'
<1>1. PICK s \in Keys : s = StreamNow(c)
  BY StreamNowIsKey
<1>2. PICK js, u : js = jobs[s] /\ u = Credited(s)
  OBVIOUS
<1>3. /\ acks[c] > 0 /\ acks' = [acks EXCEPT ![c] = @ - 1] /\ SchedulePending(s, js, u)
      /\ UNCHANGED <<targets, fetches, opened, mux, size>>
  BY <1>1, <1>2 DEF Acknowledge
<1>4. unacked \in [Keys -> 0..Quota] /\ acks \in [Contexts -> Nat] /\ Quota \in Nat
  BY FilesAssumption, QuotaIsPositive DEF FilesInv, FilesTypeOK
<1>5. u \in 0..Quota
  BY <1>2, <1>4 DEF Credited
<1>6. js \in Seq(Jobs) /\ Alone(js)
  <2>1. Runnable(jobs[s], s)
    BY JobsRunnable
  <2> QED
    BY <1>2, <2>1 DEF Runnable
<1>7. \A i \in 1..Len(js) : Routed(js[i].t, s)
  BY <1>2 DEF WindowInv, Shared
<1>8. FilesTypeOK /\ dead' = dead /\ mux' = mux
  BY <1>3 DEF FilesInv, targets
<1>9. Shared'
  BY <1>3, <1>5, <1>6, <1>7, <1>8, PendingShared DEF WindowInv
<1>10. acks[c] \in Nat /\ acks'[c] = acks[c] - 1 /\ \A d \in Contexts \ {c} : acks'[d] = acks[d]
  BY <1>3, <1>4
<1>11. StreamOf[c] \in Streams /\ NoStream \notin Streams /\ (c \notin dead => s = StreamOf[c]) /\ (c \in dead => s = NoStream)
  BY <1>1, FilesAssumption, QuotaIsPositive DEF StreamNow
<1>12. ASSUME NEW x \in Streams PROVE Counted(x)'
  <2>1. Counted(x)
    BY DEF WindowInv
  <2>2. PICK B, D : B = Confirming(ContextsOf(x), acks) /\ D = Confirming(ContextsOf(x), acks')
    OBVIOUS
  <2>3. IsFiniteSet(B) /\ Cardinality(B) \in Nat
    BY <2>1, <2>2, FS_CardinalityType DEF Counted
  <2>4. CASE c \notin ContextsOf(x)
    <3>1. D = B
      <4>1. \A d \in ContextsOf(x) : acks'[d] = acks[d]
        BY <1>10, <2>4 DEF ContextsOf
      <4> QED
        BY <2>2, <4>1, ConfirmingSame
    <3>2. x # s
      BY <1>11, <2>4 DEF ContextsOf
    <3>3. Cardinality(D) <= Cardinality(B)
      BY <2>3, <3>1
    <3> QED
      BY <1>3, <1>5, <1>6, <1>7, <1>8, <2>1, <2>2, <2>3, <3>1, <3>2, <3>3, PendingCounts
  <2>5. CASE c \in ContextsOf(x)
    <3>1. IsFiniteSet(D) /\ Cardinality(D) = Cardinality(B) - 1
      <4>1. \A d \in ContextsOf(x) \ {c} : acks'[d] = acks[d]
        BY <1>10 DEF ContextsOf
      <4>2. acks[c] \in Nat /\ acks[c] > 0 /\ acks'[c] = acks[c] - 1
        BY <1>3, <1>10
      <4>3. IsFiniteSet(Confirming(ContextsOf(x), acks))
        BY <2>2, <2>3
      <4> QED
        BY <2>2, <2>5, <4>1, <4>2, <4>3, ConfirmingLess
    <3>2. Cardinality(D) \in Nat /\ Cardinality(D) <= Cardinality(B)
      BY <2>3, <3>1, FS_CardinalityType
    <3>3. CASE c \in dead
      <4>1. x # s /\ ~Intact(x)
        BY <1>11, <2>5, <3>3 DEF Intact, ContextsOf
      <4> QED
        BY <1>3, <1>5, <1>6, <1>7, <1>8, <2>1, <2>2, <2>3, <3>1, <3>2, <4>1, PendingCounts
    <3>4. CASE c \notin dead
      <4>1. x = s
        BY <1>11, <2>5, <3>4 DEF ContextsOf
      <4>2. PICK a : a = Cardinality(InFlight(Sharing(x), chan))
        OBVIOUS
      <4>3. a \in Nat
        BY <2>1, <4>2, FS_CardinalityType DEF Counted
      <4>4. a + Cardinality(B) <= unacked[x]
        BY <2>1, <2>2, <4>2 DEF Counted, Unconfirmed, ContextsOf
      <4>5. unacked[x] \in Nat
        BY <1>4 DEF Keys
      <4>6. Cardinality(B) >= 1
        BY <2>3, <3>1, <3>2
      <4>7. u = unacked[x] - 1
        BY <1>2, <2>3, <4>1, <4>3, <4>4, <4>5, <4>6 DEF Credited
      <4>8. Cardinality(D) + unacked[x] = Cardinality(B) + u
        BY <2>3, <3>1, <4>5, <4>7
      <4> QED
        BY <1>3, <1>5, <1>6, <1>7, <1>8, <2>1, <2>2, <2>3, <3>1, <4>1, <4>8, PendingCounts
    <3> QED
      BY <3>3, <3>4
  <2> QED
    BY <2>4, <2>5
<1> QED
  BY <1>9, <1>12 DEF WindowInv

\* What changes no queue, no window and nothing on its way.
LEMMA RestCounts ==
    ASSUME FilesTypeOK, WindowInv, chan' = chan, acks' = acks, unacked' = unacked, dead' = dead,
           jobs' = jobs \/ jobs' = [s \in Keys |-> <<>>], mux' = mux \/ mux' # "running"
    PROVE  WindowInv'
<1>1. Shared'
  <2>1. CASE jobs' = jobs
    BY <2>1, SharedKept DEF WindowInv
  <2>2. CASE jobs' = [s \in Keys |-> <<>>]
    BY <2>2 DEF Shared
  <2> QED
    BY <2>1, <2>2
<1>2. ASSUME NEW s \in Streams PROVE Counted(s)'
  <2>1. Counted(s) /\ unacked \in [Keys -> 0..Quota] /\ (Intact(s)' => Intact(s))
    BY DEF WindowInv, FilesTypeOK, Intact
  <2>2. /\ \A c \in ContextsOf(s) : acks'[c] = acks[c]
        /\ \A t \in Sharing(s) : ChunksIn(chan'[t]) = ChunksIn(chan[t])
    OBVIOUS
  <2> QED
    BY <2>1, <2>2, CountSame
<1> QED
  BY <1>1, <1>2 DEF WindowInv

\* Every step keeps the count.
LEMMA WindowKept == ASSUME FilesInv, WindowInv, [FilesNext]_filesVars PROVE WindowInv'
<1>1. FilesTypeOK /\ \A s \in Streams : Counted(s)
  BY DEF FilesInv, WindowInv
<1>2. ASSUME NEW t \in Transfers, TransferFile(t) \/ Change(t) PROVE WindowInv'
  BY <1>1, <1>2, RestCounts DEF TransferFile, Change, targets
<1>3. ASSUME NEW t \in Transfers, ReceiveNext(t) PROVE WindowInv'
  <2>1. jobs' = jobs /\ dead \subseteq dead'
    BY <1>3 DEF ReceiveNext
  <2>2. Shared'
    BY <1>1, <2>1, SharedKept DEF WindowInv
  <2> QED
    BY <1>1, <1>3, <2>2, ReceiveNextCounts DEF WindowInv
<1>4. ASSUME NEW t \in Transfers, Fetch(t) PROVE WindowInv'
  <2>1. jobs' = jobs /\ dead \subseteq dead'
    BY <1>4 DEF Fetch, targets
  <2>2. Shared'
    BY <1>1, <2>1, SharedKept DEF WindowInv
  <2> QED
    BY <1>1, <1>4, <2>2, FetchCounts DEF WindowInv
<1>5. ASSUME NEW cs \in SUBSET Contexts, Gone(cs) PROVE WindowInv'
  <2>1. jobs' = jobs /\ dead \subseteq dead'
    BY <1>5 DEF Gone
  <2>2. Shared'
    BY <1>1, <2>1, SharedKept DEF WindowInv
  <2> QED
    BY <1>1, <1>5, <2>2, GoneCounts DEF WindowInv
<1>6. ASSUME NEW c \in Contexts, Die(c) \/ Kill(c) PROVE WindowInv'
  <2>1. Gone({c}) /\ {c} \in SUBSET Contexts
    BY <1>6 DEF Die, Kill
  <2> QED
    BY <1>5, <2>1
<1>7. ASSUME NEW s \in Streams, Lose(s) PROVE WindowInv'
  <2>1. PICK cs : cs = {c \in Contexts : StreamOf[c] = s}
    OBVIOUS
  <2>2. Gone(cs) /\ cs \in SUBSET Contexts
    BY <1>7, <2>1 DEF Lose
  <2> QED
    BY <1>5, <2>2
<1>8. ASSUME StopPool PROVE WindowInv'
  <2>1. jobs' = jobs /\ dead \subseteq dead'
    BY <1>8 DEF StopPool, targets
  <2>2. Shared'
    BY <1>1, <2>1, SharedKept DEF WindowInv
  <2> QED
    BY <1>1, <1>8, <2>2, StopPoolCounts DEF WindowInv
<1>9. ASSUME Exit PROVE WindowInv'
  <2>1. jobs' = jobs /\ dead \subseteq dead'
    BY <1>9 DEF Exit, targets
  <2>2. Shared'
    BY <1>1, <2>1, SharedKept DEF WindowInv
  <2> QED
    BY <1>1, <1>9, <2>2, ExitCounts DEF WindowInv
<1>10. ASSUME Join PROVE WindowInv'
  BY <1>1, <1>10, RestCounts DEF Join, targets
<1>11. ASSUME UNCHANGED filesVars PROVE WindowInv'
  BY <1>1, <1>11, RestCounts DEF filesVars, targets
<1>12. ASSUME FilesPoolStep PROVE WindowInv'
  BY <1>4, <1>12, ScheduleCounts, AcknowledgeCounts DEF FilesPoolStep
<1> QED
  BY <1>2, <1>3, <1>6, <1>7, <1>8, <1>9, <1>10, <1>11, <1>12 DEF FilesNext

\* Nothing is on its way yet.
LEMMA WindowBegins == ASSUME FilesInit PROVE WindowInv
<1>1. /\ chan = [t \in Transfers |-> <<>>] /\ acks = [c \in Contexts |-> 0]
      /\ jobs = [s \in Keys |-> <<>>] /\ unacked = [s \in Keys |-> 0]
  BY DEF FilesInit
<1>2. Shared
  BY <1>1 DEF Shared
<1>3. ASSUME NEW s \in Streams PROVE Counted(s)
  <2>1. \A t \in Sharing(s) : ChunksIn(chan[t]) = {}
    <3>1. 1..0 = {}
      OBVIOUS
    <3> QED
      BY <1>1, <3>1 DEF Sharing, ChunksIn
  <2>2. InFlight(Sharing(s), chan) = {}
    <3>1. ASSUME NEW x \in InFlight(Sharing(s), chan) PROVE FALSE
      <4>1. PICK t \in Sharing(s) : \E i \in ChunksIn(chan[t]) : x = <<t, i>>
        BY InFlightIs
      <4> QED
        BY <2>1, <4>1
    <3> QED
      BY <3>1
  <2>3. Confirming(ContextsOf(s), acks) = {}
    <3>1. \A c \in ContextsOf(s) : acks[c] = 0
      BY <1>1 DEF ContextsOf
    <3> QED
      BY <3>1, ConfirmingNone
  <2>4. unacked[s] = 0
    BY <1>1 DEF Keys
  <2>5. PICK A, B : A = InFlight(Sharing(s), chan) /\ B = Confirming(ContextsOf(s), acks)
    OBVIOUS
  <2>6. IsFiniteSet(A) /\ IsFiniteSet(B) /\ Cardinality(A) = 0 /\ Cardinality(B) = 0
    BY <2>2, <2>3, <2>5, FS_EmptySet
  <2>7. Unconfirmed(s) = 0
    <3>1. Unconfirmed(s) = Cardinality(A) + Cardinality(B)
      BY <2>5 DEF Unconfirmed, ContextsOf
    <3> QED
      BY <2>6, <3>1
  <2> QED
    BY <2>4, <2>5, <2>6, <2>7 DEF Counted
<1> QED
  BY <1>2, <1>3 DEF WindowInv

\* "each stream never has excessive data buffered" (service.py:804): the chunks on their
\* way through a stream and the acknowledgements of those that arrived go past the window
\* by less than one chunk, for any window and size of chunk, however many contexts share
\* the stream and whoever dies, and are what the service counts while no context of the
\* stream has died, so that no room is lost.
THEOREM WindowIsAccounted == FilesSpec => []WindowAccounted
<1>1. FilesInit => WindowInv
  BY WindowBegins
<1>2. WindowInv /\ FilesInv /\ [FilesNext]_filesVars => WindowInv'
  BY WindowKept
<1>3. WindowInv /\ FilesInv => WindowAccounted
  <2> SUFFICES ASSUME WindowInv, FilesInv, NEW s \in Streams
               PROVE  /\ Unconfirmed(s) <= unacked[s]
                      /\ (unacked[s] - 1) * ChunkSize < Window
                      /\ Intact(s) => Unconfirmed(s) = unacked[s]
    BY DEF WindowAccounted
  <2>1. Counted(s)
    BY DEF WindowInv
  <2>2. unacked[s] \in 0..Quota
    BY DEF FilesInv, FilesTypeOK, Keys
  <2> QED
    BY <2>1, <2>2, QuotaBound DEF Counted
<1> QED
  BY <1>1, <1>2, <1>3, FilesInvariance, PTL DEF FilesSpec

=============================================================================
