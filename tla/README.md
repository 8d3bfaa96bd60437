# Mitogen: TLA+ models, model checking and proofs

Mitogen runs Python code in trees of processes ("contexts") connected by pipes,
sockets and ssh sessions. This directory models the parts of it that are hard to
test: threads that share state with the I/O thread, shutdown, messages that
cross processes which appear and die, and what Ansible builds on them
(`src/ansible_mitogen`). Paths below are relative to `src/mitogen` unless they
begin with `ansible_mitogen`.

## 1. The system

Every process runs one *broker thread* that does all I/O, and any number of
*user threads*. The library's objects, with their state, operations and what
makes them correct:

| Component | State | Operations | Correct when |
|---|---|---|---|
| `core.Latch` | `_queue`, `_sleeping`, `_waking`, idle socketpairs (class-wide), `closed` | `get`, `put`, `close` from any thread | no lost or doubled wake-up, no lost item, first come first served, its assertions hold |
| `core.Waker`, `core.Broker`, `core.Poller` | deque of deferred functions, self-pipe; `_alive`, `_exitted`; registered descriptors with generations | `defer` from any thread; poll rounds, shutdown, grace period, exit on the broker thread | a deferred function runs, an event reaches the stream it was polled for, shutdown terminates with every stream disconnected unless an exception cuts the exit short |
| `core.Router` (handles) | `_handle_map`, `_handles_by_respondent`, `disconnect` listeners | `add_handler`, `del_handler` from any thread; `_invoke`, `_on_respondent_disconnect`, `_on_broker_exit` on the broker thread | at most one message for a one-shot handle; a handle whose respondent is gone gets a dead message |
| `core.Router` (routes), `parent.RouteMonitor` | `_stream_by_id`, `_routes_by_stream`, `egress_ids` per stream | `_async_route`, `register`, `_on_add_route`, `_on_del_route`, stream disconnection | routes match the tree once traffic settles; nobody is told falsely that a context is gone; no caller waits for ever |
| `core.Receiver`, `core.Sender`, `core.Message` | a Latch and a handle | `get`, `close`, `reply` | see Latch and handles |
| `core.Stream`, `Protocol`, `Side`, `BufferedWriter` | descriptors, output queue | read, write, disconnect | no write to a descriptor somebody else owns; output is sent in order or lost as a suffix |
| `core.Dispatcher`, `parent.CallChain` | errors per chain, call receiver | `CALL_FUNCTION` one at a time on the main thread | after a failed call of a pipelined chain no other runs until `reset()` |
| `select.Select` | member receivers, a Latch | `add`, `remove`, `get_event` | an element of a member is announced at least once |
| `service.Pool` and invokers | workers, services, queues of requests | take over the stub receiver, dispatch, `stop` | a request is served once; `stop` returns |
| `service.FileService`, `PushFileService` | pending chunks, waiters per path | `fetch`, `acknowledge`, `propagate_to` | files arrive whole and in order, in-flight data is bounded |
| `core.Importer`, `parent.ModuleForwarder`, `master.ModuleResponder` | module cache, callbacks, `sent_modules` per stream | `GET_MODULE`, `LOAD_MODULE`, `FORWARD_MODULE` | one request in flight per module, every waiter is called back, nothing is sent twice |
| `parent.Connection`, `Reaper`, `TimerList` | connection attempt, its timer, child process | handshake, timeout, disconnects, reaping | `connect()` is answered once; no child is left behind |
| `master.IdAllocator`, `parent.ChildIdAllocator` | next ID, local block | `allocate`, `allocate_block` | IDs are unique in the tree |
| `core.ExternalContext.main`, `parent.create_child` and its like | descriptors of a new process | the two bootstrap stages, `_setup_stdio`, forks | each end is where it is looked for; nothing else is kept open, but pollers' descriptors across a fork |
| `core.Poller`, `parent.PollPoller`, `EpollPoller`, `KqueuePoller` | two tables, the kernel's masks | `start_*`, `stop_*`, `poll` | what is watched and ready is yielded, once, and nothing that was taken away |
| `master.ModuleFinder` | sys.modules, what is on disk | `get_module_source`, `find_related` | it serves what was asked for, and names what that imports |
| `ansible_mitogen.services.ContextService` | contexts by key, references, waiters | `get`, `put`, disconnects | a connection is made once, reused while it lives, shut down when unreferenced |
| `ansible_mitogen.connection`, `transport_config` | an inventory, a task's options | `_build_stack` | the stack leads to the account the task is for; equal ways are equal |
| `ansible_mitogen.planner`, `target`, `runner` | a patched process, forked children, job files | `invoke`, `setup`, `revert`, `AsyncRunner` | what was patched is put back, children end, the job file precedes what is told |
| `ansible_mitogen.module_finder`, `ModuleDepService`, `ModuleUtilsImporter` | directories, what is imported | `scan`, `should_fork`, imports | a module runs with the utilities that were found for it |
| `ansible_mitogen.runner` environments | `os.environ`, keys of each file | `check`, `_setup_environ`, `revert` | a task sees the files and its own environment, nobody else's |

Interactions: user threads reach the broker thread only through `Waker.defer()`
and through state that the GIL or a lock protects; the broker thread reaches
them through Latches. Components call each other back through `fire()` and
`listen()`: a stream's `disconnect` removes routes, which fires `disconnect` on
contexts, which makes the Router send dead messages to handles, which puts them
in Latches. Contexts exchange messages over FIFO streams. Ansible's workers call
services in one multiplexer process, which connects to targets, sends them modules
and files, and calls functions there that run Ansible modules.

What is hard: code outside locks (`Latch._wake`, `add_handler`), callbacks that
raise, shutdown in the middle of anything, descriptors reused at once by the
kernel, end-of-file and control messages that pass each other in the tree.
`PROJECT.json` lists these hazards at their lines.

## 2. Modules

There are two kinds of module. Those with VARIABLES are state machines, one action
per handler, call or step. The others (Pollers, Bootstrap, Finder, Stacks, Ids,
Dependencies, Environment) define what sequential code computes as functions of a
*world* `w`, a record of everything it reads; their MC modules enumerate worlds, and
state what holds of all of them in the initial state of the component they belong to.

| Module | Models | Composition |
|---|---|---|
| `Latch` | `core.Latch` | |
| `HandOff` | what a Latch promises: a first-come first-served hand-off without sockets, cookies, counters | |
| `LatchRefinement` | the mapping from Latch to HandOff | `INSTANCE HandOff WITH ...` |
| `LatchProofs` | theorems about Latch; Latch implements HandOff | extends `LatchRefinement` |
| `Broker` | `core.Broker`, `Waker`, `Poller` | |
| `BrokerProofs` | theorems about Broker | extends `Broker` |
| `Pollers` | the tables of `core.Poller` and `parent`'s pollers, what they ask of the kernel | in MCBroker |
| `Handles` | `core.Router`'s handles, `Context.send_async`, `Receiver.close`, `Broker._call` | stands on the promises of Latch (a Receiver is a queue) and Broker (a deferred function runs) |
| `HandlesProofs` | theorems about Handles | extends `Handles` |
| `Routing` | `core.Router`'s routes, `parent.RouteMonitor`, over a tree of contexts | stands on Handles for what a dead message does at the caller |
| `RoutingProofs` | theorems about Routing | extends `Routing` |
| `Ids` | `master.IdAllocator`, `parent.ChildIdAllocator` | in MCRouting |
| `Calls` | `core.Dispatcher`, `parent.CallChain` | stands on Handles for the dead messages of a disconnection |
| `Services` | the Dispatcher's stub, `service.get_or_create_pool`, `Pool`, invokers, `select.Select` | its queues are Latches, used as `HandOff` promises |
| `ServicesProofs` | theorems about Services and Files | extends `Services`, `Files` |
| `Imports` | `core.Importer`, `ResourceRequester`, `parent`'s forwarders, `master`'s responders | stands on Routing for `stream_by_id` |
| `ImportsProofs` | theorems about Imports | extends `Imports` |
| `Finder` | `master.ModuleFinder` | in MCImports, where an ASSUME ties what Imports is given to what Finder computes |
| `Connecting` | `parent.Connection`, `Reaper`, the prompts of `ssh`, `su`, `sudo`, `doas` | |
| `ParentProofs` | theorems about Calls and Connecting | extends `Calls`, `Connecting` |
| `Bootstrap` | `create_child` and its like, the first stage, `ExternalContext.main`'s descriptors, forks | in MCConnecting |
| `Files` | `service.FileService`, `ansible_mitogen.target.transfer_file` | stands on Routing for deaths and `stream_by_id` |
| `Pushes` | `service.PushFileService` in every context | |
| `Tasks` | `ansible_mitogen.planner.invoke`, `runner.Runner`, `target.AsyncRunner` | extends `Pushes`: a task waits for its files |
| `Contexts` | `ansible_mitogen.services.ContextService` and its callers in `connection` | stands on Services: its methods run on the pool |
| `AnsibleProofs` | theorems about Contexts and Tasks | extends `Contexts`, `Tasks` |
| `Stacks` | `ansible_mitogen.connection._build_stack`, `transport_config` | in MCContexts, where an ASSUME ties the stacks of Contexts to those Stacks builds |
| `Dependencies` | `ansible_mitogen.module_finder`, `ModuleDepService`, `ModuleUtilsImporter`, `should_fork` | in MCTasks |
| `Environment` | `EnvironmentFileWatcher`, `TemporaryEnvironment` | in MCTasks |
| `MC*` | instances of the above for TLC | |

Three modules of proofs are about two components each. There what belongs to Connecting,
Files, Pushes or Tasks carries the name of its module (`FilesSpec`, `TasksTypeOK`).

### Latch
Variables carry the names of the attributes; `pc[t]` is where a thread is in
`get()` or `put()`, `entry[t]` its locals. A critical section is one action:
`GetClosed`, `GetSpare`, `GetNoBlock` and `GetSleep` are the ways out of the one
in `get()`; `Resume` is the one after `poll()`, with `Verdict` the tests in the
code's order; `Put` and `Close` are those of the writers. `poll()` and
`_wake()` are actions of their own, because they run outside the lock.
A socketpair is a list of unread cookies. `abandoned` is a history variable: it
becomes true when a thread leaves a wait that was assigned an element without
taking it (a timeout that expires between `put()`'s critical section and its
write; CTRL+C).

### Broker
`phase` is where the broker thread is in `_broker_main()`; `ready` what the
current `poll()` has yet to yield; `born` the registrations of the current
generation. `defer()` is three actions (`Call`, `Enqueue`, `Wake`), the points at
which another thread can run. A deferred function raises, opens a stream, closes
one or is `shutdown()`'s. Only receive sides are modelled; a stream's handler may
do nothing, open a stream, shut the broker down or disconnect a stream. Listeners of `disconnect` of
the streams in `Raising` raise: in the loop, in the shutdown and its grace period that is
`Crash`, after which the broker exits; in `_broker_exit()`, which has no `try`, it is
`ListenerRaises`, and the exit ends there (`phase = "aborted"`).

### Handles
One action per access to `_handle_map`, `_handles_by_respondent` or a set in it.
`ref[h]` tells which set object a thread holds between looking it up and
changing it: the one in the index, the one the broker thread popped and walks, or
an orphan. `CheckRespondent` is the test for the respondent's set and `CreateSet` the assignment
that follows it, so that a second thread may replace a set that has a handle in it. Exceptions go
where the code sends them: a `KeyError` in
`del_handler()` under `_invoke()` disconnects the stream (`Broker._call`) or
shuts the broker down (`Waker.on_receive`); one in a listener ends the
notification. `missed` lists the handles that were left out of a set or of a walk.

### Routing
`table[n]` is `_stream_by_id` in context `n`, `learned` its RouteMonitor's
`_routes_by_stream`, `egress` the `egress_ids` of its streams, `chan` the bytes in
flight. A handler runs on the broker thread of its process and is one action with
everything it writes. A context dies at any point: what was written to it is
lost, and so is any suffix of what it wrote. A child that reads end-of-file from
its parent dies; a parent withdraws the child's routes. A context that is not
yet upgraded to a parent has the stub `Router._on_del_route` (core.py:3276),
which does what `OnDelRoute` does in a leaf. The order in which
`_on_stream_disconnect` reports lost routes is that of a Python set; the model
fixes one, and reports for different contexts do not interact. `Lineage(t)` is a context
and those between it and the master: the least set that has `t` and, with a context, its
parent.

### Calls
A thread makes the calls of `Script[c]` in order; `by` is the method it uses, `does`
what happens in the target. `sent` and `replies` are a stream's two directions,
`inbox` the Dispatcher's Receiver. `Take` is `_dispatch_one()`: parse, look for an
earlier exception of the chain, call, record. `error` is `_error_by_chain_id`, with
`forget_chain()` dispatched as a call without a chain ID, as `reset()` sends it.
`Expected` is the reference: what the chain would get if no other chain existed.

### Services
`waiting` and `notify` are the queues and hooks of the two Receivers of
`CALL_SERVICE`, `events` the Select's queue. The broker thread delivers a request in
four actions (`Receive` reads the handle map, `Put`, then the two reads of the hook);
the main thread's constructor (`main`) takes the handle over, installs hooks and
announces what is queued, one access at a time. Workers go through the Select, the
Receiver, `get_invoker()` with its lock, and the invoker; `invokers[s]` is the
history of one entry of `_invoker_by_name`. `stage` is how far `Pool.stop()` is, which
runs on the broker thread inside the `shutdown` signal, so that while `bpc = "stop"`
nothing is delivered. `Fetched` and `Calling` tell where a worker depends on the
broker thread. A worker that leaves `get_event()` by an exception is `exited`,
whichever exception it was.

### Pollers
Each class keeps `_rfds` and `_wfds` and tells its kernel about a change in its own
way: `Update`, `Control`, `Filter`. `poll()` is what the kernel reports, then the
handler of the first event changes the poller, then the rest is yielded if the table
still has it with the generation it was polled in.

### Imports
Every handler is one action: `Import` is `find_module()` up to the wait, `Execute`
`load_module()`, `RootGet` the responder with the related modules it adds, `ForwarderGet` and
`OnLoad` the forwarder's, `Push` and `OnForward` those of `FORWARD_MODULE`. `callbacks`
holds the threads and the children's requests that wait; `sent` is `sent_modules`. A context
dies with what it wrote; its parent's stream goes, its children lose their parent.
`Failing` items are those whose lookup raises: a module's lookup is caught, a
resource's is not, and such a request is never answered. `Lineage` is defined as in Routing,
and `Pushed` goes along a module's path, one answer after the other.

### Connecting
The broker thread runs one handler at a time: `Hear` handles a line of the buffer it
read (`hand`), so that the second line of a buffer is handled although the first
closed its stream; `FireOne` calls one listener of `shutdown`, walking the live list
as `fire()` does. `Fail` is `_fail_connection()` with all it closes. `Expire` is the
timer. `ReapAgain` polls, signals, and gives up as `Reaper.reap()` does, with its three
thresholds as constants.

### Bootstrap, Ids, Finder
Bootstrap follows descriptors by number through `dup2()` and `close()`, for every way of
creating a child, failing at every step, and for processes that fork again; parent,
first stage and main share pipes with one reader and one writer each and wait for each
other, so that every schedule has one outcome. `Upgraded` is the poller a context makes before it
can fork: epoll has a descriptor that no `Side` knows and that a forked child inherits; a kqueue is not
inherited by `fork(2)`, and poll and select have none, hence `w.epoll`. Ids is a sequence of allocations by the
master and by children, whose locks make them one at a time; replies may be lost.
Finder follows the finder methods in their order over what `sys.modules`, `__spec__`
and the disk say of a name, on Pythons before and after 3.4.

### Files, Pushes, Tasks
A file in Files is a number of chunks, a short last one counting as whole; the window is in bytes and
a chunk has `ChunkSize` of them, as the window of 1 MiB is no multiple of `IO_SIZE`, 131072 - 26:
`Quota` is how many chunks the loop sends before the test of the window stops it.
`Fetch` replies, `Schedule` takes the stream's lock
and pumps, `Acknowledge` moves the window and pumps; `Pumped` serves the jobs of the stream one
after the other, each with the room the ones before it left. `Finish` is the rest of `transfer_file()`, where
the target may refuse the mode, the owner, the name or the times (`Reluctant`). In Pushes the pool threads of a
context take requests in any order (`inbox` is a set), and `NoteSent` is the
`sent.add(path)` that follows sending without a lock. Tasks adds the worker's
`invoke()`, `setup()` layer by layer (`Patch`, `saved`), of which it may have done any part when it
raises (`Unfinished`), `revert()`, which may raise half-way (`Halfway`) and never
puts back what is in `Lasting`, sys.meta_path and `__main__`; the child that is
shut down, or is not when the job's directory cannot be made (stage `"refused"`);
and for asynchronous tasks the three steps of `_update()` with the SIGALRM
handler between any two of them.

### Contexts, Stacks
`WaitOrStart`, `UpdateLru`, `Produce` and `Put` are critical sections of the service's
lock; `Record`, `Refer`, `Store` and `AddRefs` run outside it and are cut where the broker thread's
`Fire` or another thread may come between. A key is a configuration and a `via` context.
`early` is a history variable: contexts that were forgotten while one of their key
was being made or recorded; the promises are weaker for those. Stacks takes what
Ansible's plug-ins made of the variables as given and follows what
`connection.py` does with it.

### Dependencies, Environment
Dependencies takes directories that shadow each other and two tasks for one host:
`Scan` and `ScanImp` are the two scanners, `ShouldFork` decides where the module runs,
`SetUp` and `Import` which utilities it gets there. Environment is three tasks, two files,
a `stat()` that may miss a change or report one that is none, and a module that leaves
its own changes. Values of None are enumerated too; a key that is in both files is followed by the
watchers, and the reference (`Around`) leaves it out.

## 3. Runs

| Run | Question | Bounds | Result |
|---|---|---|---|
| `latch` | wake-ups, items, order; refinement of HandOff | 3 threads (1 with a timeout), 1 latch, 2 items, 4 socketpairs, 1 CTRL+C | holds |
| `broker` | wake-ups, stale events, shutdown; what each poller yields | 2 user threads, 4 calls, 2 streams on 1 descriptor, a pipe of 1 byte; pollers with 2 descriptors | holds |
| `handles` | one answer, and always an answer | 3 handles of 1 context, one persistent, one closed early | holds |
| `routing` | routes, false alarms, lost requests; unique IDs | 5 contexts, 4 levels and 2 branches, 3 deaths, 2 requests | holds |
| `calls` | chains as if alone, reset, no caller forgotten | 3 chains (2 pipelined) of 2 contexts, 9 calls | holds |
| `services` | hand-over to the pool, one answer, one runner, `stop()` | 3 requests, 2 services (1 serialized), 2 workers | holds |
| `imports` | requests and waiters, records of what was sent; what ModuleFinder serves | a chain of 4 contexts, 4 threads with up to 2 imports each, 6 items, 1 push, 1 death | holds |
| `contexts` | one connection for all, nothing stale, recycling; where stacks lead | 3 workers, 2 stacks of 2 hops, room for 1 interpreter, 3 connections, 1 loss | holds |
| `contexts_login` | is `login_context` the login account? | 1 worker that becomes the user it logs in as | violated |
| `connecting` | first cause, nothing left behind, everybody answered; descriptors | 5 attempts one after the other (local, ssh, ssh in batch mode, su, sudo), reaper thresholds 1, 2, 2: it gives up at the poll after SIGKILL | holds |
| `files` | whole files, the window, no stalled transfer | 3 transfers to 2 contexts of 1 stream, window of 3 bytes, chunks of 2, 1 death, 1 shutdown | holds |
| `tasks` | reverts, job files, children; utilities and environment of a task | 3 playbooks of up to 3 tasks, a tree of 5 contexts, 1 file | holds |

Why the bounds are enough:

- *Latch*: one thread that sleeps, one that is being woken, one that writes, and enough
  socketpairs for each of them plus one left behind. *Broker*: a descriptor that is reused within a
  round, a pipe that is full. *Handles*: a thread that creates the respondent's set, one
  that finds it, one that closes. *Routing*: an intermediary between two that fail,
  a request across branches in each direction. *Calls*: a call in flight behind one that
  fails, on a chain with and one without an ID. *Services*: requests queued before, during
  and after the hand-over, two of them for one invoker, a worker to spare.
- *Imports*: two forwarders between master and target, so that a `FORWARD_MODULE` has an
  intermediary that has the module and one that lacks it; two threads that want the same
  module in one context, one in its child, a module that is related to two others, one that fails,
  one that is absent, one that is blocked and a resource.
- *Contexts*: two workers with one stack and a third that competes for the only interpreter, so that recycling
  meets a use; a loss at any moment; w1 and w2 are exchanged by symmetry (the run
  has safety properties only).
- *Connecting*: attempts share only the broker's listeners and phase, so that one attempt at a time
  meets every timer, prompt and shutdown; `ConnectingShutdown.cfg` has two. A child that
  ignores SIGTERM, one that detaches, one that is reaped at each threshold.
- *Files*: more chunks than the window, which is no multiple of a chunk; two contexts that share it,
  a file that shrinks, a path that is refused, a target that refuses the mode.
  *Tasks*: each way of running a module after each other in a
  process, with a file that takes two hops.
- The modules over worlds say in their MC module what is enumerated: every way to create a child
  with every failure (Bootstrap), twelve kinds of modules with 3 × 3 × 3 import lists
  on two generations of Python (Finder), hosts reached directly, through one or two others, in
  circles and through none (Stacks), two directories that shadow each other (Dependencies),
  three tasks between changes of two files (Environment), trees of two children with answers
  that are lost (Ids).

`MaxInterrupts`, `MaxDeaths`, `MaxLosses`, `MaxGets` and `Attempts` are the only counters that had to be
bounded. Deadlock is not checked: in every instance the finite supply of items, calls or
requests runs out and the system rightly stops; termination is stated as
liveness instead. `TypeOK` of a module costs a property of a run and would say little
there: it is proved for every state machine that stands for code (section 4), and HandOff's
documents its variables; it holds on each instance and can be added to its cfg.

*What the passing runs show.*

- `NoAssertFailure`, `NoStarvedWaiter`: until a wait is abandoned no assertion fails and no
  wake-up is lost. `Conservation`: no item is lost or delivered twice even after that.
  `ImplementsHandOff`: until then a Latch is first come, first served.
- `WakeupPending`, `DeferredRuns`: the self-pipe never forgets a
  function while the broker is alive. `NoStaleEvent`, `KeepsItsPromise`: generations protect
  reused descriptors, and each poller yields what is watched and ready, whatever handlers do.
  `ShutdownCompletes`: whatever crashes before the exit, shutdown ends with no stream open,
  unless a listener or handler that raises cuts the exit short; then what is open is what the
  exit had not come to.
- `AtMostOneReply`, `LostRequestsAreAnswered`: reply, disconnection and exit do not
  both reach a receiver, and one of them does unless that very handle was left out: of the set,
  by a thread that replaced it or added to one that is being walked, or of the walk, by an exception.
- `RoutesExactWhenQuiet`, `NoFalseAlarm`, `RequestsSettle`: the route protocol leaves no stale
  route, raises no false alarm, forgets no caller. `UniqueIds`: no ID is given out twice,
  whoever allocates and whichever answers are lost.
- `ChainsAreIndependent`: chains that share the target's main thread do not disturb each
  other, no call runs out of order or after its chain's exception, and `reset()` gets
  through on a failed chain. `CallsSettle`: every caller is answered, if only by a dead message.
- `RequestsAccounted`: no request is left in a Receiver without an event for it,
  although hooks change hands while it is delivered, and duplicate events are harmless.
  `OneRunner`: an invoker's queue has exactly one runner while it has requests.
  `NobodyWaitsForever`: requests are answered, and only a worker that waits for a reply keeps
  `stop()` from returning.
- `NoForgottenRequest`: whoever waits for a module is listed, and the request is on its way up, in a
  list above, or its answer on its way down. `RecordsHold`: `sent_modules` is what
  the child has or will get, once; a `FORWARD_MODULE` arrives after its module.
  `ImportsEnd`: every import returns. `FindsItsOwn`: ModuleFinder serves the module that
  was asked for, and the related ones are the closure of its imports.
- `OneConnectsForAll`: of those on a list of waiters one makes the connection for all, and nobody
  leaves it unanswered but by the loss of a context of the same key. (Between the answer and the record of
  the response there is no list, and a request in between connects too: see `SingleContext` below.)
  `NoStaleContext`: a context that is gone is not handed out, unless it went while it
  was recorded. `RecycledIsUnused`: an interpreter that is shut down to make room is used by nobody,
  unless its users were answered and not yet counted. `LeadsThere`:
  a stack leads to the task's account by way of what the inventory says, and equal ways are equal.
- `NothingLeft`, `OutcomeStays`, `AttemptsEnd`: a failed attempt leaves no stream or child,
  its first cause is what is reported, an established one is not disturbed by what the attempt left behind,
  callers and children come to an end. `BootsCleanly`: both processes hold the right descriptors
  whichever were free, and the handshake completes. There are two exceptions, which the property names: a forked
  child keeps the epoll descriptors of those it was forked from, and when create_child()
  cannot make the pipe for stderr (parent.py:370, outside its `try`) the pair made before stays open.
- `OutcomeIsDue`, `WindowAccounted`, `TransfersEnd`: a file arrives whole or not at all, failures have
  a reason, what is in flight is counted, and the count passes the window by less than a chunk;
  transfers end, unless a context that died had a window unacknowledged.
- `OnlyTheBotchedLeak`: what a task patched is put back, except sys.meta_path and `__main__`, and what
  is left by a `setup()` or `revert()` that raised stays that task's. `JobFileIsAhead`: the job's
  file is there before the controller is told of the job, no longer says "started" when the job ends its process,
  and is torn only if the time limit struck. `EverythingEnds`: tasks end, and so do their
  children, unless a job could not be begun. `RunsWhatWasFound`, `SeesNoOther`: a
  module runs with its own utilities and environment, as long as no value is None.

*The violated run.* `contexts_login`: `_stack_from_spec()` adds no become hop when the task
becomes the user it logs in as (ansible_mitogen/connection.py:788), yet `login_context` is then
the context before (line 841), which is not the login account (line 508).

*Fairness.* Threads inside the library keep running (weak fairness of their next
step); nobody is obliged to call anything, a peer is never obliged to send,
answer or disconnect, and CTRL+C, timeouts of user calls and deaths are never
forced. By module:

- Broker: the grace period ends (`SF` of `GraceEnds`): its loop looks at a clock that advances however
  many rounds it makes. Routing, Calls: a context that runs reads its streams, and a handler that was
  called replies. Services: a method that asks another context is answered, if only by a dead
  message, as Handles shows; a target that shuts down disconnects its streams, as Broker
  shows.
- Imports: importing threads and the broker threads of living contexts run. Connecting: the broker thread,
  deadlines of timers and the reaper, callers, and SIGKILL once it is delivered; never the child, which may hang.
  Files: pool threads, the target's thread, and a shutdown once begun. Tasks: pool
  threads, workers, main threads, and children whose broker was told to shut down.
- Handles: the threads and the broker thread. Contexts has no liveness property and states no fairness.

*Known disagreements.* These were met while modelling. Each is stated as a property that TLC
refutes within a minute and a half, most in seconds. `LatchTimeoutRace.cfg` and
`ConnectingShutdown.cfg` are instances of their own; the others are refuted on the instance of the run, and
its configuration names them at the end, each to be put in place of the run's properties. What a
property of the run excludes on their account is said with that property.

| Property | Configuration | What happens |
|---|---|---|
| `AssertionsHold` | `LatchTimeoutRace.cfg` | A timeout between `put()`'s critical section and its write leaves the cookie in a socketpair already given back; the next thread to wait on it, perhaps on another latch, fails an assertion (core.py:2999). |
| `ExitForcesAll` | `Broker.cfg` | `_broker_exit()` is to "forcefully call `on_disconnect`" on what is left (core.py:3819), in a loop without `try`: a `disconnect` listener that raises leaves the streams behind it and the poller open. |
| `DeferRaisesOnceShuttingDown` | `Broker.cfg` | `defer()` documents an error once shutdown has begun (core.py:3138) but tests `_exitted`: the call is accepted during the grace period and never runs. |
| `DisconnectionIsTold` | `Handles.cfg` | `add_handler(respondent=...)` promises a dead message on disconnection (core.py:3442). Two threads that find no set for the respondent each make one, and the second drops the first one's handle (core.py:3487); and adding races the walk of the set. |
| `CallsSerialized` | `Services.cfg` | Activation registers an invoker in `Pool.add()` and replaces it in `get_invoker()` (service.py:581), so that the "single thread" of docs/services.rst:37 becomes two. |
| `ShutdownProceeds` | `Services.cfg` | `_pool.stop(join=True)` on the broker thread (service.py:94) joins a worker that waits for that thread. |
| `AnyExceptionCancels` | `Calls.cfg` | A call that fails in `_parse_request()` is not recorded for its chain (core.py:3969, against core.py:3909). |
| `SingleContext` | `Contexts.cfg` | The waiters are popped (ansible_mitogen/services.py:447) before the response is stored (449): a request in between connects a second time, against "the single Context instance" of line 109. |
| `WaitersAreListed` | `Contexts.cfg` | Forgetting a context takes the waiters of its key with it (line 238), also those of the connection being made: they are never answered, against line 211. |
| `NoneInUseIsRecycled` | `Contexts.cfg` | References are counted (line 451) after the waiters have their context, which may be recycled meanwhile, against line 195. |
| `ShutdownCancelsEvery` | `ConnectingShutdown.cfg` | `fire()` walks the list of listeners that `unlisten()` shortens: of two attempts under way at shutdown one is not cancelled (core.py:545). |
| `RaisedMeansFailed` | `Connecting.cfg` | A diagnostic line that is heard after the handshake sets `exception` before the caller looks: `connect()` raises although the connection is up (parent.py:1567). |
| `WithinWindow` | `Files.cfg` | The loop tests the count and then adds a chunk (service.py:989): the "burst up to the window size limit (1MiB)" of line 866 is nine chunks, 1179414 bytes. |
| `EachSatisfiedInTurn` | `Files.cfg` | A context that dies before acknowledging a whole window stalls every transfer of its stream (against service.py:853). |
| `EnvironmentIsPutBack` | `Tasks.cfg` | `setup()` runs before the `try` of `run()` (ansible_mitogen/runner.py:440): if it raises after it patched the environment nothing reverts that, against "this must always run" (line 619). |
| `NothingIsLeft` | `Tasks.cfg` | Every new-style task leaves its ModuleUtilsImporter on sys.meta_path (line 949; `revert()`, line 963, leaves it out), and its module as `__main__` (line 1057). |
| `JobFileHasOutcome` | `Tasks.cfg` | The SIGALRM handler reports through the temporary file the main thread has open (ansible_mitogen/target.py:415, 430): the file may be left torn. |
| `JobsEnd` | `Tasks.cfg` | `AsyncRunner()` makes the job's directory outside of `run()`'s `try` (target.py:526); if that raises nobody ends the isolated child, which is to terminate on completion (line 516). |
| `NoneUnsets` | `Tasks.cfg` | A value of None is to delete the variable (runner.py:603); `to_text(None)` sets it to "None" (line 611). |

## 4. Proofs

`LatchProofs` proves, for any number of latches, threads, items and socketpairs
(from `LatchAssumption` only: there is a latch and a socketpair, items are not
mistaken for exceptions):

- `TypeCorrect`: `Spec => []TypeOK`. `_waking` stays a natural number and
  `_sleeping.index()` succeeds, so the type invariant is strengthened by *the entry
  of a waiting thread is listed* (`TypeInv`).
- `WaitQueueInOrder`: `Spec => []IInv`, the inductive invariant. Until a wait is
  abandoned (`~abandoned => WaitInv`): entries of `_sleeping` are distinct and belong
  to threads that wait (`Owned`, `Distinct`); a socketpair is idle and empty, or used
  by one thread (`OwnSocket`, `InUse`, `IdleDistinct`, `QuietSockets`); the first
  `_waking` sleepers have the first `_waking` elements, and more elements exist only
  when nobody else sleeps (`Counts`); each of those sleepers has exactly one
  wake-up with its own cookie (`WakeCounts`, `WriterTargets`).
- `AssertionsNeverFail`, `NoWakeUpLost`: the invariants `NoAssertFailure` and
  `NoStarvedWaiter` of the run, from `IInv`; and `EachWokenOnce`, that each of the first
  `_waking` sleepers has one wake-up and the others none.

`Counts` alone is not inductive: when a sleeper leaves, those behind it move up, and
that each keeps its own wake-up rests on the uniqueness of sockets; that in turn
rests on idle sockets being empty, which is what an abandoned wait destroys. The
proof has one lemma per action. TLC checked the same `IInv` on the instance of the
run first.

- `ItemsAreConserved`: `Spec => []Conservation`, without `~abandoned`. The invariant
  (`ItemInv`) says where items are instead of counting them: no item is at two positions
  of queues (`OnePlace`), none that was not put yet or was taken is at one (`QueuedIsOut`), and
  every other is at one (`NoneLost`). What an abandoned wait breaks is who takes an item,
  not whether it is there.

The same module proves the refinement, `LatchIsHandOff`: `Spec => ImplementsHandOff`. From
`IInv` follows what the mapped state is made of (`MapInv`): every waiting thread owns
one position of one latch, the owners of the first `_waking` positions hold the promises
and those after them form the line, the elements after the first `_waking` are spare.
Each kind of step is then a step of HandOff: `put()` hands over or stores, `get()` takes a
spare item, joins the line or is turned away, a woken thread collects, one that was not
woken gives up its place wherever it stands, `close()` dismisses; `poll()` and the write
of a cookie change nothing HandOff sees. The abandoning step is the one exception, and it
is there in the statement.

`BrokerProofs` proves, for any number of descriptors, callers and functions (from
`BrokerAssumption`, `NamesAssumption` and `KindAssumption`: a descriptor and a call exist,
the pipe has room for a byte, a call is of one kind, the names of the waker and of
nobody are no stream's):

- `TypeCorrect`: `Spec => []TypeOK`. The self-pipe is read only when it was reported
  readable, and the types rest on *it is yielded only while a byte is in it*
  (`ByteToRead`).
- `NoWakeupLost`: `Spec => []WakeupPending`, inductive with the types. A byte that finds
  the pipe full is dropped, and the broker thread reads a byte before it drains: what was
  appended meanwhile is drained with the rest, or its own byte is still to come.
- `EventsAreTheirs`: `Spec => []NoStaleEvent`, inductive with the types. `Registers` says what
  every step but `poll()` may do to registrations: one stream at most enters or leaves, and
  what enters has a descriptor registered in this round, which is not yielded.

`HandlesProofs` proves, for any number of contexts and handles:

- `TypeCorrect`: `Spec => []TypeOK`. A thread holds a set it looked up in
  `_handles_by_respondent` without a lock; the types rest on *a set that is still the
  index's is there* (`LiveIsThere`) and *the broker thread calls what it looked up* (`Invoked`).
- `OneReply`: `Spec => []AtMostOneReply`. One message at most is not inductive: the invariant
  (`OnceInv`) adds that a one-shot receiver in `_handle_map` was passed nothing, but
  for the moment between `fn()` and the `del` of `_on_respondent_disconnect()`, when the
  broker thread is busy and nothing else can call the handler.

`ServicesProofs` proves about Services, for any number of workers, services and requests (from
`ServicesAssumption`, which relates the constants):

- `TypeCorrect`: `Spec => []TypeOK`, one group of variables at a time. What a worker
  holds at each point (`Holds`) is what lets the types of the queues follow.
- `OneRunnerAlways`: `Spec => []OneRunner`, from the inductive `RunnerInv`:
  `OneRunner` alone says nothing of `_running`, so the invariant adds that the flag
  is set exactly while a thread runs the queue (`FlagTold`), and that a queue with
  requests has it set (`QueueTold`). Only `Enqueue` and `Drain` can disturb it; the
  other actions change no runner.
- `NoSecondAnswer`: `Spec => []AnsweredOnce`. A request is in one spot (`OneSpot`): not received,
  about to be queued, on a Receiver's queue, in a worker's hands, on an invoker's queue, or
  answered; and a queue lists it once (`ListedOnce`). Each step moves one request from one spot to
  another.
- `EveryRequestAccounted`: `Spec => []RequestsAccounted`, which is `AnsweredOnce` and, while
  nobody shuts down, that a request on a watched Receiver has an event. The inductive
  `AnnouncedInv` counts: as many requests as there are in a Receiver of the Select, so many
  announcements at least are queued in the Select, owed by the constructor that is adding the Receiver
  (`ToAnnounce`), in the hands of a worker about to take the request, or in those of the
  broker thread between `put()` and the hook. Counting workers is why `Workers` is finite.

`ParentProofs` proves about Calls, for any chains, sources and scripts of calls (from `CallsAssumption`:
only chains with an ID are reset, as in `reset()`; and `ChainIdAssumption`: None is no chain's ID):

- `CallsTypeCorrect`: `Spec => []TypeOK`, with what the types rest on (`Shapes`) and with *a
  call made by `call_no_reply()` is not answered* (`Silent`).
- `ChainsNeverInterfere`: `Spec => []ChainsAreIndependent`. The property compares answers with those
  of a chain that is alone, and says nothing of what is still under way. The invariant (`LineInv`)
  says of every chain that its calls stand in one line, cut at two points `p` and `m`: the first `p` were
  taken by the main thread, those up to `m` are in the Dispatcher's queue, the rest on the
  stream (`LineAt`). The exception recorded for the chain is that of the first of the `p` calls to
  raise since the last reset (`ErrorAt`), and those that ran are the ones due (`RanAt`). With
  *every answer that was computed is the one expected* (`AnswersRight`) this is inductive.

`AnsibleProofs` proves about Contexts, for any number of workers, stacks and contexts and any bound on
interpreters (from `ContextsAssumption`: contexts are numbered from 1, workers are finitely
many, no stack is empty):

- `ContextsTypeCorrect`: `Spec => []TypeOK`. A thread that makes a context has it to itself
  (`OneOwner`), nothing is recorded of one that was not made (`NothingUnmade`), and the list of a
  context's interpreters has those made through it (`ListedByVia`).
- `HandsOutNoStaleContext`: `Spec => []NoStaleContext`, from `RecordInv`. Between the end of the
  connection and the moment the response is stored the context is in no dictionary the
  event walks, so the invariant follows it through `record`, `produce` and `store`: it is lost *early*, or
  the event will find its record.
- `ConnectsForAll`: `Spec => OneConnectsForAll`. `OneAnswersAlways` is the invariant in it, from `ListsHold`: a list
  of waiters that is not empty has one thread that will answer it, which is on it, and nobody on
  it has an answer. `WaitersLeaveAnswered` is the rest of it, about steps: who leaves a list is answered, or
  a context of its key is forgotten. Neither says that there is one connection per key.
- `RecyclesNoneInUse`: `Spec => RecycledIsUnused`, an action property. `CountInv` says that a context
  is used by as many workers as its count of references says, or by as many more as the
  thread that answers them is about to add (`Accounted`); and `UpdateLru` shuts down only
  what has a count of zero: that nobody uses, or only such workers.

`RoutingProofs` proves, for any tree of contexts, requests and deaths (from
`RoutingAssumption`: finitely many contexts, each but the master with a parent, no request to
oneself; `TreeAssumption`: the master is in every lineage, so that there is no cycle; and
`NoneAssumption`: the absence of a route is no context):

- `TypeCorrect`: `Spec => []TypeOK`.
- `AlarmsAreTrue`: `Spec => []NoFalseAlarm`. A caller learns that a context is gone from a
  message, a message is sent for want of a route, and a route is deleted because of another
  message; so `NoFalseAlarm` is inductive only with what routes and messages say. `RoutesInv` adds
  that a route leads to the parent, or to a child on the way to its target that has one itself
  or has lost the target (`RoutesLead`); what a stream brought is below it (`LearnedBelow`); a
  living context and its parent know each other (`Linked`); the master has a route to whom it once
  had one to, unless they are lost (`AnnouncedRouted`); and that every message in flight is true
  now, not only when it was sent (`MessagesTruthful`): what it reports lost stays lost, and
  where it sends a request somebody knows the way or the target is lost. `RoutesLeadHome` states
  these for readers.
- `RoutesSettleExactly`: `Spec => []RoutesExactWhenQuiet`. While messages are in flight routes are not
  exact, and the invariant (`ExactInv`) says by how much: what a context knows, its
  parent knows or has an announcement of on the way (`TellsUp`); of what a context does not
  know, its parent has no route through it, or a withdrawal on the way that comes after any announcement
  (`Withdraws`); a RouteMonitor's record of a stream is the routes over it (`Recorded`), the
  first of which is to the child itself (`FirstHand`); and nobody speaks of a context before it
  exists (`Born`). On empty streams nothing remains of the exceptions.

A disconnection reports several contexts, one after the other, on each stream (`FlattenSeq`); the lemma
`OnFlat` says what is on such a sequence, proved by the least position at which it would be
false. What a context knows of a context after a step is settled in one lemma for the routes,
and one for the messages, that all handlers share.

`ImportsProofs` proves, for any tree of contexts, any modules, resources and scripts (from
`ImportsAssumption`: a module's path ends in the module, its related modules are listed once, without
itself, and only if their lookup did not raise; and `TreeAssumption`, as in Routing):

- `TypeCorrect`: `Spec => []TypeOK`.
- `RequestsAreNotForgotten`: `Spec => []NoForgottenRequest`, and `RecordsAreTrue`:
  `Spec => []RecordsHold`. Both compare a parent's lists with its child's, which agree only but for
  what is on the stream between them, so the invariant (`IInv`) says what is there. A request that is
  pending in a context that lives, with its parent, is on the way up, in the parent's own
  list, or its answer is on the way down (`Requested`). What `sent_modules` lists the child has or will get,
  and of what can be answered it gets only what is listed, once (`Records`); a `FORWARD_MODULE` is
  behind the module it names (`Orders`). That a context waits for nothing it holds
  (`Pending`), that lists name threads that wait for just that module (`Waiters`) and children that are
  children (`Callers`) is what makes each handler keep the rest.

The responder and the forwarder walk a module's path or its related modules; what such a walk has
sent after `i` steps is proved by the least step at which it would be false (`LeastNatural`). The
induction theorems of the library are not needed for it.

About Connecting `ParentProofs` proves, for any attempts, methods and thresholds (from
`ConnectingAssumption`: finitely many attempts, SIGTERM before SIGKILL before giving up):

- `ConnectingTypeCorrect`: `ConnectingSpec => []ConnectingTypeOK`.
- `FailuresLeaveNothing`: `ConnectingSpec => []NothingLeft`. That a failed attempt leaves nothing open is not
  inductive: an attempt fails in one handler and what is left of its streams is heard in
  another. The invariant says of the record of an attempt how its stage, timer, streams and Reaper fit
  (`Core`), and that between two handlers an answer has its cause or connection, and a failure
  its streams closed (`Settled`); of each pipe that it carries what this child wrote, and nothing
  on stdio once the connection is established (`Talk`); of the lines in the broker thread's hands that the stream
  they came from still concerns the attempt (`Handling`); and of the listeners
  of `shutdown` that each is there once, of an attempt that has begun (`Listening`).
- `OutcomesStay`: `ConnectingSpec => OutcomeStays`, an action property, from the same invariant: the
  first cause stays, and what an attempt leaves behind (its timer, a late line, its
  listener) does not end the connection it came to. TLC found the invariant true with one
  attempt at a time and with two at once.

About Files `ServicesProofs` proves, for any contexts, streams, transfers and window (from
`FilesAssumption`):

- `FilesTypeCorrect`: `FilesSpec => []FilesTypeOK`; a stream counts at most `Quota` chunks, the least number
  that fills the window (`QuotaBound`).
- `OutcomesAreDue`: `FilesSpec => []OutcomeIsDue`. The property looks at transfers that ended; `FilesInv`
  says of those under way where the service has them and what is on its way. A transfer is in one
  place of the pool, a request, opened, or one job of one stream (`Placed`). What is on its way to a target
  that waits is the rest of what it got, in order, with the end after the last chunk
  (`Arriving`); while the pool has work for a transfer, only chunks are on their way, as many
  as its job says were sent beyond those received (`Owed`).
- `WindowIsAccounted`: `FilesSpec => []WindowAccounted`. What a stream has unconfirmed is counted as two sets, the
  places of the channels that hold a chunk and the acknowledgements not yet taken (`Unconfirmed`),
  so that a step that sends, loses or takes them adds or removes elements: a received chunk leaves the one set and
  enters the other. `WindowInv`, inductive together with `FilesInv`, adds that a job is with the stream its
  context is reached through, or with none once that died (`Shared`), because an acknowledgement is
  credited to, and jobs are run from, the stream the caller has now. That the count less one chunk is below
  the window is arithmetic about `Quota`.

What `_schedule_pending_unlocked()` sends is a function of the list of jobs, and each of its steps
is known by its predecessor; the lemma `PumpedFacts` says what holds after any of them, and that the
chunks written are as many as the room shrank by (`Paid`).

About Tasks `AnsibleProofs` proves, for any tree, tasks, playbooks and files (from `PushesAssumption`,
`PushesTreeAssumption`, as in Routing, and `TasksAssumption`: the fork parent is no task's child, an asynchronous
task is not isolated, the pristine state is nobody's):

- `TasksTypeCorrect`: `TasksSpec => []TasksTypeOK`, with the types of Pushes (`PushesTypeOK`).
- `TasksLeaveNoTrace`: `TasksSpec => []OnlyTheBotchedLeak`, for the layers `revert()` puts back.
  What `revert()` puts back is what `setup()`
  found, so the invariant says of that too where it comes from: a process runs one task at a time
  (`Alone`), what a layer shows was patched by a task of this process that is at work or whose
  `setup()` or `revert()` raised (`Shown`), and what a task at work saved is pristine or of the latter kind (`Kept`).
- `JobsAreOnFile`: `TasksSpec => []JobFileIsAhead`. The SIGALRM handler may run between any two steps of
  an `_update()` of the main thread and then takes its temporary file away, so the invariant says which
  step the main thread is at, what the temporary file holds then, and that without one the handler has
  already reported (`Updating`); and how far the job's file is at each stage (`JobFile`). It is torn only where
  the handler ran.

Each of these invariants was checked by TLC on the instance of the run before it was proved.

*Only model-checked.* Liveness, which needs fairness and `ENABLED`: `DeferredRuns`,
`ShutdownCompletes`, `RequestsSettle` and every other property that promises an end. The properties of
worlds (`UniqueIds`, `KeepsItsPromise`, `FindsItsOwn`, `LeadsThere`, `BootsCleanly`, `RunsWhatWasFound`,
`SeesNoOther`): they are about folds and recursive functions over enumerated inputs, whose values for every input
need induction over data. No module uses a RECURSIVE operator, so that theorems about any of them
are possible. All other invariants and action properties of the runs are theorems.

## 5. Not modelled, and the plan

Not modelled at all: the unix listener (one handshake), fakessh, profiling, debugging and utilities. Left out of
components that are otherwise modelled: formatting and forwarding of log records,
minification and byte code, pickling, `os_fork`'s corking of threads, transmit sides in Broker
(`BufferedWriter`), routing policies and unidirectional mode, command lines of the connection
methods, interpreter discovery, Ansible's strategy, mixins and process set-up.
`PROJECT.json` gives the reason per component.

What reading the code for the models showed, without a property of its own:

- core.py: `Importer._forwarded_by_context` is tested and never filled; a one-shot Select over a
  receiver with several buffered messages raises (select.py:333 against 242);
  `LogHandler.uncork()` may reorder records of another thread. A package that
  replaced itself in `sys.modules` and `from . import b` in a package (master.py:1009) get fewer
  related modules than they use; Python 3.6's scanner skips imports behind `EXTENDED_ARG`.
- parent.py: `_on_forward_module` (parent.py:2746) drops what docs/howitworks.rst:477 has it forward;
  `Reaper._remove_timer` does not unlisten; a prompt that arrives in two reads is matched again;
  poll and epoll watch neither errors nor hang-ups of descriptors they only write to.
  ssh.py:146 calls a method `conn._fail` that does not exist.
- master.py: `allocate_block()` documents its end as the last usable ID, and it is the first after
  the block; users treat it as such. A lookup of a resource that raises gets no answer.
- service.py: `transfer_file(sync=True)` of ansible_mitogen/target.py calls `fsync()` after `close()`;
  a `Sender` may be closed after the broker's exit; temporary files stay behind on SIGTERM.
- ansible_mitogen: `_planner_by_path` caches for the life of a worker; the fork parent has modules loaded
  that an override of `module_utils` should replace (target.py:58), so that for those the override has no
  effect; `ansible_timeout` of a host used as `via` is ignored, so that it is connected
  to twice; references to intermediate hops are not put back; a key that is in both
  environment files vanishes when it leaves one.

Worth doing next:

1. Transmit sides and `BufferedWriter` in Broker, with the suffix of the output that is lost on
   disconnection.
2. `Router.register()` on a user thread against the lazy `get_streams()` (parent.py:2342), which
   needs Routing's handlers cut where the lock is released.
3. The walk of readers and writers at shutdown (core.py:3821), for streams that appear while it lasts.
