-------------------------------- MODULE Tasks --------------------------------
(***************************************************************************)
(* Ansible modules run in a target: planner.invoke() in the worker         *)
(* processes, runner.Runner and target.AsyncRunner in the target.          *)
(*                                                                         *)
(* A task is run in the target's own long-lived interpreter, one at a time *)
(* by its dispatcher, or, where Planner.should_fork() says so, in a child  *)
(* forked for it.  setup() patches the process (working directory,         *)
(* environment, stdio, argv and so on), keeping what was there before, the *)
(* module runs, and revert() puts it back.  The files of the module come   *)
(* through PushFileService (Pushes).  An asynchronous task reports through *)
(* a job file, which its main thread and the SIGALRM handler, run by that  *)
(* thread between two of its steps, both replace by way of one temporary   *)
(* file; and its process is ended by its own broker.                       *)
(***************************************************************************)
EXTENDS Pushes, Sequences

CONSTANTS
    Tasks,      \* Nodes includes each that is forked
    Target,     \* the target context, in Nodes
    Playbooks,  \* what may be run: the tasks of each worker process, in order
    PathOf,     \* the module's file
    NewStyle,   \* tasks run by NewStyleRunner; the others by BinaryRunner
    Isolated,   \* tasks that are forked
    Async,      \* tasks that are forked and detached
    Limited,    \* of these, the ones with a time limit
    Mortal      \* forked tasks whose process may be killed at any time

Forked == Isolated \cup Async

\* What a layer of a process holds that no task has patched.
Pristine == "pristine"

ASSUME TasksAssumption ==
    /\ Forked \cup {Target} \subseteq Nodes \ {Root}
    /\ Forked \subseteq Tasks /\ Target \notin Forked
    /\ Limited \subseteq Async /\ Async \cap Isolated = {} /\ Mortal \subseteq Forked
    /\ Playbooks \subseteq Seq(Seq(Tasks))
    /\ PathOf \in [Tasks -> Paths]
    /\ Pristine \notin Tasks

\* What setup() and _run() patch: the environment, and a NewStyleRunner the rest, of
\* which sys.meta_path and the module __main__ are what its revert() never puts back.
Lasting == {"meta_path", "main"}
Layers == {"env", "stdio", "argv", "mkstemp", "excepthook", "atexit"} \cup Lasting

VARIABLES
    \* the workers
    plays,      \* what is run
    ctl,        \* where invoke() is with each task
    \* the target and the children forked from it
    child,      \* where the process of each forked task is
    stage,      \* where the runner of each task is
    value,      \* [Target and forked tasks -> [Layers -> who set it]]
    saved,      \* [Tasks -> what each layer held when it was patched]
    botched,    \* tasks whose setup() or revert() raised
    reply,      \* the result of each task's call, once it is on its way
    \* asynchronous tasks
    job,        \* what the job file holds
    tmp,        \* what its temporary file holds
    wr,         \* the _update() the main thread is in
    alarm,      \* of the SIGALRM timer
    timedout    \* _timed_out

started == <<ctl, child, reply>>
runner == <<stage, value, saved, botched>>
asynch == <<job, tmp, wr, alarm, timedout>>
tasksVars == <<plays, pushed, started, runner, asynch>>

Procs == {Target} \cup Forked
Home(t) == IF t \in Forked THEN t ELSE Target

\* The process of a forked task has ended.
Gone(t) == t \in {f \in Forked : child[f] = "gone"}
Alive(t) == ~Gone(t)

Ended == {"ok", "failed"}
NoFile == "none"
NotWriting == [what |-> "none", step |-> "none", onto |-> "none", left |-> 0]
Contents == {"started", "result", "crash", "timeout"}

TasksTypeOK ==
    /\ PushesTypeOK
    /\ plays \in Playbooks
    /\ ctl \in [Tasks -> {"new", "forked", "pushed", "called"} \cup Ended]
    /\ child \in [Forked -> {"none", "alive", "dying", "gone"}]
    /\ stage \in [Tasks -> {"new", "queued", "refused", "begun", "setup", "getting",
                            "running", "check", "ending", "over"}]
    /\ value \in [Procs -> [Layers -> Tasks \cup {Pristine}]]
    /\ saved \in [Tasks -> [Layers -> Tasks \cup {Pristine}]]
    /\ botched \subseteq Tasks
    /\ reply \in [Tasks -> {"none", "told"} \cup Ended]
    /\ job \in [Async -> Contents \cup {NoFile, "torn"}]
    /\ tmp \in [Async -> Contents \cup {NoFile, "empty"}]
    /\ wr \in [Async -> [what : Contents \cup {"none"},
                         step : {"none", "open", "write", "rename"},
                         onto : {"none", "tmp", "job"}, left : 0 .. 2]]
    /\ alarm \in [Async -> {"off", "armed", "fired"}]
    /\ timedout \in [Async -> BOOLEAN]

TasksInit ==
    /\ PushesInit
    /\ plays \in Playbooks
    /\ ctl = [t \in Tasks |-> "new"]
    /\ child = [t \in Forked |-> "none"]
    /\ stage = [t \in Tasks |-> "new"]
    /\ value = [p \in Procs |-> [l \in Layers |-> Pristine]]
    /\ saved = [t \in Tasks |-> [l \in Layers |-> Pristine]]
    /\ botched = {}
    /\ reply = [t \in Tasks |-> "none"]
    /\ job = [t \in Async |-> NoFile] /\ tmp = [t \in Async |-> NoFile]
    /\ wr = [t \in Async |-> NotWriting]
    /\ alarm = [t \in Async |-> "off"]
    /\ timedout = [t \in Async |-> FALSE]

-----------------------------------------------------------------------------
(* The worker processes: planner.invoke().                                 *)

\* The task is the next of its worker.
Due(t) ==
    \E w \in DOMAIN plays : \E i \in DOMAIN plays[w] :
        plays[w][i] = t /\ \A j \in 1 .. i - 1 : ctl[plays[w][j]] \in Ended

\* Connection.spawn_isolated_child(), in the fork parent.
SpawnIsolatedChild(t) ==
    /\ t \in Forked /\ ctl[t] = "new" /\ Due(t)
    /\ ctl' = [ctl EXCEPT ![t] = "forked"]
    /\ child' = [child EXCEPT ![t] = "alive"]
    /\ UNCHANGED <<pushed, reply, runner, asynch>>

\* _propagate_deps(): a service call, which fails if the file cannot be read.
PropagateDeps(t) ==
    /\ ctl[t] = IF t \in Forked THEN "forked" ELSE "new"
    /\ Due(t)
    /\ \/ /\ Propagated(PathOf[t], Home(t))
          /\ ctl' = [ctl EXCEPT ![t] = "pushed"]
       \/ /\ PathOf[t] \notin cache[Root]
          /\ ctl' = [ctl EXCEPT ![t] = "failed"]
          /\ UNCHANGED <<cache, forwarding>>
    /\ UNCHANGED <<waiters, asked, sent, adding, inbox, child, reply, runner, asynch>>

\* The call of run_module() or run_module_async(), once the service replied.
CallModule(t) ==
    /\ ctl[t] = "pushed"
    /\ <<PathOf[t], Home(t)>> \notin forwarding[Root]
    /\ ctl' = [ctl EXCEPT ![t] = "called"]
    /\ stage' = [stage EXCEPT ![t] = "queued"]
    /\ UNCHANGED <<pushed, child, reply, value, saved, botched, asynch>>

\* What becomes of an isolated child whose call has ended: context.shutdown(), in
\* a finally clause.
ShutDown(t, failed) == IF child[t] = "alive" THEN "dying" ELSE child[t]

\* The worker has its answer: the result, or that the job has started, or an
\* error, of which one is that the child is gone.
Answered(t) ==
    /\ ctl[t] = "called"
    /\ reply[t] # "none" \/ Gone(t)
    /\ LET failed == reply[t] \in {"none", "failed"}
       IN  /\ ctl' = [ctl EXCEPT ![t] = IF failed THEN "failed" ELSE "ok"]
           /\ child' = IF t \in Isolated THEN [child EXCEPT ![t] = ShutDown(t, failed)]
                       ELSE child
    /\ UNCHANGED <<pushed, reply, runner, asynch>>

-----------------------------------------------------------------------------
(* Runner.                                                                 *)

\* The main thread of a context runs one call at a time.
Idle(p) == \A t \in Tasks : Home(t) = p => stage[t] \in {"new", "queued", "refused", "over"}

\* Patching layers ls of the process of t, and putting them back.
Patch(t, ls) ==
    LET p == Home(t)
    IN  /\ saved' = [saved EXCEPT ![t] = [l \in Layers |-> IF l \in ls THEN value[p][l]
                                                          ELSE @[l]]]
        /\ value' = [value EXCEPT ![p] = [l \in Layers |-> IF l \in ls THEN t ELSE @[l]]]

Revert(t, ls) ==
    value' = [value EXCEPT ![Home(t)] = [l \in Layers |-> IF l \in ls THEN saved[t][l]
                                                          ELSE @[l]]]

\* What a runner has patched once the module runs.
All(t) == IF t \in NewStyle THEN Layers ELSE {"env"}

\* What it has patched, beyond the environment, where it may raise before the try
\* statement: in the imports of a NewStyleRunner, and in detach().
Unfinished(t) ==
    IF t \in NewStyle THEN {{"stdio", "argv", "mkstemp", "meta_path"}, Layers \ {"env", "main"}}
    ELSE {{}}

\* What a revert() that raises has put back: AtExitWrapper asserts that it is still
\* installed, and then TempFileWatcher closes descriptors.
Halfway(t) == IF t \in NewStyle THEN {{}, {"atexit", "mkstemp"}} ELSE {}

\* Mutant: revert() is skipped when the module raises.
RevertedUnlessRaised(t, raised) == IF raised THEN {} ELSE All(t) \ Lasting

\* revert() runs whether _run() returned or raised.
Reverted(t, raised) == All(t) \ Lasting

\* AsyncRunner has begun an _update(what), inside of so many try statements that
\* end in another.
Updates(t, what, left) ==
    wr' = [wr EXCEPT ![t] = [what |-> what, step |-> "open", onto |-> "none", left |-> left]]

\* The call raised: its error is the answer, or the end of AsyncRunner._run().
Raises(t) ==
    IF t \in Async
    THEN /\ stage' = [stage EXCEPT ![t] = "ending"]
         /\ Updates(t, "crash", 0)
         /\ UNCHANGED reply
    ELSE /\ stage' = [stage EXCEPT ![t] = "over"]
         /\ reply' = [reply EXCEPT ![t] = "failed"]
         /\ UNCHANGED wr

\* setup(): the working directory, which may not exist, and the environment; then
\* the main thread gets the module's file.
Setup(t) ==
    /\ stage[t] = IF t \in Async THEN "setup" ELSE "queued"
    /\ Alive(t) /\ (t \notin Async => Idle(Home(t)))
    /\ \/ /\ Patch(t, {"env"})
          /\ Get(Home(t), PathOf[t])
          /\ stage' = [stage EXCEPT ![t] = "getting"]
          /\ UNCHANGED <<reply, wr, botched>>
       \/ /\ Raises(t)
          /\ botched' = botched \cup {t}
          /\ UNCHANGED <<value, saved, asked>>
    /\ UNCHANGED <<cache, waiters, sent, forwarding, adding, inbox, ctl, child, job, tmp,
                   alarm, timedout>>

\* The file is there: the rest of setup(), and detach(), which may fail outside of
\* the try statement that reverts.
SetupRest(t) ==
    /\ stage[t] = "getting" /\ Alive(t)
    /\ PathOf[t] \notin asked[Home(t)]
    /\ \/ /\ Patch(t, All(t) \ {"env"})
          /\ stage' = [stage EXCEPT ![t] = "running"]
          /\ UNCHANGED <<reply, wr, botched>>
       \/ /\ \E ls \in Unfinished(t) : Patch(t, ls)
          /\ Raises(t)
          /\ botched' = botched \cup {t}
    /\ UNCHANGED <<pushed, ctl, child, job, tmp, alarm, timedout>>

\* The module ends, or _run() raises (its source does not compile), or revert() does.
ModuleEnds(t) ==
    /\ stage[t] = "running" /\ Alive(t)
    /\ \/ /\ Revert(t, Reverted(t, TRUE))
          /\ Raises(t)
          /\ UNCHANGED botched
       \/ /\ \E ls \in Halfway(t) : Revert(t, ls)
          /\ Raises(t)
          /\ botched' = botched \cup {t}
       \/ /\ Revert(t, Reverted(t, FALSE))
          /\ stage' = [stage EXCEPT ![t] = IF t \in Async THEN "check" ELSE "over"]
          /\ reply' = IF t \in Async THEN reply ELSE [reply EXCEPT ![t] = "ok"]
          /\ UNCHANGED <<wr, botched>>
    /\ UNCHANGED <<pushed, ctl, child, saved, job, tmp, alarm, timedout>>

-----------------------------------------------------------------------------
(* AsyncRunner.                                                            *)

\* run_module_async(): the job file is written before anything else, unless there is
\* no directory for it, which nothing but the caller is told.
BeginJob(t) ==
    /\ t \in Async /\ stage[t] = "queued" /\ Alive(t)
    /\ \/ /\ stage' = [stage EXCEPT ![t] = "begun"]
          /\ Updates(t, "started", 1)
          /\ UNCHANGED reply
       \/ /\ stage' = [stage EXCEPT ![t] = "refused"]
          /\ reply' = [reply EXCEPT ![t] = "failed"]
          /\ UNCHANGED wr
    /\ UNCHANGED <<pushed, ctl, child, value, saved, botched, job, tmp, alarm, timedout>>

Writing(t) == wr[t].step # "none"

\* _update(): the temporary file is opened, which empties it.
OpenTmp(t) ==
    /\ wr[t].step = "open" /\ Alive(t)
    /\ tmp' = [tmp EXCEPT ![t] = "empty"]
    /\ wr' = [wr EXCEPT ![t].step = "write", ![t].onto = "tmp"]
    /\ UNCHANGED <<pushed, started, runner, job, alarm, timedout>>

\* It is written and closed.  If the handler renamed it meanwhile it is the job
\* file by now, and what the handler wrote may stick out.
WriteTmp(t) ==
    /\ wr[t].step = "write" /\ Alive(t)
    /\ IF wr[t].onto = "tmp"
       THEN tmp' = [tmp EXCEPT ![t] = wr[t].what] /\ UNCHANGED job
       ELSE /\ \E c \in {wr[t].what, "torn"} : job' = [job EXCEPT ![t] = c]
            /\ UNCHANGED tmp
    /\ wr' = [wr EXCEPT ![t].step = "rename", ![t].onto = "none"]
    /\ UNCHANGED <<pushed, started, runner, alarm, timedout>>

\* It is renamed.  If the handler did that, the main thread's _update() raises, and
\* the except clause around it, if there is one left, writes an error.
RenameTmp(t) ==
    /\ wr[t].step = "rename" /\ Alive(t)
    /\ \/ /\ tmp[t] # NoFile
          /\ job' = [job EXCEPT ![t] = tmp[t]]
          /\ tmp' = [tmp EXCEPT ![t] = NoFile]
          /\ wr' = [wr EXCEPT ![t] = NotWriting]
       \/ /\ tmp[t] = NoFile
          /\ IF wr[t].left = 0 THEN wr' = [wr EXCEPT ![t] = NotWriting]
             ELSE Updates(t, "crash", wr[t].left - 1)
          /\ UNCHANGED <<job, tmp>>
    /\ UNCHANGED <<pushed, started, runner, alarm, timedout>>

MayTell(t) == stage[t] = "begun" /\ ~Writing(t)

\* started_sender.send(), and the timer.
TellStarted(t) ==
    /\ t \in Async /\ MayTell(t) /\ Alive(t)
    /\ reply' = [reply EXCEPT ![t] = "told"]
    /\ alarm' = [alarm EXCEPT ![t] = IF t \in Limited THEN "armed" ELSE "off"]
    /\ stage' = [stage EXCEPT ![t] = "setup"]
    /\ UNCHANGED <<pushed, ctl, child, value, saved, botched, job, tmp, wr, timedout>>

\* The module has run: its result is written, unless the handler ran or it cannot
\* be parsed.
WriteResult(t) ==
    /\ stage[t] = "check" /\ Alive(t)
    /\ stage' = [stage EXCEPT ![t] = "ending"]
    /\ \/ timedout[t] /\ UNCHANGED wr
       \/ ~timedout[t] /\ Updates(t, "result", 2)
       \/ ~timedout[t] /\ Updates(t, "crash", 1)
    /\ UNCHANGED <<pushed, started, value, saved, botched, job, tmp, alarm, timedout>>

\* Mutant: AsyncRunner.run() does not wait for its last _update().
EndsAtOnce(t) == stage[t] = "ending"

MayEnd(t) == stage[t] = "ending" /\ ~Writing(t)

\* The finally clause of AsyncRunner.run(): the broker is told to shut down.
EndJob(t) ==
    /\ t \in Async /\ MayEnd(t) /\ Alive(t)
    /\ stage' = [stage EXCEPT ![t] = "over"]
    /\ child' = [child EXCEPT ![t] = "dying"]
    /\ UNCHANGED <<pushed, ctl, reply, value, saved, botched, asynch>>

\* _on_sigalrm(): an _update() of its own, which takes the main thread's temporary
\* file from under it; nothing ever cancels the timer.
OnSigalrm(t) ==
    /\ t \in Async /\ alarm[t] = "armed" /\ Alive(t)
    /\ alarm' = [alarm EXCEPT ![t] = "fired"]
    /\ job' = [job EXCEPT ![t] = "timeout"]
    /\ tmp' = [tmp EXCEPT ![t] = NoFile]
    /\ wr' = [wr EXCEPT ![t].onto = IF @ = "tmp" THEN "job" ELSE @]
    /\ timedout' = [timedout EXCEPT ![t] = TRUE]
    /\ child' = [child EXCEPT ![t] = "dying"]
    /\ UNCHANGED <<pushed, ctl, reply, runner>>

\* The broker of a child has shut down and ends the process, wherever its main
\* thread is; or something else does.
Dies(t) ==
    /\ t \in Forked
    /\ child[t] = "dying" \/ (t \in Mortal /\ child[t] = "alive")
    /\ child' = [child EXCEPT ![t] = "gone"]
    /\ alarm' = IF t \in Async THEN [alarm EXCEPT ![t] = "off"] ELSE alarm
    /\ Forgotten(t)
    /\ UNCHANGED <<ctl, reply, runner, job, tmp, wr, timedout>>

-----------------------------------------------------------------------------
Push == PushStep /\ UNCHANGED <<plays, started, runner, asynch>>

MainThread(t) ==
    /\ \/ Setup(t) \/ SetupRest(t) \/ ModuleEnds(t)
       \/ BeginJob(t) \/ TellStarted(t) \/ WriteResult(t) \/ EndJob(t)
       \/ t \in Async /\ (OpenTmp(t) \/ WriteTmp(t) \/ RenameTmp(t))
    /\ UNCHANGED plays

Worker(t) ==
    /\ SpawnIsolatedChild(t) \/ PropagateDeps(t) \/ CallModule(t) \/ Answered(t)
    /\ UNCHANGED plays

Process(t) == (OnSigalrm(t) \/ Dies(t)) /\ UNCHANGED plays

TasksNext ==
    \/ Push
    \/ \E t \in Tasks : Worker(t) \/ MainThread(t) \/ Process(t)

TasksSpec == TasksInit /\ [][TasksNext]_tasksVars

\* Every process runs; a child whose broker was told to shut down ends.
TasksFairness ==
    /\ WF_tasksVars(Push)
    /\ \A t \in Tasks : WF_tasksVars(Worker(t)) /\ WF_tasksVars(MainThread(t))
    /\ \A t \in Forked : WF_tasksVars(child[t] = "dying" /\ Dies(t) /\ UNCHANGED plays)

TasksFairSpec == TasksSpec /\ TasksFairness

-----------------------------------------------------------------------------
(* Properties.                                                             *)

Working(t) == stage[t] \in {"getting", "running"}

\* What a task patched in a process that outlives it is put back, however many tasks
\* patched it after it and whichever of them failed: a layer shows only a task still
\* at work there, or one whose setup() raised, which run() does not revert, or whose
\* revert() did.  sys.meta_path and __main__ are not meant: nothing puts them back.
OnlyTheBotchedLeak ==
    \A p \in Procs, l \in Layers \ Lasting :
        value[p][l] # Pristine => value[p][l] \in botched \/ Working(value[p][l])

\* The environment of a process is put back whatever becomes of the task ("This must
\* always run", TemporaryEnvironment.revert()).
EnvironmentIsPutBack ==
    \A p \in Procs : value[p]["env"] # Pristine => Working(value[p]["env"])

\* Where both setup() and revert() ran, nothing of the task is left ("Revert any
\* changes made to the process after running a module", Runner.revert()).
NothingIsLeft ==
    \A p \in Procs, l \in Layers :
        value[p][l] # Pristine => value[p][l] \in botched \/ Working(value[p][l])

\* The job file is there as soon as the controller is told that the job started, and by
\* the time a job tells its own process to end the file holds an outcome, or, where
\* the time limit struck while the main thread was in an _update(), a torn one.
JobFileIsAhead ==
    \A t \in Async :
        /\ reply[t] = "told" => job[t] # NoFile
        /\ (t \notin Mortal /\ child[t] \in {"dying", "gone"}) =>
                job[t] \notin {NoFile, "started"}
        /\ job[t] = "torn" => timedout[t]

\* Once its process has ended the job file of a task can be read, and says what
\* became of it ("Respond to SIGALRM (job timeout) by updating the job file and
\* killing the process", _on_sigalrm()).
JobFileHasOutcome ==
    \A t \in Async :
        t \notin Mortal /\ child[t] = "gone" => job[t] \in {"result", "crash", "timeout"}

\* invoke() returns for every task: what it needs arrives, through contexts whose
\* threads take the pushed files in any order.
TasksEnd == \A t \in Tasks : Due(t) ~> ctl[t] \in Ended

\* The process forked for a task ends, unless its files could not be pushed or a job
\* has no directory: _propagate_deps() and _init_path() are called outside of the try
\* statements that shut it down.
ChildrenEnd ==
    \A t \in Forked :
        child[t] = "alive" ~> \/ child[t] = "gone"
                              \/ ctl[t] = "failed" /\ stage[t] \in {"new", "refused"}

\* The process forked for an asynchronous task whose call was made ends
\* ("terminating on the process on completion", run_module_async()).
JobsEnd == \A t \in Async : stage[t] = "queued" ~> child[t] = "gone"

\* Neither a task nor its process is left behind.
EverythingEnds == TasksEnd /\ ChildrenEnd
=============================================================================
