----------------------------- MODULE Connecting -----------------------------
(***************************************************************************)
(* mitogen.parent.Connection (src/mitogen/parent.py): one attempt to start *)
(* a child and reach it, from Router.connect() on a user thread to the     *)
(* moment its process is reaped; the password prompts of ssh, su, sudo and *)
(* doas on the way; and what Broker.shutdown() does to attempts under way. *)
(*                                                                         *)
(* Handlers run to completion on the broker thread, so each is one action, *)
(* the handlers it calls through 'disconnect' listeners included.  Between *)
(* them user threads, children and the clock move.  A buffer read from a   *)
(* child is handled line by line, as DelimitedProtocol.on_receive() does:  *)
(* a line may close the stream it came from and those after it still run.  *)
(***************************************************************************)
EXTENDS Naturals, Sequences, FiniteSets, SequencesExt

CONSTANTS
    Conns,      \* connection attempts, each made once by a thread of its own
    Method,     \* [Conns -> Methods]: mitogen.parent.get_connection_class()
    Passwords,  \* attempts given a password
    Stubborn,   \* children signals do not end (EPERM, or stuck in the kernel)
    Detachers,  \* children that may ask to be detached
    Says,       \* [Conns -> what the child may write]: a subset of Lines
    Attempts,   \* bound: how many of them are made
    TermTry,    \* Reaper.reap(): the poll that sends SIGTERM (2 in the code),
    KillTry,    \* the one that sends SIGKILL (6),
    MaxTries    \* and the polls after which it gives up (20)

Methods == {"local", "ssh", "su", "sudo", "doas"}
Sides == {"stdio", "diag"}

\* A second prompt follows a password that was not accepted.
Lines == {"ec0", "ec2", "prompt", "reprompt", "denied", "hostkey"}

None == "none"
Causes == {"start", "timeout", "eof", "cancelled", "required", "incorrect", "auth", "hostkey"}

ASSUME ConnectingAssumption ==
    /\ IsFiniteSet(Conns)
    /\ Method \in [Conns -> Methods]
    /\ Passwords \subseteq Conns /\ Stubborn \subseteq Conns /\ Detachers \subseteq Conns
    /\ Says \in [Conns -> SUBSET Lines]
    /\ Attempts \in Nat
    /\ MaxTries \in Nat /\ TermTry \in 1..KillTry /\ KillTry \in 1..MaxTries

VARIABLES
    alive,      \* Broker._alive
    phase,      \* where the broker thread is
    listeners,  \* of the broker's 'shutdown' signal, oldest first
    at,         \* where fire() is in listeners
    hand,       \* the buffer the broker thread is handling
    conn,       \* [Conns -> Connection, with its process and its Reaper]
    pipe,       \* [Conns -> [Sides -> lines written by the child, unread]]
    said,       \* [Conns -> lines the child has written]
    ends,       \* [Conns -> sides the child's end of which is open]
    user        \* [Conns -> where the thread that called connect() is]

broker == <<alive, phase, at>>
child == <<pipe, said, ends>>
connectingVars == <<broker, listeners, hand, conn, child, user>>

Idle == [conn |-> None, side |-> "stdio", lines |-> <<>>]

ConnectionRecords ==
    [stage : {"none", "queued", "started"},
     timer : BOOLEAN,                           \* _timer.active
     cause : Causes \cup {None},                \* exception
     done : BOOLEAN,                            \* registered, MitogenProtocol set
     put : BOOLEAN,                             \* something is in latch
     side : [Sides -> {"none", "open", "closed"}],
     sent : BOOLEAN,                            \* password_sent
     fed : BOOLEAN,                             \* get_preamble() was written
     detached : BOOLEAN,
     proc : {"none", "running", "exited", "reaped"},
     reaper : BOOLEAN,                          \* _reaper is set
     tick : BOOLEAN,                            \* its timer is active
     tries : 0..MaxTries + 1,
     signal : {"none", "term", "kill"}]         \* the last one sent

ConnectingTypeOK ==
    /\ alive \in BOOLEAN
    /\ phase \in {"loop", "firing", "closing", "grace", "stopped"}
    /\ listeners \in Seq({"conn", "reaper"} \X Conns)
    /\ at \in 1..2 * Cardinality(Conns) + 1
    /\ hand \in {Idle} \cup [conn : Conns, side : Sides, lines : Seq(Lines)]
    /\ conn \in [Conns -> ConnectionRecords]
    /\ pipe \in [Conns -> [Sides -> Seq(Lines)]]
    /\ said \in [Conns -> SUBSET Lines]
    /\ ends \in [Conns -> SUBSET Sides]
    /\ user \in [Conns -> {"idle", "waiting", "woken", "returned", "raised"}]

New == [stage |-> "none", timer |-> FALSE, cause |-> None, done |-> FALSE, put |-> FALSE,
        side |-> [s \in Sides |-> "none"], sent |-> FALSE, fed |-> FALSE,
        detached |-> FALSE, proc |-> "none", reaper |-> FALSE, tick |-> FALSE,
        tries |-> 0, signal |-> "none"]

ConnectingInit ==
    /\ alive = TRUE /\ phase = "loop"
    /\ listeners = <<>> /\ at = 1
    /\ hand = Idle
    /\ conn = [c \in Conns |-> New]
    /\ pipe = [c \in Conns |-> [s \in Sides |-> <<>>]]
    /\ said = [c \in Conns |-> {}]
    /\ ends = [c \in Conns |-> {}]
    /\ user = [c \in Conns |-> "idle"]

----------------------------------------------------------------------------
(* Reaper, on the record r of one connection.                              *)

\* reap() sends no signal to a detached child that is the context itself.
Signal(r, immediate) ==
    CASE r.detached /\ immediate -> r.signal
      [] r.tries = TermTry -> "term"
      [] r.tries = KillTry -> "kill"
      [] OTHER -> r.signal

\* Reaper.reap(): poll the process; if it runs, poll again later.
Reap(r, immediate) ==
    LET again == [r EXCEPT !.tries = @ + 1]
    IN  IF r.proc = "exited" THEN [r EXCEPT !.proc = "reaped", !.tick = FALSE]
        ELSE IF again.tries > MaxTries THEN [again EXCEPT !.tick = FALSE]
        ELSE [again EXCEPT !.tick = TRUE, !.signal = Signal(again, immediate)]

----------------------------------------------------------------------------
(* Connection, on the record r of one connection.                          *)

\* create_child() of every method but these keeps stderr apart: a pipe, or the
\* controlling TTY.
HasDiag(c) == Method[c] \in {"ssh", "sudo", "doas"}

\* child_is_immediate_subprocess
Immediate(c) == Method[c] = "local"

Open(r, s) == r.side[s] = "open"

Registered(r) == r.done /\ Open(r, "stdio")

\* Mutant: the last failure is the one reported.
LastCause(r, e) == [r EXCEPT !.cause = e]

\* The first failure is the one reported: a stream disconnected by a failure
\* fails the attempt again.
Cause(r, e) == IF r.cause = None THEN [r EXCEPT !.cause = e] ELSE r

\* _on_streams_disconnected(): an active timer tells an attempt under way.
BothGone(r, c) ==
    LET failed == IF r.timer
                  THEN [Cause(r, "eof") EXCEPT !.timer = FALSE, !.put = TRUE]
                  ELSE r
    IN  IF failed.reaper THEN failed
        ELSE Reap([failed EXCEPT !.reaper = TRUE], Immediate(c))

OtherGone(r, s) ==
    IF s = "stdio" THEN ~Open(r, "diag") ELSE r.side["stdio"] = "closed"

\* Stream.on_disconnect(): the listeners, on_stdio_disconnect() or
\* on_stderr_disconnect(), then both sides are closed.
Gone(r, c, s) ==
    [(IF OtherGone(r, s) THEN BothGone(r, c) ELSE r) EXCEPT !.side[s] = "closed"]

GoneIfOpen(r, c, s) == IF Open(r, s) THEN Gone(r, c, s) ELSE r

\* Mutant: the stream of diagnostics is left to close by itself.
ClosesStdio(r, c) == GoneIfOpen(r, c, "stdio")

CloseBoth(r, c) == GoneIfOpen(GoneIfOpen(r, c, "stdio"), c, "diag")

\* Mutant: only success is told.
TellsSuccess(r) == [r EXCEPT !.timer = FALSE, !.put = @ \/ r.cause = None,
                             !.done = @ \/ r.cause = None]

\* _complete_connection(): also the end of _fail_connection().
Complete(r) == [r EXCEPT !.timer = FALSE, !.put = TRUE,
                         !.done = @ \/ r.cause = None]

\* _fail_connection() of an attempt whose listener is registered, or that has
\* failed before.
Fail(r, c, e) == Complete(CloseBoth(Cause(r, e), c))

\* The same from a line of diagnostics.  unlisten() raises ValueError once the
\* connection is established: the cause is set and _call() disconnects the
\* stream the line came from.
FailHearing(r, c, e) ==
    IF r.done /\ r.cause = None THEN Gone(Cause(r, e), c, "diag") ELSE Fail(r, c, e)

----------------------------------------------------------------------------
(* What each line makes the protocol of its stream do.                     *)

\* _on_password_prompt() of su, sudo and doas.
Prompted(r, c) ==
    IF c \notin Passwords THEN FailHearing(r, c, "required")
    ELSE IF r.sent THEN FailHearing(r, c, "incorrect")
    ELSE [r EXCEPT !.sent = TRUE]

\* That of ssh answers every prompt; without a password it calls a method
\* Connection does not have, and _call() disconnects the stream.
SshPrompted(r, c) ==
    IF c \in Passwords THEN [r EXCEPT !.sent = TRUE] ELSE Gone(r, c, "diag")

\* _on_permission_denied(), _on_password_incorrect(), _on_incorrect_password().  Of
\* what sudo says only a second prompt means a refusal: Says keeps "denied" from it.
Denied(r, c) ==
    CASE Method[c] = "ssh" ->
           FailHearing(r, c, IF c \notin Passwords THEN "required"
                             ELSE IF r.sent THEN "incorrect" ELSE "auth")
      [] Method[c] = "doas" -> IF r.sent THEN FailHearing(r, c, "incorrect") ELSE r
      [] OTHER -> FailHearing(r, c, "incorrect")

Heard(r, c, line) ==
    CASE line = "ec0" -> [r EXCEPT !.fed = TRUE]
      [] line = "ec2" -> Complete(r)
      [] line \in {"prompt", "reprompt"} ->
           IF Method[c] = "ssh" THEN SshPrompted(r, c) ELSE Prompted(r, c)
      [] line = "denied" -> Denied(r, c)
      [] line = "hostkey" -> FailHearing(r, c, "hostkey")

\* The handler of the line raises: _call() disconnects the stream, and the rest of
\* the buffer is lost.
Raises(r, c, line) ==
    \/ line \in {"prompt", "reprompt"} /\ Method[c] = "ssh" /\ c \notin Passwords
    \/ r.done /\ r.cause = None /\ Heard(r, c, line).cause # None

----------------------------------------------------------------------------
(* The 'shutdown' signal of the broker.                                    *)

\* unlisten(): list.remove().
Unlistened(ls, l) ==
    IF \E i \in DOMAIN ls : ls[i] = l
    THEN LET first == CHOOSE i \in DOMAIN ls : ls[i] = l /\ \A j \in 1 .. i - 1 : ls[j] # l
         IN  [j \in 1 .. Len(ls) - 1 |-> IF j < first THEN ls[j] ELSE ls[j + 1]]
    ELSE ls

\* listen() and unlisten() calls between records r and n of connection c: a
\* connection stops listening when it fails or is established, a Reaper starts
\* when it first schedules a poll.  No Reaper ever stops listening:
\* _remove_timer() finds its timer expired.
Relisten(ls, c, r, n) ==
    LET gone == (r.cause = None /\ ~r.done) /\ (n.cause # None \/ n.done)
        kept == IF gone THEN Unlistened(ls, <<"conn", c>>) ELSE ls
    IN  IF r.tries = 0 /\ n.tick THEN Append(kept, <<"reaper", c>>) ELSE kept

\* Connection c becomes n, in a handler on the broker thread.
Becomes(c, n) ==
    /\ conn' = [conn EXCEPT ![c] = n]
    /\ listeners' = Relisten(listeners, c, conn[c], n)

Looping == phase \in {"loop", "grace"} /\ hand = Idle

----------------------------------------------------------------------------
(* User threads.                                                           *)

\* Connection.connect(): the attempt is deferred to the broker thread.
Connect(c) ==
    /\ user[c] = "idle" /\ phase = "loop"
    /\ Cardinality({d \in Conns : user[d] # "idle"}) < Attempts
    /\ user' = [user EXCEPT ![c] = "waiting"]
    /\ conn' = [conn EXCEPT ![c].stage = "queued"]
    /\ UNCHANGED <<broker, listeners, hand, child>>

\* latch.get() returns
Wake(c) ==
    /\ user[c] = "waiting" /\ conn[c].put
    /\ user' = [user EXCEPT ![c] = "woken"]
    /\ UNCHANGED <<broker, listeners, hand, conn, child>>

\* if self.exception: raise self.exception
Return(c) ==
    /\ user[c] = "woken"
    /\ user' = [user EXCEPT ![c] = IF conn[c].cause = None THEN "returned" ELSE "raised"]
    /\ UNCHANGED <<broker, listeners, hand, conn, child>>

\* Broker.shutdown(), from any thread.
BrokerShutdown ==
    /\ alive
    /\ alive' = FALSE
    /\ UNCHANGED <<phase, at, listeners, hand, conn, child, user>>

----------------------------------------------------------------------------
(* The broker thread: a connection attempt.                                *)

\* _async_connect()
AsyncConnect(c) ==
    LET listening == Append(listeners, <<"conn", c>>)
        timed == [conn[c] EXCEPT !.stage = "started", !.timer = TRUE]
        begun == [timed EXCEPT !.proc = "running",
                               !.side = [s \in Sides |-> IF s = "stdio" \/ HasDiag(c)
                                                         THEN "open" ELSE "none"]]
    IN  /\ phase = "loop" /\ hand = Idle
        /\ conn[c].stage = "queued"
        /\ \/ /\ conn' = [conn EXCEPT ![c] = begun]
              /\ listeners' = listening
              /\ ends' = [ends EXCEPT ![c] = {s \in Sides : Open(begun, s)}]
           \/ /\ conn' = [conn EXCEPT ![c] = Fail(timed, c, "start")]
              /\ listeners' = Relisten(listening, c, timed, conn'[c])
              /\ UNCHANGED ends
        /\ UNCHANGED <<broker, hand, pipe, said, user>>

\* Stream.on_receive(): everything written so far is read at once.
Read(c, s) ==
    /\ Looping /\ Open(conn[c], s)
    /\ pipe[c][s] # <<>>
    /\ hand' = [conn |-> c, side |-> s, lines |-> pipe[c][s]]
    /\ pipe' = [pipe EXCEPT ![c][s] = <<>>]
    /\ UNCHANGED <<broker, listeners, conn, said, ends, user>>

\* One line of what was read.  After MITO002, or with MitogenProtocol attached,
\* what follows on stdio is messages.
Hear ==
    LET c == hand.conn
        line == Head(hand.lines)
        left == IF line = "ec2" \/ Raises(conn[c], c, line) THEN <<>> ELSE Tail(hand.lines)
    IN  /\ hand # Idle
        /\ hand' = IF left = <<>> THEN Idle ELSE [hand EXCEPT !.lines = left]
        /\ Becomes(c, Heard(conn[c], c, line))
        /\ UNCHANGED <<broker, child, user>>

\* An empty read.
ReadEof(c, s) ==
    /\ Looping /\ Open(conn[c], s)
    /\ pipe[c][s] = <<>> /\ s \notin ends[c]
    /\ Becomes(c, Gone(conn[c], c, s))
    /\ UNCHANGED <<broker, hand, child, user>>

\* TimerList.expire() clears active, then calls _on_timer_expired().
Expire(c) ==
    /\ Looping /\ conn[c].timer
    /\ Becomes(c, Fail([conn[c] EXCEPT !.timer = FALSE], c, "timeout"))
    /\ UNCHANGED <<broker, hand, child, user>>

ReapAgain(c) ==
    /\ Looping /\ conn[c].tick
    /\ Becomes(c, Reap([conn[c] EXCEPT !.tick = FALSE], Immediate(c)))
    /\ UNCHANGED <<broker, hand, child, user>>

\* Router._on_detaching()
OnDetaching(c) ==
    /\ Looping /\ c \in Detachers
    /\ Registered(conn[c]) /\ ~conn[c].detached
    /\ conn' = [conn EXCEPT ![c].detached = TRUE]
    /\ UNCHANGED <<broker, listeners, hand, child, user>>

----------------------------------------------------------------------------
(* The broker thread: shutdown.                                            *)

BeginFiring ==
    /\ phase = "loop" /\ ~alive /\ hand = Idle
    /\ phase' = "firing" /\ at' = 1
    /\ UNCHANGED <<alive, listeners, hand, conn, child, user>>

\* Connection._on_broker_shutdown() and Reaper._on_broker_shutdown()
Told(l) ==
    LET c == l[2]
    IN  IF l[1] = "conn" THEN Fail(conn[c], c, "cancelled")
        ELSE IF conn[c].detached THEN [conn[c] EXCEPT !.tick = FALSE] ELSE conn[c]

\* One turn of the loop of fire(), over a list the listeners change.
FireOne ==
    /\ phase = "firing"
    /\ IF at > Len(listeners)
       THEN phase' = "closing" /\ UNCHANGED <<at, conn, listeners>>
       ELSE /\ Becomes(listeners[at][2], Told(listeners[at]))
            /\ at' = at + 1
            /\ UNCHANGED phase
    /\ UNCHANGED <<alive, hand, child, user>>

\* _broker_shutdown(): Protocol.on_shutdown() disconnects, MitogenProtocol's asks
\* the child to exit.
AskedToClose(c) ==
    LET r == conn[c]
    IN  GoneIfOpen(IF r.done THEN r ELSE GoneIfOpen(r, c, "stdio"), c, "diag")

CloseStreams ==
    /\ phase = "closing"
    /\ phase' = "grace"
    /\ conn' = [c \in Conns |-> AskedToClose(c)]
    /\ UNCHANGED <<alive, at, listeners, hand, child, user>>

\* keep_alive() is FALSE, or the grace period is over: _broker_exit().
Stop ==
    /\ phase = "grace" /\ hand = Idle
    /\ phase' = "stopped"
    /\ conn' = [c \in Conns |-> CloseBoth(conn[c], c)]
    /\ UNCHANGED <<alive, at, listeners, hand, child, user>>

----------------------------------------------------------------------------
(* Children.  Not under src/ are the programs a child runs before Mitogen: *)
(* the shell, ssh, su, sudo, doas.                                         *)

SideOf(c, line) ==
    IF line \in {"ec0", "ec2"} \/ ~HasDiag(c) THEN "stdio" ELSE "diag"

\* The bootstrap runs once su, sudo or doas is satisfied, and sends MITO002 once
\* it was fed; what a shell or a banner prints may be taken for a refusal.
May(c, line) ==
    /\ line \in Says[c] \ said[c]
    /\ line = "ec2" => conn[c].fed
    /\ line = "reprompt" => conn[c].sent
    /\ SideOf(c, line) = "stdio" /\ line \notin {"ec0", "ec2"} => "ec0" \notin said[c]

Say(c, line) ==
    /\ conn[c].proc = "running" /\ May(c, line)
    /\ SideOf(c, line) \in ends[c]
    /\ said' = [said EXCEPT ![c] = @ \cup {line}]
    /\ pipe' = [pipe EXCEPT ![c][SideOf(c, line)] = Append(@, line)]
    /\ UNCHANGED <<broker, listeners, hand, conn, ends, user>>

\* The child exits; another process may still hold its stderr.
Exit(c) ==
    /\ conn[c].proc = "running"
    /\ conn' = [conn EXCEPT ![c].proc = "exited"]
    /\ ends' = [ends EXCEPT ![c] = @ \ {"stdio"}]
    /\ UNCHANGED <<broker, listeners, hand, pipe, said, user>>

Killed(c) == conn[c].signal = "kill" /\ c \notin Stubborn /\ Exit(c)

\* The last holder of stderr closes it.
DiagEnds(c) ==
    /\ conn[c].proc \in {"exited", "reaped"} /\ "diag" \in ends[c]
    /\ ends' = [ends EXCEPT ![c] = @ \ {"diag"}]
    /\ UNCHANGED <<broker, listeners, hand, conn, pipe, said, user>>

----------------------------------------------------------------------------
BrokerStep ==
    \/ \E c \in Conns :
          \/ AsyncConnect(c) \/ Expire(c) \/ ReapAgain(c)
          \/ \E s \in Sides : Read(c, s) \/ ReadEof(c, s)
    \/ Hear \/ BeginFiring \/ FireOne \/ CloseStreams \/ Stop

ConnectingNext ==
    \/ BrokerStep
    \/ BrokerShutdown
    \/ \E c \in Conns :
          \/ Connect(c) \/ Wake(c) \/ Return(c) \/ OnDetaching(c)
          \/ Exit(c) \/ DiagEnds(c) \/ \E line \in Lines : Say(c, line)

ConnectingSpec == ConnectingInit /\ [][ConnectingNext]_connectingVars

\* The broker thread and the user threads keep running, a deadline is reached,
\* and SIGKILL ends a process it is delivered to.
ConnectingFairness ==
    /\ WF_connectingVars(Hear \/ BeginFiring \/ FireOne \/ CloseStreams \/ Stop)
    /\ \A c \in Conns :
          /\ WF_connectingVars(AsyncConnect(c) \/ Expire(c) \/ ReapAgain(c))
          /\ WF_connectingVars(Wake(c) \/ Return(c))
          /\ WF_connectingVars(Killed(c))

ConnectingFairSpec == ConnectingSpec /\ ConnectingFairness

----------------------------------------------------------------------------
(* Properties.                                                             *)

GaveUp(r) == r.tries > MaxTries

Unattended(r) == r.proc \in {"running", "exited"} /\ ~r.tick /\ ~GaveUp(r)

\* Once its caller is told of a failure, an attempt leaves no open stream and
\* no process nobody will reap, unless the broker is gone (_fail_connection(),
\* Reaper: "to prevent uncontrolled buildup of zombie processes").
NothingLeft ==
    \A c \in Conns :
        conn[c].put /\ ~conn[c].done =>
            /\ \A s \in Sides : ~Open(conn[c], s)
            /\ phase # "stopped" => ~Unattended(conn[c])

\* The failure reported is the first, whatever fails because of it.
FirstCauseStays ==
    [][\A c \in Conns : conn[c].cause # None => conn'[c].cause = conn[c].cause]_connectingVars

\* An established connection is lost with its child or at shutdown, never by
\* what its connection attempt left behind: a timer, a prompt, a listener.
EstablishedStays ==
    [][\A c \in Conns :
          Registered(conn[c]) /\ ~Registered(conn'[c]) =>
              "stdio" \notin ends[c] \/ phase # "loop"]_connectingVars

\* What an attempt came to, a failure with its cause or a connection, is final.
OutcomeStays == FirstCauseStays /\ EstablishedStays

\* A caller whose attempt has begun is answered: _async_connect() installs a
\* timer, and latch.get() in connect() has no timeout of its own.
Settles ==
    \A c \in Conns :
        conn[c].stage = "started" ~> user[c] \in {"returned", "raised"}

\* A child both streams of which are gone, whether it was connected to or not, is
\* reaped or given up, unless the broker stops.
ChildEnds ==
    \A c \in Conns :
        conn[c].proc # "none" /\ ~(\E s \in Sides : Open(conn[c], s)) ~>
            conn[c].proc = "reaped" \/ GaveUp(conn[c]) \/ phase = "stopped"

\* Both ends of an attempt, the caller's wait and the child, come to an end.
AttemptsEnd == Settles /\ ChildEnds

\* "Arrange for func() to be invoked for every function registered for signal
\* name on obj": an attempt under way when the broker shuts down is cancelled.
ShutdownCancelsEvery == phase = "closing" => \A c \in Conns : ~conn[c].timer

\* "On failure, the exception object that should be propagated back to the
\* user": a caller that is told of a failure has no connection.
RaisedMeansFailed == \A c \in Conns : user[c] = "raised" => ~Registered(conn[c])
=============================================================================
