------------------------------ MODULE Bootstrap ------------------------------
(***************************************************************************)
(* The file descriptors of a new context: what the parent gives a child    *)
(* (mitogen.parent.create_child() and its like), the first stage of the    *)
(* bootstrap, ExternalContext.main(), and a child forked from a context.   *)
(*                                                                         *)
(* Everything is a function of a world w: w.create is how the child is     *)
(* created, w.escalates, w.selinux and w.fails what happens to that, and   *)
(* in the child w.py is Python's major version, w.noStderr says that what  *)
(* ran before closed descriptor 2, w.forks how many forks follow, w.epoll  *)
(* what their poller is, w.busy that they have many files open.            *)
(***************************************************************************)
EXTENDS Naturals, Sequences, FiniteSets, SequencesExt, FiniteSetsExt, TLC

(***************************************************************************)
(* The parent.                                                             *)
(***************************************************************************)
Creates == {"inherit", "merge", "pipe", "tty", "hybrid"}

HasPty(w) == w.create \in {"tty", "hybrid"}

\* openpty(), or no file when it fails.
Pty(w) == IF HasPty(w) THEN [parent |-> {"ttyP"}, child |-> {"ttyC"}]
          ELSE [parent |-> {}, child |-> {}]

\* create_best_pipe(): the ends of a socket pair; of two pipes where SELinux would
\* cut the socket off.
BestPipe(w) ==
    CASE w.create = "tty" -> [parent |-> {}, child |-> {}]
      [] w.escalates /\ w.selinux -> [parent |-> {"outR", "inW"}, child |-> {"inR", "outW"}]
      [] OTHER -> [parent |-> {"sockP"}, child |-> {"sockC"}]

Stderr(w) == IF w.create = "pipe" THEN [parent |-> {"errR"}, child |-> {"errW"}]
             ELSE [parent |-> {}, child |-> {}]

Made(w) ==
    LET all == CASE w.fails = "openpty" -> {}
                 [] w.fails = "pipe" -> {Pty(w)}
                 [] w.fails = "stderr" -> {BestPipe(w)}
                 [] OTHER -> {Pty(w), BestPipe(w), Stderr(w)}
    IN  UNION {e.parent \cup e.child : e \in all}

\* create_child(), tty_create_child() and hybrid_tty_create_child() close the child's
\* ends, or everything if they raise.  The pipe for stderr is made before the try.
Closes(w) ==
    CASE w.fails = "none" -> Pty(w).child \cup BestPipe(w).child \cup Stderr(w).child
      [] w.fails = "stderr" -> {}
      [] OTHER -> Made(w)

Held(w) == Made(w) \ Closes(w)

\* The standard files of the program, popen(close_fds=True); it may inherit the
\* parent's stderr.
Stdio(w) ==
    LET two == w.escalates /\ w.selinux
        in == IF w.create = "tty" THEN "ttyC" ELSE IF two THEN "inR" ELSE "sockC"
        out == IF w.create = "tty" THEN "ttyC" ELSE IF two THEN "outW" ELSE "sockC"
        err == CASE HasPty(w) -> "ttyC" [] w.create = "merge" -> out
                 [] w.create = "pipe" -> "errW" [] OTHER -> "err"
    IN  0 :> in @@ 1 :> out @@ 2 :> err

\* Process(stdin, stdout, stderr), from which the Connection makes its streams.
Ends(w) ==
    LET in == IF w.create = "tty" THEN {"ttyP"} ELSE BestPipe(w).parent
        err == CASE w.create = "pipe" -> {"errR"} [] w.create = "hybrid" -> {"ttyP"} [] OTHER -> {}
    IN  in \cup err

(***************************************************************************)
(* A process p: p.fd is its table of descriptors; a file has a name and    *)
(* the age of the context that opened it.  p.cloexec are those exec()      *)
(* closes, p.side the files Sides were made for, p.none and p.open  *)
(* which of sys.stdin, stdout and stderr are None and are not closed,      *)
(* p.owned says that closing sys.stdout closes its descriptor.             *)
(***************************************************************************)
Put(p, n, file, inherited) ==
    [p EXCEPT !.fd = (n :> file) @@ @,
              !.cloexec = IF inherited THEN @ \ {n} ELSE @ \cup {n}]

\* open(), pipe() and dup() take the lowest number; since PEP 446 exec() closes it.
Lowest(p) == Min((0..Cardinality(DOMAIN p.fd)) \ DOMAIN p.fd)
Open(p, file) == Put(p, Lowest(p), file, p.py = 2)
Pair(p, f, g) == Open(Open(p, f), g)
Dup(p, n) == Open(p, p.fd[n])
Dup2(p, n, m) == Put(p, m, p.fd[n], TRUE)

Drop(p, ns) ==
    [p EXCEPT !.fd = [n \in DOMAIN p.fd \ ns |-> p.fd[n]], !.cloexec = @ \ ns]

Exec(p) == Drop(p, p.cloexec)

File(p, name) == <<name, p.age>>

At(p, file) == CHOOSE n \in DOMAIN p.fd : p.fd[n] = file

Started(w) ==
    [fd |-> [n \in IF w.noStderr THEN 0..1 ELSE 0..2 |-> <<Stdio(w)[n], 0>>],
     cloexec |-> {}, py |-> w.py, side |-> <<>>, ok |-> TRUE, age |-> 0, owned |-> FALSE,
     none |-> IF w.noStderr /\ w.py = 3 THEN {2} ELSE {},
     open |-> IF w.noStderr /\ w.py = 3 THEN {0, 1} ELSE {0, 1, 2}]

(***************************************************************************)
(* _first_stage(): it forks; one process becomes the interpreter of what   *)
(* the other, the first stage, reads from the parent and writes twice.     *)
(***************************************************************************)
Source == {<<"srcR", 0>>, <<"srcW", 0>>, <<"coreR", 0>>, <<"coreW", 0>>}

FirstStage(w) == Pair(Pair(Started(w), <<"srcR", 0>>, <<"srcW", 0>>), <<"coreR", 0>>, <<"coreW", 0>>)

Interpreter(w) ==
    LET a == FirstStage(w)
        b == Dup2(Dup2(Dup2(a, 0, 100), At(a, <<"srcR", 0>>), 0), At(a, <<"coreR", 0>>), 101)
    IN  Exec(Drop(b, {At(a, f) : f \in Source}))

(***************************************************************************)
(* The two run together.  They share pipes that hold Room pieces of the    *)
(* source, which has Pieces, each with one reader and one writer, and      *)
(* wait(): whatever runs first, the outcome is the same.                   *)
(***************************************************************************)
Room == 1
Pieces == 2

Do(op, x) == <<op, x>>

WriteAll(x) == [i \in 1..Pieces |-> Do("write", x)] \o <<Do("close", x)>>

\* The first stage exits when there is nothing left for it to do.
FirstSteps ==
    <<Do("say", "ec0"), Do("ask", "source")>> \o WriteAll("srcW") \o WriteAll("coreW")
        \o <<Do("say", "ec1")>>

\* Mutant: the first stage is reaped before the source of mitogen.core is read.
ReapsFirst == <<Do("read", 0), Do("wait", "first"), Do("read", 101), Do("say", "ec2")>>

\* The interpreter reads its script to the end; it ends with a call of
\* ExternalContext.main().
MainSteps == <<Do("read", 0), Do("read", 101), Do("wait", "first"), Do("say", "ec2")>>

End(file) == IF file[1] = "srcR" THEN "srcW" ELSE "coreW"

Booting(w) ==
    [todo |-> [first |-> FirstSteps, main |-> MainSteps],
     held |-> [first |-> {"srcW", "coreW"}, main |-> {Interpreter(w).fd[n][1] : n \in DOMAIN Interpreter(w).fd}],
     pipe |-> [x \in {"srcW", "coreW"} |-> 0],
     got |-> [n \in {0, 101} |-> 0],
     said |-> <<>>]

\* A read of an empty pipe returns when nobody can write to it any more.  The parent
\* sends the source when it reads MITO000 (BootstrapProtocol).
Able(w, s, who) ==
    /\ s.todo[who] # <<>>
    /\ LET op == Head(s.todo[who])[1]  x == Head(s.todo[who])[2]
       IN  CASE op = "write" -> s.pipe[x] < Room
             [] op = "read" ->
                  LET e == End(Interpreter(w).fd[x])
                  IN  s.pipe[e] > 0 \/ \A q \in {"first", "main"} : e \notin s.held[q]
             [] op = "wait" -> s.todo[x] = <<>>
             [] op = "ask" -> "ec0" \in Range(s.said)
             [] OTHER -> TRUE

Stepped(w, s, who) ==
    LET op == Head(s.todo[who])[1]  x == Head(s.todo[who])[2]
        next == [s EXCEPT !.todo[who] = Tail(@)]
    IN  CASE op = "write" -> [next EXCEPT !.pipe[x] = @ + 1]
          [] op = "close" -> [next EXCEPT !.held[who] = @ \ {x}]
          [] op = "say" -> [next EXCEPT !.said = Append(@, x)]
          [] op = "read" ->
               LET e == End(Interpreter(w).fd[x])
               IN  IF s.pipe[e] > 0 THEN [s EXCEPT !.pipe[e] = @ - 1, !.got[x] = @ + 1] ELSE next
          [] OTHER -> next

MaxSteps == 2 * (Len(FirstSteps) + Len(MainSteps))

Ran(w) ==
    LET after[i \in 0..MaxSteps] ==
            IF i = 0 THEN Booting(w)
            ELSE LET s == after[i - 1]
                     able == {who \in {"first", "main"} : Able(w, s, who)}
                 IN  IF able = {} THEN s ELSE Stepped(w, s, CHOOSE who \in able : TRUE)
    IN  after[MaxSteps]

(***************************************************************************)
(* ExternalContext.main(), on the descriptors of the process.  Files are   *)
(* named with the age of the context, which a fork adds one to.            *)
(***************************************************************************)

\* Side.__init__(); set_cloexec() asserts the descriptor is not a standard one.
Side(p, n, file) ==
    [p EXCEPT !.side = (n :> file) @@ @, !.cloexec = @ \cup {n}, !.ok = @ /\ n \notin p.open]

\* A stream on two new files.
Stream(p, f, g) ==
    LET q == Pair(p, f, g) IN Side(Side(q, At(q, f), f), At(q, g), g)

\* The Waker of the new Broker, then the stream of the parent.
SetupMaster(p) ==
    LET a == Stream(p, File(p, "wakeR"), File(p, "wakeW"))
        b == Dup(a, 100)
        closed == Drop(b, {100})
        c == Dup(closed, 1)
    IN  Side(Side(c, Lowest(a), a.fd[100]), Lowest(closed), a.fd[1])

\* The source of mitogen.core was read; a fork has the importer of its parent.
SetupImporter(p) == IF p.age = 0 THEN Drop(p, {101}) ELSE p

PreserveTty(p) ==
    IF 2 \in DOMAIN p.fd /\ p.fd[2][1] = "ttyC"
    THEN LET q == Dup(p, 2) IN [q EXCEPT !.cloexec = @ \cup {Lowest(p)}]
    ELSE p

Nullify(p, n) ==
    LET q == Open(p, File(p, "null"))
    IN  IF n \in p.none THEN p
        ELSE IF Lowest(p) = n THEN q ELSE Drop(Dup2(q, Lowest(p), n), {Lowest(p)})

NullifyStdio(p) == Nullify(Nullify(Nullify(p, 0), 1), 2)

CloseStdout(p) == [(IF p.owned THEN Drop(p, {1}) ELSE p) EXCEPT !.open = @ \ {1}]

LogEnds(n) == IF n = 1 THEN <<"stdoutR", "stdoutW">> ELSE <<"stderrR", "stderrW">>

\* IoLoggerProtocol.build_stream()
Logger(p, n) ==
    LET r == File(p, LogEnds(n)[1])  w == File(p, LogEnds(n)[2])
        q == Pair(p, r, w)
        at == [f \in {r, w} |-> At(q, f)]
    IN  IF n \in p.none THEN p ELSE Side(Side(Dup2(q, at[w], n), at[r], r), at[w], w)

\* sys.stdout = os.fdopen(1): if it was the last reference to one that was not
\* closed, that one closes its descriptor.
ReopenStdout(p) ==
    [(IF p.owned /\ 1 \in p.open THEN Drop(p, {1}) ELSE p) EXCEPT
        !.owned = TRUE, !.open = @ \cup {1}]

SetupStdio(p) ==
    ReopenStdout(Logger(Logger(NullifyStdio(CloseStdout(NullifyStdio(PreserveTty(p)))), 1), 2))

Main(p) == SetupStdio(SetupImporter(SetupMaster(p)))

(***************************************************************************)
(* mitogen.fork: the process becomes its own child.                        *)
(***************************************************************************)

\* The channel is descriptors 0, 1 and 100 by then.
CloseChannel(p, n) == IF n \in {0, 1, 100} THEN p ELSE Drop(p, {n})

\* Every descriptor below 99 is in use; the channel gets 99 and 100.
Busy(p) ==
    LET free == 0..98 \ DOMAIN p.fd
    IN  [p EXCEPT !.fd = @ @@ [n \in free |-> File(p, "user")], !.cloexec = @ \cup free]

\* Side._on_fork()
OnFork(p) == [Drop(p, DOMAIN p.side) EXCEPT !.side = <<>>]

\* upgrade_router(), without which a context cannot fork: its new poller has a
\* descriptor of its own, for which there is no Side.
Upgraded(w, p) == IF w.epoll THEN Open(p, File(p, "epoll")) ELSE p

\* start_child() and _child_main()
Forked(p) ==
    LET chan == File(p, "chan")
        q == Pair(p, File(p, "parent"), chan)
        n == At(q, chan)
        a == OnFork(Drop(q, {At(q, File(p, "parent"))}))
        b == Dup2(Dup2(Dup2(a, n, 1), n, 100), n, 0)
        null == Open(b, File(p, "null"))
        c == IF Lowest(b) = 2 THEN null ELSE Drop(Dup2(null, Lowest(b), 2), {Lowest(b)})
    IN  [CloseChannel(c, n) EXCEPT !.age = @ + 1]

Context(w) ==
    LET after[i \in 0..w.forks] ==
            IF i = 0 THEN Main(Interpreter(w))
            ELSE LET p == Upgraded(w, after[i - 1]) IN Main(Forked(IF w.busy THEN Busy(p) ELSE p))
    IN  after[w.forks]

-----------------------------------------------------------------------------
(* Properties.                                                             *)

\* The parent keeps the ends it talks to the child through and no other, or it would
\* never see the child's end; when it fails it keeps none (create_child() and its
\* like).  If it is the pipe for stderr that cannot be made, the pair made before is
\* left to its file objects, which close it when they are collected.
HoldsItsEnds(w) ==
    Held(w) = CASE w.fails = "none" -> Ends(w)
                [] w.fails = "stderr" -> BestPipe(w).parent \cup BestPipe(w).child
                [] OTHER -> {}

\* The bootstrap neither hangs nor answers out of order: both readers get the
\* whole source and then see its end, and the parent sees MITO000, MITO001, MITO002.
Boots(w) ==
    LET s == Ran(w)
    IN  /\ s.said = <<"ec0", "ec1", "ec2">>
        /\ s.got = [n \in {0, 101} |-> Pieces]

\* The pollers of those a forked context comes from: nothing closes them in it.
Ancestral(p) == {n \in DOMAIN p.fd : p.fd[n][1] = "epoll" /\ p.fd[n][2] < p.age}

\* What a context, booted or forked, has open is what its streams were made for, the
\* loggers in place of its output, a TTY to keep, and at most the poller of each ancestor
\* it was forked from; a program it runs inherits only standard files, and with Python 2
\* those pollers.  Python 2 may not start without a stderr.
OnlyItsFiles(w) ==
    LET p == Context(w)
        std == {0, 1, 2} \ p.none
        own == DOMAIN p.fd \ (Ancestral(p) \cup {0, 1, 2})
    IN  IF p.ok
        THEN /\ \A n \in DOMAIN p.side : n \in DOMAIN p.fd /\ p.fd[n] = p.side[n]
             /\ \A n \in own \ DOMAIN p.side : p.fd[n][1] \in {"ttyC", "user"}
             /\ {p.fd[n] : n \in Ancestral(p)} \subseteq
                    {<<"epoll", age>> : age \in IF w.epoll THEN 0..w.forks - 1 ELSE {}}
             /\ std \subseteq DOMAIN p.fd
             /\ p.fd[0] = File(p, "null")
             /\ \A n \in std \ {0} : p.fd[n] = File(p, LogEnds(n)[2])
             /\ own \cup (IF w.py = 3 THEN Ancestral(p) ELSE {}) \subseteq p.cloexec
        ELSE w.noStderr /\ w.py = 2
=============================================================================
