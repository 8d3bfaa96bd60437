------------------------------- MODULE Files -------------------------------
(***************************************************************************)
(* Streaming file transfer: service.FileService in the multiplexer's       *)
(* service pool, and target.transfer_file() / FileService.get() in the     *)
(* targets.                                                                *)
(*                                                                         *)
(* put_file() registers the path, then calls transfer_file() in the target *)
(* context.  That creates a temporary file, asks the pool to fetch() and   *)
(* consumes what arrives on its receiver, acknowledging every chunk, until *)
(* the sender is closed; if the whole file came it renames the temporary   *)
(* file over the output, otherwise it removes it.  The pool keeps one      *)
(* queue of jobs and one count of unacknowledged bytes per STREAM, which   *)
(* all the contexts reached through it share.  Requests are taken by pool  *)
(* threads in any order; fetch() replies first and takes the stream's lock *)
(* only afterwards.  Contexts die, alone or with their stream; the file is *)
(* truncated or grows meanwhile; the multiplexer shuts down.               *)
(*                                                                         *)
(* A file is a number of chunks, each as long as one read() makes it and   *)
(* known by its position; a shorter last chunk counts as a whole one.      *)
(***************************************************************************)
EXTENDS Integers, FiniteSets, Sequences

CONSTANTS
    Contexts,       \* the target contexts
    Streams,        \* the multiplexer's streams
    StreamOf,       \* the stream each context is reached through
    Transfers,      \* one per call of transfer_file()
    ContextOf,      \* the context each of them runs in
    SizeOf,         \* the file's size, in chunks, to begin with
    Absent,         \* transfers of a path not registered, or not readable
    Changing,       \* transfers whose file changes once
    Mortal,         \* contexts that may die
    Lossy,          \* streams that may be lost
    Reluctant,      \* transfers whose target may refuse the mode, owner, name or times
    Window,         \* window_size_bytes
    ChunkSize,      \* IO_SIZE, in bytes too
    NoStream        \* what stream_by_id() answers for an unknown context

ASSUME FilesAssumption ==
    /\ StreamOf \in [Contexts -> Streams]
    /\ ContextOf \in [Transfers -> Contexts]
    /\ SizeOf \in [Transfers -> Nat]
    /\ Absent \cup Changing \cup Reluctant \subseteq Transfers
    /\ Mortal \subseteq Contexts /\ Lossy \subseteq Streams
    /\ Window \in Nat \ {0} /\ ChunkSize \in Nat \ {0}
    /\ NoStream \notin Streams

VARIABLES
    \* the targets
    progress,   \* where transfer_file() is
    tmp,        \* the temporary files that exist
    want,       \* metadata['size'], once fetch() has replied
    got,        \* the chunks written to the temporary file
    out,        \* what the output path holds, where it was replaced
    dead,       \* contexts whose process is gone
    chan,       \* what is on its way to each transfer's reply and receiver
    \* the multiplexer
    fetches,    \* fetch() calls no pool thread has taken
    acks,       \* acknowledge() calls of each context likewise
    opened,     \* fetch() calls that have replied and not yet taken the lock
    jobs,       \* FileStreamState.jobs of each stream
    unacked,    \* FileStreamState.unacked
    mux,        \* how far the multiplexer's shutdown is
    size        \* the size of each file on the controller's disk

targets == <<progress, tmp, want, got, out, dead>>
filesVars == <<targets, chan, fetches, acks, opened, jobs, unacked, mux, size>>

Running == {"fetching", "receiving"}
Ended == {"done", "failed"}
Keys == Streams \cup {NoStream}
Sharing(s) == {t \in Transfers : StreamOf[ContextOf[t]] = s}

FilesInit ==
    /\ progress = [t \in Transfers |-> "new"]
    /\ tmp = {} /\ dead = {}
    /\ want = [t \in Transfers |-> 0]
    /\ got = [t \in Transfers |-> <<>>]
    /\ out = [t \in Transfers |-> <<>>]
    /\ chan = [t \in Transfers |-> <<>>]
    /\ fetches = {} /\ opened = {}
    /\ acks = [c \in Contexts |-> 0]
    /\ jobs = [s \in Keys |-> <<>>]
    /\ unacked = [s \in Keys |-> 0]
    /\ mux = "running"
    /\ size = SizeOf

-----------------------------------------------------------------------------
(* The stream a context is reached through, as the router knows it now.    *)
StreamNow(c) == IF c \in dead THEN NoStream ELSE StreamOf[c]

(* What reaches a target once the multiplexer sent ms[t] to each transfer: *)
(* nothing, if its context is gone or the multiplexer's streams are.       *)
Sent(ms) ==
    [t \in Transfers |->
        IF ContextOf[t] \in dead \/ mux \in {"exited", "joined"}
        THEN chan[t] ELSE chan[t] \o ms[t]]

Chunks(from, n) == [i \in 1 .. n |-> [kind |-> "chunk", n |-> from + i]]
Closing == [kind |-> "close", n |-> 0]

(* The loop reads and sends another chunk while the bytes unacknowledged   *)
(* are fewer than the window: so many chunks, the last of which may go     *)
(* past it.                                                                *)
Quota == (Window + ChunkSize - 1) \div ChunkSize

(* Mutant: the window is not looked at.                                    *)
ChunkedNoWindow(acc, j) ==
    LET rest == IF size[j.t] > j.pos THEN size[j.t] - j.pos ELSE 0
    IN  [acc EXCEPT !.room = IF @ < rest THEN 0 ELSE @ - rest,
                    !.ms[j.t] = Chunks(j.pos, rest) \o <<Closing>>]

(***************************************************************************)
(* _schedule_pending_unlocked(): the first job's chunks are sent while     *)
(* there is room in the window; the end of the file is only noticed, and   *)
(* the job removed, while there is room.  A transfer has one job.          *)
(***************************************************************************)
Chunked(acc, j) ==
    LET rest == IF size[j.t] > j.pos THEN size[j.t] - j.pos ELSE 0
        n    == IF rest < acc.room THEN rest ELSE acc.room
        ends == rest < acc.room
    IN  [room |-> acc.room - n,
         left |-> IF ends THEN acc.left
                  ELSE Append(acc.left, [j EXCEPT !.pos = @ + n]),
         ms   |-> [acc.ms EXCEPT ![j.t] = Chunks(j.pos, n)
                        \o IF ends THEN <<Closing>> ELSE <<>>]]

Pumped(js, u) ==
    LET pumped[i \in 0 .. Len(js)] ==
            IF i = 0 THEN [room |-> Quota - u, left |-> <<>>,
                           ms |-> [t \in Transfers |-> <<>>]]
            ELSE Chunked(pumped[i - 1], js[i])
    IN  pumped[Len(js)]

(* The critical section of fetch() and acknowledge().  Once the broker has *)
(* exited the first send raises.                                           *)
SchedulePending(s, js, u) ==
    LET p == Pumped(js, u)
    IN  IF mux = "exited"
        THEN /\ jobs' = [jobs EXCEPT ![s] = js]
             /\ unacked' = [unacked EXCEPT ![s] = u]
             /\ UNCHANGED chan
        ELSE /\ jobs' = [jobs EXCEPT ![s] = p.left]
             /\ unacked' = [unacked EXCEPT ![s] = Quota - p.room]
             /\ chan' = Sent(p.ms)

-----------------------------------------------------------------------------
(* The target.                                                             *)

(* put_file() has registered the path; transfer_file() starts once the     *)
(* context's dispatcher is free: mkstemp(), then the call of fetch().      *)
TransferFile(t) ==
    LET c == ContextOf[t]
    IN  /\ mux = "running" /\ c \notin dead
        /\ progress[t] = "new"
        /\ \A u \in Transfers : ContextOf[u] = c => progress[u] \notin Running
        /\ progress' = [progress EXCEPT ![t] = "fetching"]
        /\ tmp' = tmp \cup {t}
        /\ fetches' = fetches \cup {t}
        /\ UNCHANGED <<want, got, out, dead, chan, acks, opened, jobs,
                       unacked, mux, size>>

(* The end of transfer_file(): rename() and utime(), or unlink() and an    *)
(* exception, which the mode, owner or rename() may raise too, and utime() *)
(* once the output is replaced.                                            *)
Finish(t, ok) ==
    /\ tmp' = tmp \ {t}
    /\ out' \in {out} \cup IF ok THEN {[out EXCEPT ![t] = got[t]]} ELSE {}
    /\ \/ /\ ok /\ out' = [out EXCEPT ![t] = got[t]]
          /\ progress' = [progress EXCEPT ![t] = "done"]
       \/ /\ ok => t \in Reluctant
          /\ progress' = [progress EXCEPT ![t] = "failed"]

(* Mutant: the sizes are not compared.                                     *)
NeverCompared(t) == TRUE

Whole(t) == Len(got[t]) = want[t]

(* The main thread takes what has arrived: the reply of fetch(), and then  *)
(* what FileService.get() finds on its receiver.                           *)
ReceiveNext(t) ==
    LET c == ContextOf[t]
        m == Head(chan[t])
    IN  /\ c \notin dead /\ progress[t] \in Running /\ chan[t] # <<>>
        /\ chan' = [chan EXCEPT ![t] = Tail(@)]
        /\ \/ /\ m.kind = "stat"
              /\ progress' = [progress EXCEPT ![t] = "receiving"]
              /\ want' = [want EXCEPT ![t] = m.n]
              /\ UNCHANGED <<tmp, got, out, acks>>
           \/ /\ \/ m.kind = "error"
                 \/ m.kind = "dead" /\ progress[t] = "fetching"
              /\ Finish(t, FALSE)
              /\ UNCHANGED <<want, got, acks>>
           \/ /\ m.kind = "chunk"
              /\ got' = [got EXCEPT ![t] = Append(@, m.n)]
              /\ acks' = IF mux = "running"
                         THEN [acks EXCEPT ![c] = @ + 1] ELSE acks
              /\ UNCHANGED <<progress, tmp, want, out>>
           \/ /\ m.kind \in {"close", "dead"} /\ progress[t] = "receiving"
              /\ Finish(t, Whole(t))
              /\ UNCHANGED <<want, got, acks>>
        /\ UNCHANGED <<dead, fetches, opened, jobs, unacked, mux, size>>

-----------------------------------------------------------------------------
(* The service pool.                                                       *)

(* fetch() up to its reply, which must arrive before any chunk.            *)
Fetch(t) ==
    LET refused == t \in Absent
        reply   == IF refused THEN [kind |-> "error", n |-> 0]
                   ELSE [kind |-> "stat", n |-> size[t]]
    IN  /\ t \in fetches
        /\ fetches' = fetches \ {t}
        /\ opened' = IF refused THEN opened ELSE opened \cup {t}
        /\ chan' = Sent([u \in Transfers |->
                            IF u = t THEN <<reply>> ELSE <<>>])
        /\ UNCHANGED <<targets, acks, jobs, unacked, mux, size>>

(* The rest of fetch(): the stream is looked up, its lock taken, the job   *)
(* appended and the first burst sent.                                      *)
Schedule(t) ==
    LET s == StreamNow(ContextOf[t])
    IN  /\ t \in opened
        /\ opened' = opened \ {t}
        /\ SchedulePending(s, Append(jobs[s], [t |-> t, pos |-> 0]),
                           unacked[s])
        /\ UNCHANGED <<targets, fetches, acks, mux, size>>

(* Mutant: the acknowledgement is not subtracted.                          *)
NeverCredited(s) == unacked[s]

(* acknowledge(): the window of the stream the caller is reached through   *)
(* moves on.                                                               *)
Credited(s) == unacked[s] - (IF unacked[s] < 1 THEN unacked[s] ELSE 1)

Acknowledge(c) ==
    LET s == StreamNow(c)
    IN  /\ acks[c] > 0
        /\ acks' = [acks EXCEPT ![c] = @ - 1]
        /\ SchedulePending(s, jobs[s], Credited(s))
        /\ UNCHANGED <<targets, fetches, opened, mux, size>>

-----------------------------------------------------------------------------
(* The rest of the world.                                                  *)

(* The file is truncated or appended to, once.                             *)
Change(t) ==
    /\ t \in Changing /\ size[t] = SizeOf[t]
    /\ \E n \in {SizeOf[t] - 1, SizeOf[t] + 1} \cap Nat :
          size' = [size EXCEPT ![t] = n]
    /\ UNCHANGED <<targets, chan, fetches, acks, opened, jobs, unacked, mux>>

(* Processes are gone, with everything on its way to them.                 *)
Gone(cs) ==
    /\ dead' = dead \cup cs
    /\ chan' = [t \in Transfers |->
                    IF ContextOf[t] \in cs THEN <<>> ELSE chan[t]]
    /\ UNCHANGED <<progress, tmp, want, got, out, fetches, acks, opened, jobs,
                   unacked, mux, size>>

(* A context dies and its route is withdrawn; the stream it shares stays.  *)
Die(c) == mux = "running" /\ c \in Mortal \ dead /\ Gone({c})

(* The stream is lost, and every context reached through it.               *)
Lose(s) ==
    /\ mux = "running" /\ s \in Lossy
    /\ {c \in Contexts : StreamOf[c] = s} \ dead # {}
    /\ Gone({c \in Contexts : StreamOf[c] = s})

(* MuxProcess._on_broker_shutdown(): the pool's receiver and select close; *)
(* what they still held is never taken.                                    *)
StopPool ==
    /\ mux = "running"
    /\ mux' = "stopping"
    /\ fetches' = {}
    /\ acks' = [c \in Contexts |-> 0]
    /\ UNCHANGED <<targets, chan, opened, jobs, unacked, size>>

(* The broker's streams are disconnected.  The broker of each target ends  *)
(* in turn, which posts a dead message to every handle.                    *)
Exit ==
    /\ mux = "stopping"
    /\ mux' = "exited"
    /\ chan' = Sent([t \in Transfers |-> <<[kind |-> "dead", n |-> 0]>>])
    /\ UNCHANGED <<targets, fetches, acks, opened, jobs, unacked, size>>

(* ... and then SIGTERM to itself: the main thread may not be done.        *)
Kill(c) ==
    /\ mux \in {"exited", "joined"} /\ c \notin dead
    /\ Gone({c})

(* MuxProcess._on_broker_exit(): the threads are joined, and only then     *)
(* FileService.on_shutdown() closes each job's sender and file; nothing is *)
(* connected any more.                                                     *)
Join ==
    /\ mux = "exited" /\ opened = {}
    /\ mux' = "joined"
    /\ jobs' = [s \in Keys |-> <<>>]
    /\ UNCHANGED <<targets, chan, fetches, acks, opened, unacked, size>>

FilesPoolStep ==
    \/ \E t \in Transfers : Fetch(t) \/ Schedule(t)
    \/ \E c \in Contexts : Acknowledge(c)

FilesNext ==
    \/ \E t \in Transfers : TransferFile(t) \/ ReceiveNext(t) \/ Change(t)
    \/ FilesPoolStep
    \/ \E c \in Contexts : Die(c) \/ Kill(c)
    \/ \E s \in Streams : Lose(s)
    \/ StopPool \/ Exit \/ Join

FilesSpec == FilesInit /\ [][FilesNext]_filesVars

(* A request in the pool's queue is taken, a thread that runs proceeds,    *)
(* the target's thread takes what arrived, and a shutdown once begun goes  *)
(* on: its grace period is bounded by a timer.                             *)
FilesFairness ==
    /\ \A t \in Transfers : /\ WF_filesVars(Fetch(t)) /\ WF_filesVars(Schedule(t))
                            /\ WF_filesVars(ReceiveNext(t))
    /\ \A c \in Contexts : WF_filesVars(Acknowledge(c)) /\ WF_filesVars(Kill(c))
    /\ WF_filesVars(Exit) /\ WF_filesVars(Join)

FilesFairSpec == FilesSpec /\ FilesFairness

-----------------------------------------------------------------------------
(* Properties.                                                             *)

Message == [kind : {"stat", "error", "chunk", "close", "dead"}, n : Nat]

(* The variables keep their shape.                                         *)
FilesTypeOK ==
    /\ progress \in [Transfers -> {"new"} \cup Running \cup Ended]
    /\ tmp \cup fetches \cup opened \subseteq Transfers
    /\ want \in [Transfers -> Nat] /\ size \in [Transfers -> Nat]
    /\ got \in [Transfers -> Seq(Nat)] /\ out \in [Transfers -> Seq(Nat)]
    /\ dead \subseteq Contexts /\ acks \in [Contexts -> Nat]
    /\ chan \in [Transfers -> Seq(Message)]
    /\ jobs \in [Keys -> Seq([t : Transfers, pos : Nat])]
    /\ unacked \in [Keys -> 0 .. Quota]
    /\ mux \in {"running", "stopping", "exited", "joined"}

ChunksIn(q) == {i \in 1 .. Len(q) : q[i].kind = "chunk"}
InFlight(ts, ch) == UNION {{t} \X ChunksIn(ch[t]) : t \in ts}
Confirming(cs, ak) == UNION {{c} \X (1 .. ak[c]) : c \in cs}
Unconfirmed(s) ==
    Cardinality(InFlight(Sharing(s), chan))
    + Cardinality(Confirming({c \in Contexts : StreamOf[c] = s}, acks))
Intact(s) ==
    mux = "running" /\ {c \in dead : StreamOf[c] = s} = {}

(* "ensuring each stream never has excessive data buffered in RAM"         *)
(* (service.py:804): the chunks on their way through a stream and the      *)
(* acknowledgements of those that arrived go past the window by less than  *)
(* a chunk, however many contexts share it; and while no context of the    *)
(* stream has died they are exactly what the service counts, so that no    *)
(* room is lost.                                                           *)
WindowAccounted ==
    \A s \in Streams :
        /\ Unconfirmed(s) <= unacked[s]
        /\ (unacked[s] - 1) * ChunkSize < Window
        /\ Intact(s) => Unconfirmed(s) = unacked[s]

(* "an initial burst up to the window size limit" (service.py:866), and    *)
(* refills "back to the size limit" (service.py:870): never past it.       *)
WithinWindow == \A s \in Streams : unacked[s] * ChunkSize <= Window

(* The output is replaced by every chunk fetch() promised, in order, or    *)
(* not at all, and a transfer that ended leaves no temporary file, across  *)
(* files that change, refused paths, shutdowns and other transfers of the  *)
(* same context and stream.  Only a transfer whose target refuses the      *)
(* times fails with its output replaced.                                   *)
AllOrNothing ==
    \A t \in Transfers :
        LET whole == [i \in 1 .. want[t] |-> i]
        IN  /\ progress[t] = "done" => out[t] = whole
            /\ progress[t] # "done" =>
                  \/ out[t] = <<>>
                  \/ progress[t] = "failed" /\ t \in Reluctant /\ out[t] = whole
            /\ progress[t] \in Ended => t \notin tmp

(* A transfer only fails for a reason: a path that is refused, a file that *)
(* changed under it, a target that refuses what is asked of it, or the     *)
(* multiplexer's shutdown.  In particular neither the death of another     *)
(* context nor a transfer on the same stream makes it fail.                *)
FailsForAReason ==
    \A t \in Transfers :
        progress[t] = "failed" =>
            t \in Absent \cup Reluctant \/ size[t] # SizeOf[t] \/ mux # "running"

(* What a transfer comes to is a whole file or a failure it is due.         *)
OutcomeIsDue == AllOrNothing /\ FailsForAReason

(* A whole window of the stream was sent to contexts that died before      *)
(* acknowledging it.                                                       *)
Starved(s) ==
    /\ {c \in dead : StreamOf[c] = s} # {}
    /\ unacked[s] - Unconfirmed(s) = Quota

(* A transfer that was begun ends, or its process does, whatever shares    *)
(* its stream, unless contexts of that stream died with a whole window     *)
(* unacknowledged.                                                         *)
TransfersEnd ==
    \A t \in Transfers :
        LET c == ContextOf[t]
        IN  progress[t] \in Running ~>
                \/ progress[t] \in Ended
                \/ c \in dead
                \/ Starved(StreamOf[c])

(* "each request is satisfied in turn before subsequent requests start     *)
(* flowing" (service.py:853), whatever becomes of the others: the same,    *)
(* without the exception.                                                  *)
EachSatisfiedInTurn ==
    \A t \in Transfers :
        progress[t] \in Running ~>
            progress[t] \in Ended \/ ContextOf[t] \in dead
=============================================================================
