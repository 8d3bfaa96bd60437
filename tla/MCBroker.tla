------------------------------ MODULE MCBroker ------------------------------
(* Small instances of Broker for TLC.                                      *)
EXTENDS Broker, TLC

CONSTANTS c1, c2, c3, c4     \* the members of Calls

\* Two streams can be opened, on one descriptor, and one closed in between; a
\* function that raises has the effect of the one shutdown() defers.
MCKindOf == c1 :> "open" @@ c2 :> "close" @@ c3 :> "open" @@ c4 :> "shutdown"

-----------------------------------------------------------------------------
(* What the poller is asked to watch, what is ready, and what the handler  *)
(* of the first event does.                                                *)
P == INSTANCE Pollers

Op == {"start", "stop"} \X P!Fds \X P!Dirs

Worlds ==
    [kind : P!Kinds, regs : SUBSET (P!Fds \X P!Dirs),
     ready : [P!Fds -> {{}, {"in"}, {"out"}, {"in", "out"}, {"hup"}}],
     ops : {<<>>} \cup {<<o>> : o \in Op} \cup {<<o, q>> : o, q \in Op}]

\* A poller yields what is watched and ready, and nothing that was stopped or replaced
\* while it yields. Worlds do not change: the initial state is where TLC evaluates it.
KeepsItsPromise == Init => \A w \in Worlds : P!KeepsItsPromise(w)
=============================================================================
