---------------------------- MODULE MCConnecting ----------------------------
(***************************************************************************)
(* Connecting on one attempt by each kind of connection method, or two     *)
(* attempts at once.                                                       *)
(***************************************************************************)
EXTENDS Connecting, TLC

MCMethod == [c \in Conns |-> CASE c = "local" -> "local" [] c = "ssh" -> "ssh"
                               [] c = "batch" -> "ssh" [] c = "su" -> "su"
                               [] c = "sudo" -> "sudo" [] OTHER -> "doas"]

Boot == {"ec0", "ec2"}

MCSays == [c \in Conns |-> CASE c = "local" -> Boot
                             [] c \in {"ssh", "batch"} -> Lines
                             [] c = "sudo" -> Boot \cup {"prompt", "reprompt"}
                             [] OTHER -> Lines \ {"hostkey"}]

-----------------------------------------------------------------------------
(* The descriptors of every kind of child.                                 *)
B == INSTANCE Bootstrap

Worlds ==
    {w \in [create : B!Creates, escalates : BOOLEAN, selinux : BOOLEAN,
            fails : {"none", "openpty", "pipe", "stderr", "popen"}, py : {2, 3}, noStderr : BOOLEAN,
            forks : 0..2, epoll : BOOLEAN, busy : BOOLEAN] :
        /\ w.selinux \/ w.escalates => w.create \in {"inherit", "hybrid"}
        /\ w.fails = "openpty" => B!HasPty(w)
        /\ w.fails = "stderr" => w.create = "pipe"
        /\ w.fails = "pipe" => w.create # "tty"}

Made == {w \in Worlds : w.fails = "none"}

\* However a child is created, first stage and main find their files where they look
\* for them and the handshake completes.
\* Both processes keep the ends they need of what create_child() made and close the
\* others, also when it fails, and a forked context keeps no file of the one it comes
\* from; but for a pair made before the pipe for stderr fails, and the pollers.
\* Worlds do not change: the initial state is where TLC evaluates this.
BootsCleanly ==
    ConnectingInit => /\ \A w \in Worlds : B!HoldsItsEnds(w)
            /\ \A w \in Made : B!Boots(w) /\ B!OnlyItsFiles(w)
=============================================================================
