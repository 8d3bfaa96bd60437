----------------------------- MODULE MCContexts -----------------------------
(* Workers that share a login account and become two users through it; two *)
(* of them do the same, and can be exchanged.                              *)
EXTENDS Contexts, TLC

S == INSTANCE Stacks

CONSTANTS w1, w2, w3

MCStack == w1 :> <<"ssh", "sudo a">> @@ w2 :> <<"ssh", "sudo a">> @@ w3 :> <<"ssh", "sudo b">>
MCSameUser == w1 :> <<"bastion", "ssh">>
MCSymmetry == Permutations({w1, w2})

-----------------------------------------------------------------------------
(* Inventories, and what Ansible's plug-ins make of the variables of a     *)
(* host for a task that runs as user, by method.                           *)
Host(transport, user, by) ==
    [transport |-> transport, addr |-> "", user |-> user, password |-> "", port |-> "", key |-> "",
     via |-> by, kind |-> "lxd", timeout |-> "", python |-> "", exe |-> "", doasExe |-> "",
     becomeMethod |-> "", becomePass |-> "", options |-> ""]

Defaults == [transport |-> "smart", user |-> "me", port |-> "22", key |-> "", timeout |-> "10",
             python |-> "auto", exe |-> "", becomeMethod |-> "sudo"]

Task(w, name, method, user) ==
    LET v == w.hosts[name]
    IN  [name |-> name,
         option |-> [transport |-> S!Or(v.transport, w.default.transport), addr |-> S!Or(v.addr, name),
                     user |-> S!Or(v.user, w.default.user), password |-> v.password,
                     port |-> S!Or(v.port, w.default.port), key |-> S!Or(v.key, w.default.key),
                     timeout |-> S!Or(v.timeout, w.default.timeout),
                     python |-> S!Or(v.python, w.default.python), exe |-> S!Or(v.exe, w.default.exe),
                     options |-> v.options, become |-> user # "",
                     becomeMethod |-> S!Or(S!Or(method, v.becomeMethod), w.default.becomeMethod),
                     becomeUser |-> user, becomePass |-> v.becomePass]]

Tasks(w) ==
    {Task(w, n, m[1], m[2]) :
        n \in DOMAIN w.hosts, m \in {<<"", "">>, <<"", "root">>, <<"su", "web">>, <<"doas", "me">>}}

\* A host reached directly, one by way of it, and one by way of that; ways to none
\* and ways in a circle.
Worlds ==
    {[hosts |-> [bastion |-> b, web |-> x, box |-> y], default |-> Defaults, sameUser |-> same] :
        b \in {Host("", "", <<>>), [Host("ssh", "root", <<>>) EXCEPT !.addr = "b", !.port = "2222"],
              [Host("mitogen_sudo", "root", <<>>) EXCEPT !.timeout = "60"],
              Host("ssh", "", <<"", "", "box">>)},
        x \in {Host("ssh", "web", v) :
                  v \in {<<>>, <<"", "", "bastion">>, <<"su", "root", "bastion">>, <<"", "me", "bastion">>,
                        <<"", "", "web">>, <<"", "", "gone">>}}
             \cup {Host("mitogen_su", "web", <<"doas", "root", "bastion">>)},
        y \in {Host(tr, "root", <<"sudo", "web", "web">>) : tr \in {"docker", "lxd", "machinectl", "mitogen_doas"}},
        same \in BOOLEAN}

\* A stack of connections leads to the account the task is for by way of the hosts the
\* inventory names, and two tasks for the same account get the same stack. Worlds do not change: the initial
\* state is where TLC evaluates it.
LeadsThere ==
    Init => \A w \in Worlds : \A t, u \in Tasks(w) :
                S!LeadsToItsAccount(w, t) /\ S!SharesTheWay(w, t, u)

\* What the workers' stacks stand for: two become root and one becomes another user on
\* the host they log in to; or one is to become the user it logs in as already.
Inventory == [hosts |-> [bastion |-> Host("ssh", "", <<>>), web |-> Host("ssh", "web", <<>>),
                         box |-> Host("ssh", "web", <<"", "", "bastion">>)],
              default |-> Defaults, sameUser |-> FALSE]

StandsFor(stack, task) ==
    \A u, w \in DOMAIN stack :
        LET b == S!BuildStack(Inventory, task[u])  c == S!BuildStack(Inventory, task[w])
        IN  /\ b.ok /\ Len(b.hops) = Len(stack[u])
            /\ \A i \in DOMAIN stack[u] :
                 /\ i \in DOMAIN stack[w] => (stack[u][i] = stack[w][i] <=> b.hops[i] = c.hops[i])
                 /\ stack[u][i] \in {"sudo a", "sudo b"} <=> b.hops[i].lru

ASSUME StackAssumption ==
    LET root == Task(Inventory, "web", "", "root")
    IN  /\ StandsFor(MCStack, w1 :> root @@ w2 :> root @@ w3 :> Task(Inventory, "web", "", "bob"))
        /\ StandsFor(MCSameUser, w1 :> Task(Inventory, "box", "", "web"))
=============================================================================
