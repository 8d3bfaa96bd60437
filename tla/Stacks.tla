------------------------------- MODULE Stacks -------------------------------
(***************************************************************************)
(* ansible_mitogen.connection.Connection._build_stack(): the connections   *)
(* that lead to the account a task runs in, each made by way of the one    *)
(* before.  Everything here is a function of a world w, of which           *)
(*   w.hosts     are the inventory's hosts, each with its variables,       *)
(*   w.default   the values of Ansible's configuration,                    *)
(*   w.sameUser  BECOME_ALLOW_SAME_USER,                                   *)
(* and of a task t: t.option has what Ansible's plug-ins made of the       *)
(* variables, the play and the command line.  The values are strings.      *)
(***************************************************************************)
EXTENDS Naturals, Sequences, SequencesExt, TLC

Unset == ""
NoVia == <<>>       \* else <<become method, become user, inventory name>>

Or(a, b) == IF a = Unset THEN b ELSE a

-----------------------------------------------------------------------------
(* transport_config: what a connection is made of.                         *)

AnySpec == [name : STRING, transport : STRING, addr : STRING, user : STRING, password : STRING,
          port : STRING, key : STRING, timeout : STRING, python : STRING, kind : STRING,
          exe : STRING, doasExe : STRING, options : STRING, become : BOOLEAN,
          becomeMethod : STRING, becomeUser : STRING, becomePass : STRING, via : Seq(STRING)]

\* get_task_var(): the variables of the host the task is delegated to, if it is.
TaskVars(w, t) == w.hosts[t.name]

\* PlayContextSpec, for the target itself.
PlaySpec(w, t) ==
    t.option @@ [name |-> t.name, via |-> TaskVars(w, t).via, kind |-> TaskVars(w, t).kind,
                 doasExe |-> TaskVars(w, t).doasExe]

ViaUser(w, v) == Or(v.user, w.default.user)

\* MitogenViaSpec, for a host on the way.  As for its timeout, the default is taken.
ViaLogin(w, v, name) ==
    [name |-> name,
     transport |-> Or(v.transport, w.default.transport),
     addr |-> Or(v.addr, name),
     user |-> ViaUser(w, v),
     password |-> v.password,
     port |-> Or(v.port, w.default.port),
     key |-> Or(v.key, w.default.key),
     timeout |-> w.default.timeout]

ViaBecome(w, v, method, user) ==
    [become |-> user # Unset,
     becomeMethod |-> Or(Or(method, v.becomeMethod), w.default.becomeMethod),
     becomeUser |-> user, becomePass |-> v.becomePass,
     exe |-> Or(v.exe, w.default.exe)]

ViaOptions(w, v) == [via |-> v.via, kind |-> v.kind, doasExe |-> v.doasExe, options |-> v.options]

\* parse_python_path(), less the discovery of an interpreter.
ViaPython(w, v) == [python |-> Or(v.python, w.default.python)]

\* _spec_from_via()
ViaSpec(w, via) ==
    LET v == w.hosts[via[3]]
    IN  ViaLogin(w, v, via[3]) @@ ViaBecome(w, v, via[1], via[2]) @@ ViaOptions(w, v) @@ ViaPython(w, v)

-----------------------------------------------------------------------------
(* The methods: what a Router method is called with for a spec.            *)

Hop(method, s, kwargs) ==
    [method |-> method, lru |-> FALSE,
     kwargs |-> kwargs @@ [python_path |-> s.python, connect_timeout |-> s.timeout, options |-> s.options]]

None == [n \in {} |-> Unset]
Account(s) == [container |-> s.addr, username |-> s.user]
Container(s) == [container |-> s.addr]

ConnectLocal(s) == [method |-> "local", lru |-> FALSE, kwargs |-> [python_path |-> s.python]]

ConnectSsh(s) ==
    Hop("ssh", s, [hostname |-> s.addr, username |-> s.user, password |-> s.password,
                   port |-> s.port, identity_file |-> s.key])

ConnectBuildah(s) == Hop("buildah", s, Account(s))
ConnectDocker(s) == Hop("docker", s, Account(s))
ConnectPodman(s) == Hop("podman", s, Account(s))
ConnectJail(s) == Hop("jail", s, Account(s))
ConnectKubectl(s) == Hop("kubectl", s, [pod |-> s.addr])
ConnectLxc(s) == Hop("lxc", s, Container(s))
ConnectLxd(s) == Hop("lxd", s, Container(s))
ConnectIncus(s) == Hop("incus", s, Container(s))

ConnectSetns(s, kind) ==
    [method |-> "setns", lru |-> FALSE,
     kwargs |-> Account(s) @@ [kind |-> kind, python_path |-> s.python, options |-> s.options]]

\* As a become method, which may be recycled.
Becoming(s, exe) == [username |-> s.becomeUser, password |-> s.becomePass, exe |-> exe]
ConnectSu(s) == [Hop("su", s, Becoming(s, s.exe)) EXCEPT !.lru = TRUE]
ConnectSudo(s) == [Hop("sudo", s, Becoming(s, s.exe)) EXCEPT !.lru = TRUE]
ConnectDoas(s) == [Hop("doas", s, Becoming(s, s.exe)) EXCEPT !.lru = TRUE]

\* As a connection of its own.
LoggingIn(s, exe) == [username |-> s.user, password |-> s.password, exe |-> exe]
ConnectMitogenSu(s) == Hop("su", s, LoggingIn(s, s.exe))

\* Mutant: the become method's account.
BecomesSudo(s) == Hop("sudo", s, Becoming(s, s.exe))

ConnectMitogenSudo(s) == Hop("sudo", s, LoggingIn(s, s.exe))
ConnectMitogenDoas(s) == Hop("doas", s, LoggingIn(s, s.doasExe))

ConnectionMethod(name, s) ==
    CASE name = "buildah" -> ConnectBuildah(s)
      [] name = "docker" -> ConnectDocker(s)
      [] name = "kubectl" -> ConnectKubectl(s)
      [] name = "jail" -> ConnectJail(s)
      [] name = "local" -> ConnectLocal(s)
      [] name = "incus" -> ConnectIncus(s)
      [] name = "lxc" -> ConnectLxc(s)
      [] name = "lxd" -> ConnectLxd(s)
      [] name = "machinectl" -> ConnectSetns(s, "machinectl")
      [] name = "podman" -> ConnectPodman(s)
      [] name = "setns" -> ConnectSetns(s, s.kind)
      [] name \in {"ssh", "smart"} -> ConnectSsh(s)
      [] name = "su" -> ConnectSu(s)
      [] name = "sudo" -> ConnectSudo(s)
      [] name \in {"doas", "community.general.doas"} -> ConnectDoas(s)
      [] name = "mitogen_su" -> ConnectMitogenSu(s)
      [] name = "mitogen_sudo" -> ConnectMitogenSudo(s)
      [] name = "mitogen_doas" -> ConnectMitogenDoas(s)

-----------------------------------------------------------------------------
(* _stack_from_spec()                                                      *)

Failed == [ok |-> FALSE, hops |-> <<>>]
Built(hops) == [ok |-> TRUE, hops |-> hops]

Escalates(w, s) == s.become /\ (s.becomeUser # s.user \/ w.sameUser)

\* What a spec adds to the stack.
Elements(w, s) ==
    <<ConnectionMethod(s.transport, s)>>
        \o IF Escalates(w, s) THEN <<ConnectionMethod(s.becomeMethod, s)>> ELSE <<>>

Seen(name, seen) == name \in ToSet(seen)

\* The host is one the way came by already, or it is not in the inventory.
StackFromSpec(w, spec) ==
    LET stack[at \in AnySpec \X Seq(STRING)] ==
            LET s == at[1]  seen == at[2]
                before == IF s.via = NoVia THEN Built(<<>>)
                          ELSE IF s.via[3] \notin DOMAIN w.hosts THEN Failed
                          ELSE stack[<<ViaSpec(w, s.via), Append(seen, s.name)>>]
            IN  IF Seen(s.name, seen) \/ ~before.ok THEN Failed
                ELSE Built(before.hops \o Elements(w, s))
    IN  stack[<<spec, <<>>>>]

BuildStack(w, t) == StackFromSpec(w, PlaySpec(w, t))

-----------------------------------------------------------------------------
(* Where a stack leads: a machine is known by the addresses on the way to  *)
(* it, an account by its machine and user.                                 *)

Here == [machine |-> <<>>, user |-> "controller"]

Address(k) ==
    IF "hostname" \in DOMAIN k THEN <<k.hostname, k.port>>
    ELSE IF "container" \in DOMAIN k THEN <<k.container>>
    ELSE IF "pod" \in DOMAIN k THEN <<k.pod>> ELSE <<>>

Enter(at, hop) ==
    [machine |-> at.machine \o Address(hop.kwargs),
     user |-> IF "username" \in DOMAIN hop.kwargs THEN hop.kwargs.username
              ELSE IF hop.method = "local" THEN at.user ELSE "root"]

Leads(hops) == FoldLeft(Enter, Here, hops)

\* The hosts on the way to name.
Way(w, name) ==
    LET next == [n \in DOMAIN w.hosts |-> IF w.hosts[n].via = NoVia THEN {} ELSE {w.hosts[n].via[3]}]
        closed(S) == \A n \in S \cap DOMAIN w.hosts : next[n] \subseteq S
        all == DOMAIN w.hosts \cup UNION {next[n] : n \in DOMAIN w.hosts}
    IN  {n \in all : \A S \in SUBSET all : next[name] \subseteq S /\ closed(S) => n \in S}

Passable(w, name) ==
    \A n \in Way(w, name) \cup {name} : n \in DOMAIN w.hosts /\ n \notin Way(w, n)

NamesNoUser == {"local", "lxc", "lxd", "incus", "kubectl"}

\* The stack of a task, if its way is one, ends in its account, on the machine its
\* host's address names, seen from where the host it goes by leads.
LeadsToItsAccount(w, t) ==
    LET b == BuildStack(w, t)
        s == PlaySpec(w, t)
        end == Leads(b.hops)
        from == IF s.via = NoVia THEN <<>> ELSE Leads(StackFromSpec(w, ViaSpec(w, s.via)).hops).machine
    IN  /\ b.ok <=> Passable(w, t.name)
        /\ b.ok => /\ end.machine = from \o (IF s.transport \in {"ssh", "smart"} THEN <<s.addr, s.port>>
                                             ELSE IF s.transport \in {"local", "mitogen_su", "mitogen_sudo", "mitogen_doas"}
                                             THEN <<>> ELSE <<s.addr>>)
                   /\ s.transport \notin NamesNoUser => end.user = IF s.become THEN s.becomeUser ELSE s.user

\* Two tasks that reach a host, one to run there and one on its way to another, use
\* the same connection, where the host has no timeout of its own.
SharesTheWay(w, t, u) ==
    LET v == PlaySpec(w, u).via
        hops == BuildStack(w, u).hops
    IN  /\ BuildStack(w, u).ok /\ v # NoVia /\ v[3] = t.name
        /\ w.hosts[t.name].timeout = Unset
        /\ t.option.become = (v[2] # Unset) /\ t.option.becomeUser = v[2]
        /\ t.option.becomeMethod = ViaSpec(w, v).becomeMethod
        => BuildStack(w, t).ok /\ IsPrefix(BuildStack(w, t).hops, hops)
=============================================================================
