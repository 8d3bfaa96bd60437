------------------------------ MODULE Routing ------------------------------
(***************************************************************************)
(* Message routing over the tree of contexts: mitogen.core.Router and      *)
(* mitogen.parent.RouteMonitor.  Every context keeps a table from context  *)
(* ID to neighbouring stream; parents tell theirs of contexts that appear  *)
(* (ADD_ROUTE) and disappear (DEL_ROUTE), and tell every stream that ever  *)
(* sent something to a context that it is gone, so that callers anywhere   *)
(* in the tree learn that no reply will come.                              *)
(*                                                                         *)
(* A stream is a pair of FIFO channels.  A context that dies leaves what   *)
(* it wrote to be read, then its neighbours read end-of-file; a child that *)
(* loses its parent dies (ExternalContext._on_parent_disconnect).  Routing *)
(* state is touched on broker threads only: a handler is one action.       *)
(***************************************************************************)
EXTENDS Naturals, Sequences, FiniteSets, SequencesExt

CONSTANTS
    Nodes,      \* contexts
    Root,       \* the master
    Parent,     \* [Nodes \ {Root} -> Nodes]: who connects each context
    Requests,   \* messages with a reply_to address, sent once each
    Src, Dst,   \* [Requests -> Nodes]
    MaxDeaths   \* bound on the contexts that die of themselves

ASSUME RoutingAssumption ==
    /\ IsFiniteSet(Nodes)
    /\ Root \in Nodes
    /\ Parent \in [Nodes \ {Root} -> Nodes]
    /\ Src \in [Requests -> Nodes] /\ Dst \in [Requests -> Nodes]
    /\ \A r \in Requests : Src[r] # Dst[r]
    /\ MaxDeaths \in Nat

\* t and the contexts between it and the master: the least set that has t and,
\* with a context, its parent.
WithParents == {S \in SUBSET Nodes : \A x \in S \ {Root} : Parent[x] \in S}
Lineage(t) == {x \in Nodes : \A S \in WithParents : t \in S => x \in S}

\* The master is where every chain of connections begins.
ASSUME TreeAssumption == \A t \in Nodes : Root \in Lineage(t)

None == "none"
ASSUME NoneAssumption == None \notin Nodes

VARIABLES
    life,       \* [Nodes -> "unborn", "alive" or "dead"]
    table,      \* [Nodes -> [Nodes -> neighbour]]: Router._stream_by_id
    learned,    \* [Nodes -> [Nodes -> IDs]]: RouteMonitor._routes_by_stream
    egress,     \* [Nodes -> [Nodes -> IDs]]: egress_ids of each stream
    chan,       \* [sender, receiver -> Seq(messages)]
    status,     \* [Requests -> what the sender knows]
    serving,    \* requests a context has received and not answered yet
    announced,  \* history: contexts the master has had a route to
    deaths      \* history: contexts that died of themselves

vars == <<life, table, learned, egress, chan, status, serving, announced, deaths>>

alive == {n \in Nodes : life[n] = "alive"}

IsParent(p, n) == n # Root /\ Parent[n] = p
Neighbours(n) == {x \in Nodes : IsParent(x, n) \/ IsParent(n, x)}
Links == {e \in Nodes \X Nodes : e[2] \in Neighbours(e[1])}

Message == [kind : {"ADD_ROUTE", "DEL_ROUTE"}, id : Nodes, src : Nodes]
             \cup [kind : {"request", "reply", "dead"}, req : Requests,
                   src : Nodes, dst : Nodes]

TypeOK ==
    /\ life \in [Nodes -> {"unborn", "alive", "dead"}]
    /\ table \in [Nodes -> [Nodes -> Nodes \cup {None}]]
    /\ \A n, t \in Nodes : table[n][t] \in Neighbours(n) \cup {None}
    /\ learned \in [Nodes -> [Nodes -> SUBSET Nodes]]
    /\ egress \in [Nodes -> [Nodes -> SUBSET Nodes]]
    /\ chan \in [Links -> Seq(Message)]
    /\ status \in [Requests -> {"new", "sent", "reply", "dead"}]
    /\ serving \subseteq Requests
    /\ announced \subseteq Nodes
    /\ deaths \in 0..MaxDeaths

Init ==
    /\ life = [n \in Nodes |-> IF n = Root THEN "alive" ELSE "unborn"]
    /\ table = [n \in Nodes |-> [t \in Nodes |-> None]]
    /\ learned = [n \in Nodes |-> [t \in Nodes |-> {}]]
    /\ egress = [n \in Nodes |-> [t \in Nodes |-> {}]]
    /\ chan = [e \in Links |-> <<>>]
    /\ status = [r \in Requests |-> "new"]
    /\ serving = {}
    /\ announced = {}
    /\ deaths = 0

----------------------------------------------------------------------------
(* Looking streams up, and writing to them.                                *)

\* _stream_by_id.get(mitogen.parent_id)
ParentStream(n) == IF n = Root THEN None ELSE table[n][Parent[n]]

\* Router.stream_by_id(): the parent's stream unless a route is known.
StreamById(n, t) == IF table[n][t] # None THEN table[n][t] ELSE ParentStream(n)

\* What a handler writes: [neighbour -> messages].
Nothing == [n \in Nodes |-> <<>>]
To(S, msg) == [n \in Nodes |-> IF n \in S \ {None} THEN <<msg>> ELSE <<>>]

\* Append what n writes; bytes written to a dead process are lost.
Write(c, n, out) ==
    [e \in Links |-> IF e[1] = n /\ e[2] \in alive THEN c[e] \o out[e[2]] ELSE c[e]]

\* The channels once n has read one message from m.
Read(n, m) == [chan EXCEPT ![<<m, n>>] = Tail(@)]

Routing(kind, t, n) == [kind |-> kind, id |-> t, src |-> n]

\* fire(context, 'disconnect'): respondents of n's pending requests are told.
Fired(n, S) ==
    [r \in Requests |-> IF status[r] = "sent" /\ Src[r] = n /\ Dst[r] \in S
                        THEN "dead" ELSE status[r]]

\* Mutant: streams that talked to t are not told.
CopiesUnwanted(n, tab, t, s) == 0

\* _propagate_down(): get_streams() yields a stream once per route over it, and
\* each one that ever sent something to t is told, except the parent's.
Copies(n, tab, t, s) ==
    IF t \in egress[n][s] /\ s # ParentStream(n)
    THEN Cardinality({x \in Nodes : tab[n][x] = s})
    ELSE 0

\* The DEL_ROUTE messages n writes for t, one of them to the stream up.
Withdrawal(n, tab, t, up) ==
    [s \in Nodes |->
        [i \in 1..(Copies(n, tab, t, s) + IF s = up THEN 1 ELSE 0) |->
            Routing("DEL_ROUTE", t, n)]]

----------------------------------------------------------------------------
(* Contexts appear and disappear.                                          *)

\* Router.register(), in both processes.
Registered(p, n) == [table EXCEPT ![p][n] = n, ![n][p] = p]

\* Mutant: a new context is not announced.
Unannounced(p, n) == Nothing

\* RouteMonitor.notice_stream(): ADD_ROUTE towards the master.
Announcement(p, n) == To({ParentStream(p)}, Routing("ADD_ROUTE", n, p))

\* _complete_connection() in p and the bootstrap of its new child n: both
\* register the stream, and p announces n.
Connect(p, n) ==
    /\ n # Root /\ Parent[n] = p
    /\ p \in alive /\ life[n] = "unborn"
    /\ life' = [life EXCEPT ![n] = "alive"]
    /\ table' = Registered(p, n)
    /\ learned' = [learned EXCEPT ![p][n] = {n}]
    /\ chan' = Write(chan, p, Announcement(p, n))
    /\ announced' = IF p = Root THEN announced \cup {n} ELSE announced
    /\ UNCHANGED <<egress, status, serving, deaths>>

\* The process of n goes away: what was written to it is lost, and so is the
\* end of what it wrote, from any point on (BufferedWriter's queue).
Gone(n) ==
    /\ life' = [life EXCEPT ![n] = "dead"]
    /\ \E kept \in [Neighbours(n) -> 0..Max({Len(chan[<<n, x>>]) : x \in Neighbours(n)})] :
        /\ \A x \in Neighbours(n) : kept[x] <= Len(chan[<<n, x>>])
        /\ chan' = [e \in Links |-> CASE e[2] = n -> <<>>
                                      [] e[1] = n -> SubSeq(chan[e], 1, kept[e[2]])
                                      [] OTHER -> chan[e]]
    /\ UNCHANGED <<table, learned, egress, status, serving, announced>>

Die(n) ==
    /\ n \in alive \ {Root}
    /\ deaths < MaxDeaths
    /\ deaths' = deaths + 1
    /\ Gone(n)

EndOfFile(n, m) ==
    /\ n \in alive /\ m \notin alive
    /\ table[n][m] = m
    /\ chan[<<m, n>>] = <<>>

\* A child that reads end-of-file from its parent shuts down.
OrphanDies(n, p) ==
    /\ IsParent(p, n) /\ EndOfFile(n, p)
    /\ Gone(n)
    /\ UNCHANGED deaths

\* Router._on_stream_disconnect() and RouteMonitor._on_stream_disconnect(): all
\* routes over the stream go, and each one is reported up and down.
ChildDisconnects(p, n) ==
    LET lost == learned[p][n]
        tab == [table EXCEPT ![p] = [t \in Nodes |->
                    IF table[p][t] = n \/ t \in lost THEN None ELSE table[p][t]]]
        reports == [i \in 1..Cardinality(lost) |->
                        Withdrawal(p, tab, SetToSeq(lost)[i], ParentStream(p))]
    IN  /\ IsParent(p, n) /\ EndOfFile(p, n)
        /\ table' = tab
        /\ learned' = [learned EXCEPT ![p][n] = {}]
        /\ status' = Fired(p, lost)
        /\ chan' = Write(chan, p, [s \in Nodes |->
                            FlattenSeq([i \in DOMAIN reports |-> reports[i][s]])])
        /\ UNCHANGED <<life, egress, serving, announced, deaths>>

----------------------------------------------------------------------------
(* RouteMonitor._on_add_route() and _on_del_route().                       *)

\* A message of the given kinds is at the head of the channel from m to n.
Incoming(n, m, kinds) ==
    /\ m \in Neighbours(n)
    /\ n \in alive /\ table[n][m] = m
    /\ chan[<<m, n>>] # <<>>
    /\ Head(chan[<<m, n>>]).kind \in kinds

OnAddRoute(n, m) ==
    LET t == Head(chan[<<m, n>>]).id
        duplicate == StreamById(n, t) # None /\ StreamById(n, t) # ParentStream(n)
    IN  /\ Incoming(n, m, {"ADD_ROUTE"})
        /\ IF duplicate
           THEN chan' = Read(n, m) /\ UNCHANGED <<table, learned, announced>>
           ELSE /\ learned' = [learned EXCEPT ![n][m] = @ \cup {t}]
                /\ table' = [table EXCEPT ![n][t] = m]
                /\ announced' = IF n = Root THEN announced \cup {t} ELSE announced
                /\ chan' = Write(Read(n, m), n,
                                 To({ParentStream(n)}, Routing("ADD_ROUTE", t, n)))
        /\ UNCHANGED <<life, egress, status, serving, deaths>>

\* The stream must be the one a route to t is registered for; without a route
\* that is the parent's, which reports contexts elsewhere in the tree.
OnDelRoute(n, m) ==
    LET t == Head(chan[<<m, n>>]).id
        up == IF m = ParentStream(n) THEN None ELSE ParentStream(n)
        tab == [table EXCEPT ![n][t] = None]
    IN  /\ Incoming(n, m, {"DEL_ROUTE"})
        /\ IF StreamById(n, t) # m
           THEN chan' = Read(n, m) /\ UNCHANGED <<table, learned, status>>
           ELSE /\ status' = Fired(n, {t})
                /\ learned' = [learned EXCEPT ![n][m] = @ \ {t}]
                /\ table' = tab
                /\ chan' = Write(Read(n, m), n, Withdrawal(n, tab, t, up))
        /\ UNCHANGED <<life, egress, serving, announced, deaths>>

----------------------------------------------------------------------------
(* Router._async_route().                                                  *)

Msg(kind, r, from, to) == [kind |-> kind, req |-> r, src |-> from, dst |-> to]

\* Mutant: a message from here counts as one from the parent.
OutStreamOfParents(n, msg, m) ==
    IF table[n][msg.dst] # None THEN table[n][msg.dst]
    ELSE IF StreamById(n, msg.src) # ParentStream(n) THEN ParentStream(n)
    ELSE None

\* The stream msg leaves on, having come over the stream m (None: from here).
\* A message from above for a context that is gone is not sent up again.
OutStream(n, msg, m) ==
    IF table[n][msg.dst] # None THEN table[n][msg.dst]
    ELSE IF m = None \/ StreamById(n, msg.src) # ParentStream(n) THEN ParentStream(n)
    ELSE None

\* Reverse path filter: a message must come over the stream its sender, and
\* here that is its auth_id too, would be reached by.
Verified(n, msg, m) == m = StreamById(n, msg.src)

\* What n writes to forward msg; without a stream a request is answered with
\* a dead message, which n routes as its own, and anything else is dropped.
Forward(n, msg, m) ==
    LET dead == Msg("dead", msg.req, n, msg.src)
    IN  IF OutStream(n, msg, m) # None THEN To({OutStream(n, msg, m)}, msg)
        ELSE IF msg.kind = "request" THEN To({OutStream(n, dead, None)}, dead)
        ELSE Nothing

\* The handle of a request's reply is removed by the first answer.
Answered(r, kind) == [status EXCEPT ![r] = IF @ = "sent" THEN kind ELSE @]

\* Context.send_async() to a context that the sender can know of.
Send(r) ==
    LET n == Src[r]
        msg == Msg("request", r, n, Dst[r])
    IN  /\ n \in alive
        /\ status[r] = "new"
        /\ Dst[r] \in announced \/ table[n][Dst[r]] # None
        /\ status' = [status EXCEPT ![r] =
                        IF OutStream(n, msg, None) = None THEN "dead" ELSE "sent"]
        /\ chan' = Write(chan, n, To({OutStream(n, msg, None)}, msg))
        /\ UNCHANGED <<life, table, learned, egress, serving, announced, deaths>>

\* A message that is not verified is dropped, before egress_ids is updated.
OnMessage(n, m) ==
    LET msg == Head(chan[<<m, n>>])
        here == msg.dst = n
    IN  /\ Incoming(n, m, {"request", "reply", "dead"})
        /\ IF Verified(n, msg, m)
           THEN /\ egress' = [egress EXCEPT ![n][m] = @ \cup {msg.dst}]
                /\ serving' = IF here /\ msg.kind = "request"
                              THEN serving \cup {msg.req} ELSE serving
                /\ status' = IF here /\ msg.kind # "request"
                             THEN Answered(msg.req, msg.kind) ELSE status
                /\ chan' = IF here THEN Read(n, m)
                           ELSE Write(Read(n, m), n, Forward(n, msg, m))
           ELSE chan' = Read(n, m) /\ UNCHANGED <<egress, serving, status>>
        /\ UNCHANGED <<life, table, learned, announced, deaths>>

\* The handler of a request calls Message.reply().
Reply(r) ==
    LET n == Dst[r]
    IN  /\ n \in alive /\ r \in serving
        /\ serving' = serving \ {r}
        /\ chan' = Write(chan, n, Forward(n, Msg("reply", r, n, Src[r]), None))
        /\ UNCHANGED <<life, table, learned, egress, status, announced, deaths>>

----------------------------------------------------------------------------
Next ==
    \/ \E n \in Nodes : Die(n)
    \/ \E n, m \in Nodes :
        \/ Connect(m, n) \/ OrphanDies(n, m) \/ ChildDisconnects(n, m)
        \/ OnAddRoute(n, m) \/ OnDelRoute(n, m) \/ OnMessage(n, m)
    \/ \E r \in Requests : Send(r) \/ Reply(r)

Spec == Init /\ [][Next]_vars

\* A broker that runs handles what is readable, and a handler answers.
Fairness ==
    /\ \A e \in Links :
        LET n == e[2]
            m == e[1]
        IN  WF_vars(\/ OrphanDies(n, m) \/ ChildDisconnects(n, m)
                    \/ OnAddRoute(n, m) \/ OnDelRoute(n, m) \/ OnMessage(n, m))
    /\ \A r \in Requests : WF_vars(Reply(r))

FairSpec == Spec /\ Fairness

----------------------------------------------------------------------------
(* Properties.                                                             *)

\* Nothing is in flight and every death has been noticed by the neighbours.
Quiet ==
    /\ \A e \in Links : chan[e] = <<>>
    /\ \A e \in Links : ~EndOfFile(e[2], e[1])

\* Once routing traffic has settled, a running context has a route to exactly
\* its parent and the running contexts below it, over the right stream, and
\* will withdraw exactly those routes when the stream disconnects: ADD_ROUTE,
\* DEL_ROUTE and disconnects, in whatever order, leave no stale route behind.
RoutesExactWhenQuiet ==
    Quiet => \A n \in alive, t \in Nodes \ {Root} :
        /\ n # t /\ t \in alive /\ n \in Lineage(t) =>
            table[n][t] \in Lineage(t) /\ IsParent(n, table[n][t])
        /\ table[n][t] # None =>
            t \in alive \ {n} /\ (IsParent(t, n) \/ n \in Lineage(t))
        /\ \A s \in Nodes : t \in learned[n][s] <=> table[n][t] = s /\ IsParent(n, s)

\* A caller is told that a context is gone only when that context, or one the
\* messages to it pass through, has gone: Context 'disconnect' and dead
\* messages for unreachable contexts are never false.
NoFalseAlarm ==
    \A r \in Requests :
        status[r] = "dead" => \E x \in Lineage(Dst[r]) : life[x] = "dead"

\* A caller that survives does not wait forever, whoever dies and whenever:
\* a request is answered, or its sender is told that nobody will answer
\* (_propagate_down(): "any stream that has ever communicated with the
\* disconnecting ID").
RequestsSettle ==
    \A r \in Requests : status[r] = "sent" ~> status[r] # "sent" \/ Src[r] \notin alive

=============================================================================
