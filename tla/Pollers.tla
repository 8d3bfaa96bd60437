------------------------------- MODULE Pollers -------------------------------
(***************************************************************************)
(* The pollers a Broker may have: mitogen.core.Poller, which select()s,    *)
(* and mitogen.parent's PollPoller, EpollPoller and KqueuePoller.  Each    *)
(* keeps the same two tables, p.r and p.w, and asks a kernel of its own    *)
(* kind to watch for them.  A poller is changed by the very handlers its   *)
(* events are given to, while poll() is still yielding: that is what can   *)
(* go wrong here.  Everything is a function of a world w of which          *)
(*   w.kind    is the class,                                               *)
(*   w.regs    are the <<descriptor, direction>> it watches,               *)
(*   w.ready   is what the kernel has to say of each descriptor,           *)
(*   w.ops     is what the handler of the first event does to the poller.  *)
(* The events of a poll are taken in the order of the descriptors.         *)
(***************************************************************************)
EXTENDS Naturals, Sequences, FiniteSets, SequencesExt, FiniteSetsExt, TLC

Kinds == {"select", "poll", "epoll", "kqueue"}
Fds == 1..2
Dirs == {"in", "out"}

\* A registration is what is to be yielded and the generation it was made in.
New(kind) ==
    [kind |-> kind, gen |-> 1, table |-> [d \in Dirs |-> <<>>],
     kernel |-> [f \in Fds |-> {}], registered |-> {}, raised |-> FALSE]

Watched(p, f) == {d \in Dirs : f \in DOMAIN p.table[d]}

(***************************************************************************)
(* What a change of the tables asks of the kernel.                         *)
(***************************************************************************)

\* Poller: select() is given the tables.  PollPoller: register() replaces a mask.
Update(p, f) ==
    IF p.kind = "select" THEN p ELSE [p EXCEPT !.kernel[f] = Watched(p, f)]

\* EpollPoller: the kernel raises if what it is told to modify or remove is not
\* there, or what it is told to add is.
Control(p, f) ==
    LET mask == Watched(p, f)
        wrong == (f \in p.registered) # (p.kernel[f] # {})
    IN  CASE mask # {} -> [p EXCEPT !.kernel[f] = mask, !.registered = @ \cup {f}, !.raised = @ \/ wrong]
          [] f \in p.registered -> [p EXCEPT !.kernel[f] = {}, !.registered = @ \ {f}, !.raised = @ \/ wrong]
          [] OTHER -> p

\* KqueuePoller: a filter is added when it was not there, deleted when it was.
Filter(p, f, d, add) ==
    IF add THEN [p EXCEPT !.kernel[f] = @ \cup {d}] ELSE [p EXCEPT !.kernel[f] = @ \ {d}]

Changed(p, q, f, d) ==
    CASE p.kind = "epoll" -> Control(q, f)
      [] p.kind = "kqueue" ->
           IF (d \in Watched(p, f)) = (d \in Watched(q, f)) THEN q
           ELSE Filter(q, f, d, d \in Watched(q, f))
      [] OTHER -> Update(q, f)

\* start_receive() and start_transmit()
Start(p, f, d, data) ==
    Changed(p, [p EXCEPT !.table[d] = f :> [data |-> data, gen |-> p.gen] @@ @], f, d)

\* stop_receive() and stop_transmit()
Stop(p, f, d) ==
    Changed(p, [p EXCEPT !.table[d] = [g \in DOMAIN @ \ {f} |-> @[g]]], f, d)

(***************************************************************************)
(* poll()                                                                  *)
(***************************************************************************)
Event(d) == IF d = "in" THEN {"in", "hup"} ELSE {"out"}

\* What the kernel returns, as the loops of _poll() go through it.  poll() and epoll
\* tell of a hang-up nobody asked for.
Returned(p, ready) ==
    LET told(f, d) ==
            CASE p.kind = "select" -> f \in DOMAIN p.table[d] /\ Event(d) \cap ready[f] # {}
              [] p.kind = "kqueue" -> d \in p.kernel[f] /\ Event(d) \cap ready[f] # {}
              [] OTHER -> p.kernel[f] # {} /\ Event(d) \cap ready[f] \cap (p.kernel[f] \cup {"hup"}) # {}
        inOrder == IF p.kind = "select" THEN <<<<1, "in">>, <<2, "in">>, <<1, "out">>, <<2, "out">>>>
                   ELSE <<<<1, "in">>, <<1, "out">>, <<2, "in">>, <<2, "out">>>>
    IN  SelectSeq(inOrder, LAMBDA e : told(e[1], e[2]))

Apply(p, op) ==
    IF op[1] = "start" THEN Start(p, op[2], op[3], "new") ELSE Stop(p, op[2], op[3])

\* Mutant: a registration made while events are handed out is given one of them.
YieldsAny(p, e) == e[1] \in DOMAIN p.table[e[2]]

\* data, gen = self._rfds.get(fd, (None, None)); if gen and gen < self._generation
Yields(p, e) ==
    e[1] \in DOMAIN p.table[e[2]] /\ p.table[e[2]][e[1]].gen < p.gen

\* The poller after a poll, and what it yielded.
Poll(p, ready, ops) ==
    LET begun == [p EXCEPT !.gen = @ + 1]
        step(s, e) ==
            IF ~Yields(s.poller, e) THEN s
            ELSE [poller |-> IF s.given = <<>> THEN FoldLeft(Apply, s.poller, ops) ELSE s.poller,
                  given |-> Append(s.given, <<e[1], e[2], s.poller.table[e[2]][e[1]].data>>)]
    IN  FoldLeft(step, [poller |-> begun, given |-> <<>>], Returned(begun, ready))

Begun(w) == FoldSet(LAMBDA e, p : Start(p, e[1], e[2], "old"), New(w.kind), w.regs)
First(w) == Poll(Begun(w), w.ready, w.ops)
Second(w) == Poll(First(w).poller, w.ready, <<>>)

-----------------------------------------------------------------------------
(* Properties.                                                             *)

IsReady(w, e) == Event(e[2]) \cap w.ready[e[1]] # {}

\* "Removals are processed immediately, causing pending events for the descriptor to be
\* discarded": what a poll yields is each ready registration made before it, once,
\* less those the handlers took away or made anew; that comes with the next poll.
\* So it is for every kind of poller.
KeepsItsPromise(w) ==
    LET given == First(w).given
        touched == {<<op[2], op[3]>> : op \in Range(w.ops)}
        due == {e \in w.regs : IsReady(w, e)}
        first == {<<given[1][1], given[1][2]>>}
        later == {<<f, d>> \in Fds \X Dirs :
                     f \in DOMAIN First(w).poller.table[d] /\ IsReady(w, <<f, d>>)}
        seen(g) == {<<y[1], y[2]>> : y \in Range(g)}
    IN  /\ IF due = {} THEN given = <<>>
           ELSE given # <<>> /\ first \subseteq due /\ seen(given) = first \cup (due \ touched)
        /\ \A y \in Range(given) : y[3] = "old"
        /\ seen(Second(w).given) = later
        /\ IsInjective(given) /\ IsInjective(Second(w).given)
        /\ ~Second(w).poller.raised
=============================================================================
