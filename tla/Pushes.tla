------------------------------- MODULE Pushes -------------------------------
(***************************************************************************)
(* service.PushFileService: small files pushed from the controller down a  *)
(* tree of contexts and cached by each of them on the way.                 *)
(*                                                                         *)
(* The controller sends a file once to each child ('store_and_forward'),   *)
(* and afterwards only asks the child to pass it on ('forward').  Requests *)
(* are taken by the threads of each context's pool in any order, so a      *)
(* 'forward' may be handled before the file it is about has been stored:   *)
(* it waits in _waiters, where a get() of the context's own main thread    *)
(* waits too.  _forward() looks at _sent_by_stream, sends, and only then   *)
(* adds to it, with no lock: threads of one pool interleave in between.    *)
(***************************************************************************)
EXTENDS Naturals, FiniteSets

CONSTANTS
    Nodes,      \* contexts of the tree
    Root,       \* the controller
    Parent,     \* [Nodes \ {Root} -> Nodes]
    Paths       \* files

ASSUME PushesAssumption ==
    /\ Root \in Nodes
    /\ Parent \in [Nodes \ {Root} -> Nodes]

\* A context with its parent, and so on: the least set of contexts that has it and,
\* with every one but the root, its parent.
WithParents == {S \in SUBSET Nodes : \A x \in S \ {Root} : Parent[x] \in S}
Lineage[c \in Nodes] == {x \in Nodes : \A S \in WithParents : c \in S => x \in S}

\* Every context was started by one that the controller started, directly or not.
ASSUME PushesTreeAssumption == \A c \in Nodes : Root \in Lineage[c]

VARIABLES
    cache,      \* [Nodes -> the paths in _cache]
    waiters,    \* [Nodes -> _waiters: <<path, context>> to pass on]
    asked,      \* [Nodes -> the paths the main thread waits for in get()]
    sent,       \* [Nodes -> _sent_by_stream: <<path, child>>]
    forwarding, \* [Nodes -> calls of _forward() due: <<path, context>>]
    adding,     \* [Nodes -> sent and not yet added to _sent_by_stream]
    inbox       \* [Nodes -> requests its pool has not taken]

pushed == <<cache, waiters, asked, sent, forwarding, adding, inbox>>

Requests == [method : {"store_and_forward", "forward"}, path : Paths, context : Nodes]

PushesTypeOK ==
    /\ cache \in [Nodes -> SUBSET Paths] /\ asked \in [Nodes -> SUBSET Paths]
    /\ waiters \in [Nodes -> SUBSET (Paths \X Nodes)]
    /\ sent \in [Nodes -> SUBSET (Paths \X Nodes)]
    /\ forwarding \in [Nodes -> SUBSET (Paths \X Nodes)]
    /\ adding \in [Nodes -> SUBSET (Paths \X Nodes)]
    /\ inbox \in [Nodes -> SUBSET Requests]

PushesInit ==
    /\ cache = [n \in Nodes |-> {}] /\ asked = [n \in Nodes |-> {}]
    /\ waiters = [n \in Nodes |-> {}] /\ sent = [n \in Nodes |-> {}]
    /\ forwarding = [n \in Nodes |-> {}] /\ adding = [n \in Nodes |-> {}]
    /\ inbox = [n \in Nodes |-> {}]

\* router.stream_by_id(c), and the context at its other end: the child of n that
\* leads to c.
Hop(n, c) == CHOOSE k \in Lineage[c] : k # Root /\ Parent[k] = n

\* propagate_to() in the controller: the file is read unless cached.
Propagated(p, c) ==
    /\ cache' = [cache EXCEPT ![Root] = @ \cup {p}]
    /\ forwarding' = [forwarding EXCEPT ![Root] = @ \cup {<<p, c>>}]

\* Mutant: a file that was sent is never passed on again.
OnwardOnce(n, p, c) ==
    IF <<p, Hop(n, c)>> \notin sent[n]
    THEN {[method |-> "store_and_forward", path |-> p, context |-> c]} ELSE {}

\* What _forward() sends on: nothing, once the child has the file and is its
\* destination.
Onward(n, p, c) ==
    LET child == Hop(n, c)
    IN  IF <<p, child>> \notin sent[n]
        THEN {[method |-> "store_and_forward", path |-> p, context |-> c]}
        ELSE IF child # c THEN {[method |-> "forward", path |-> p, context |-> c]}
        ELSE {}

\* _forward() up to call_service_async()
Forward(n, p, c) ==
    LET child == Hop(n, c)
    IN  /\ <<p, c>> \in forwarding[n]
        /\ forwarding' = [forwarding EXCEPT ![n] = @ \ {<<p, c>>}]
        /\ adding' = [adding EXCEPT ![n] = @ \cup ({<<p, child>>} \ sent[n])]
        /\ inbox' = [inbox EXCEPT ![child] = @ \cup Onward(n, p, c)]
        /\ UNCHANGED <<cache, waiters, asked, sent>>

\* sent.add(path)
NoteSent(n) ==
    \E e \in adding[n] :
        /\ adding' = [adding EXCEPT ![n] = @ \ {e}]
        /\ sent' = [sent EXCEPT ![n] = @ \cup {e}]
        /\ UNCHANGED <<cache, waiters, asked, forwarding, inbox>>

\* What the waiters of p pass on once it is there.
Released(n, p) == {w \in waiters[n] : w[1] = p}

\* store_and_forward(): the file is stored and its waiters taken under the lock;
\* then it is passed on and each waiter called.
StoreAndForward(n, r) ==
    LET mine == IF r.context = n THEN {} ELSE {<<r.path, r.context>>}
    IN  /\ r.method = "store_and_forward"
        /\ cache' = [cache EXCEPT ![n] = @ \cup {r.path}]
        /\ waiters' = [waiters EXCEPT ![n] = @ \ Released(n, r.path)]
        /\ asked' = [asked EXCEPT ![n] = @ \ {r.path}]
        /\ forwarding' = [forwarding EXCEPT ![n] = @ \cup mine \cup Released(n, r.path)]

\* The waiters once a request for a file that is not there was queued.
Queued(n, r) == waiters[n] \cup {<<r.path, r.context>>}

\* forward()
ForwardLater(n, r) ==
    /\ r.method = "forward"
    /\ \/ /\ r.path \in cache[n]
          /\ forwarding' = [forwarding EXCEPT ![n] = @ \cup {<<r.path, r.context>>}]
          /\ UNCHANGED waiters
       \/ /\ r.path \notin cache[n]
          /\ waiters' = [waiters EXCEPT ![n] = Queued(n, r)]
          /\ UNCHANGED forwarding
    /\ UNCHANGED <<cache, asked>>

Take(n) ==
    \E r \in inbox[n] :
        /\ inbox' = [inbox EXCEPT ![n] = @ \ {r}]
        /\ StoreAndForward(n, r) \/ ForwardLater(n, r)
        /\ UNCHANGED <<sent, adding>>

\* get() of a path that is not cached; it returns once no longer asked for.
Get(n, p) ==
    asked' = [asked EXCEPT ![n] = IF p \in cache[n] THEN @ ELSE @ \cup {p}]

PushStep ==
    \E n \in Nodes :
        \/ \E p \in Paths, c \in Nodes : Forward(n, p, c)
        \/ NoteSent(n)
        \/ Take(n)

\* A context that is gone takes nothing more; what is sent to it is dropped.
Forgotten(n) ==
    /\ inbox' = [inbox EXCEPT ![n] = {}]
    /\ forwarding' = [m \in Nodes |-> {f \in forwarding[m] : f[2] # n}]
    /\ waiters' = [m \in Nodes |-> {w \in waiters[m] : w[2] # n}]
    /\ UNCHANGED <<cache, asked, sent, adding>>
=============================================================================
