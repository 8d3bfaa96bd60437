------------------------------ MODULE Imports ------------------------------
(***************************************************************************)
(* Modules and package resources on their way to the contexts that import  *)
(* them: mitogen.core.Importer and ResourceRequester in every child,       *)
(* mitogen.parent.ModuleForwarder and ResourceForwarder in those that have *)
(* children, mitogen.master.ModuleResponder and ResourceResponder at the   *)
(* root.                                                                   *)
(*                                                                         *)
(* A thread that imports asks its parent (GET), which asks its own parent  *)
(* unless it holds the item, down to the master; the answer (LOAD) comes   *)
(* back hop by hop, with modules the requested one is known to import.     *)
(* The master may also push a module towards a context (FORWARD).          *)
(* _request_module() holds the Importer's lock, every handler runs on the  *)
(* broker thread of its context: each is one action.                       *)
(***************************************************************************)
EXTENDS Naturals, Sequences, FiniteSets, SequencesExt

CONSTANTS
    Nodes, Root, Parent,    \* the tree of contexts: [Nodes \ {Root} -> Nodes]
    Modules, Resources,     \* what can be asked for
    Servable,               \* items the master has
    Failing,                \* items whose lookup raises: see RootAnswer
    Blocked,                \* modules every Importer refuses by its own policy
    Path,                   \* [Modules -> Seq(Modules)]: its packages, outermost first, and itself
    Related,                \* [Modules -> Seq(Modules)]: ModuleFinder.find_related()
    Threads, Home, Script,  \* user threads, their context, what they import in order
    Pushes,                 \* forward_modules() calls: pairs of a context and a module
    MaxDeaths               \* bound on the contexts that die of themselves

Items == Modules \cup Resources
Children == Nodes \ {Root}

\* find_related() compiles each module it names, each of them once and not the one it
\* is asked about; _build_tuple() leaves out those the policy denies.
ASSUME ImportsAssumption ==
    /\ Root \in Nodes /\ Parent \in [Children -> Nodes]
    /\ Modules \cap Resources = {} /\ Servable \subseteq Items /\ Failing \subseteq Items
    /\ Path \in [Modules -> Seq(Modules)]
    /\ \A m \in Modules : Path[m] # <<>> /\ Last(Path[m]) = m
    /\ Related \in [Modules -> Seq(Modules \ Failing)]
    /\ \A m \in Modules : IsInjective(Related[m]) /\ m \notin Range(Related[m])
    /\ Home \in [Threads -> Children] /\ Script \in [Threads -> Seq(Items)]
    /\ Pushes \subseteq Children \X Modules
    /\ Threads \cap Nodes = {}
    /\ MaxDeaths \in Nat

\* c and the contexts between it and the master: the least set that has c and,
\* with a context, its parent.  Every chain of connections begins at the master.
WithParents == {S \in SUBSET Nodes : \A x \in S \ {Root} : Parent[x] \in S}
Lineage(c) == {x \in Nodes : \A S \in WithParents : c \in S => x \in S}

ASSUME TreeAssumption == \A c \in Nodes : Root \in Lineage(c)

VARIABLES
    alive,      \* contexts that run
    linked,     \* children whose parent still has a stream to them
    chan,       \* [pairs of neighbours -> messages written and not read]
    cache,      \* [Children -> [Items -> "none", "good" or "absent"]]: ._cache
    callbacks,  \* [Children -> [Items -> threads and children to tell]]: ._callbacks
    sent,       \* [Children -> modules]: sent_modules of the parent's stream to it
    imported,   \* [Children -> modules]: sys.modules
    at, state,  \* [Threads -> position in Script] and what the thread does
    toPush,     \* forward_modules() calls still to be made
    deaths      \* contexts that died of themselves

streams == <<alive, linked, deaths>>
threads == <<imported, at, state>>
vars == <<streams, chan, cache, callbacks, sent, threads, toPush>>

Links == {e \in Nodes \X Nodes : \E c \in Children : e \in {<<c, Parent[c]>>, <<Parent[c], c>>}}

Get(m) == [kind |-> "GET", item |-> m]
Load(m, a) == [kind |-> "LOAD", item |-> m, answer |-> a]
Forward(m, c) == [kind |-> "FORWARD", item |-> m, target |-> c]

Message == [kind : {"GET"}, item : Items]
             \cup [kind : {"LOAD"}, item : Items, answer : {"good", "absent"}]
             \cup [kind : {"FORWARD"}, item : Modules, target : Children]

TypeOK ==
    /\ alive \subseteq Nodes /\ Root \in alive /\ linked \subseteq Children
    /\ chan \in [Links -> Seq(Message)]
    /\ \A c \in Children :
        /\ \A i \in DOMAIN chan[<<c, Parent[c]>>] : chan[<<c, Parent[c]>>][i].kind = "GET"
        /\ \A i \in DOMAIN chan[<<Parent[c], c>>] : chan[<<Parent[c], c>>][i].kind # "GET"
    /\ cache \in [Children -> [Items -> {"none", "good", "absent"}]]
    /\ callbacks \in [Children -> [Items -> SUBSET (Threads \cup Children)]]
    /\ sent \in [Children -> SUBSET Modules]
    /\ imported \in [Children -> SUBSET Items]
    /\ at \in [Threads -> Nat]
    /\ \A t \in Threads : at[t] \in 1..Len(Script[t]) + 1
    /\ state \in [Threads -> {"run", "wait", "told", "failed"}]
    /\ toPush \subseteq Pushes
    /\ deaths \in 0..MaxDeaths

Init ==
    /\ alive = Nodes /\ linked = Children /\ deaths = 0
    /\ chan = [e \in Links |-> <<>>]
    /\ cache = [c \in Children |-> [m \in Items |-> "none"]]
    /\ callbacks = [c \in Children |-> [m \in Items |-> {}]]
    /\ sent = [c \in Children |-> {}]
    /\ imported = [c \in Children |-> {}]
    /\ at = [t \in Threads |-> 1]
    /\ state = [t \in Threads |-> "run"]
    /\ toPush = Pushes

Up(c) == <<c, Parent[c]>>
Down(c) == <<Parent[c], c>>

\* What arrives on a link whose reader is gone is lost.
Write(ch, e, msgs) == IF e[2] \in alive THEN [ch EXCEPT ![e] = @ \o msgs] ELSE ch

Arrives(e, kind) ==
    e[2] \in alive /\ chan[e] # <<>> /\ Head(chan[e]).kind = kind

Rest(e) == [chan EXCEPT ![e] = Tail(@)]

----------------------------------------------------------------------------
(* Importer._request_module(), ResourceRequester._request_resource(): ask  *)
(* the parent unless the item is cached or was asked for already.          *)

Held(c, m) == cache[c][m] # "none"

\* Mutant: while one item is asked for no other is.
AnyInFlight(c, m) == \E x \in DOMAIN callbacks[c] : callbacks[c][x] # {}

InFlight(c, m) == callbacks[c][m] # {}

Request(ch, c, m, who) ==
    /\ callbacks' = [callbacks EXCEPT ![c][m] = @ \cup {who}]
    /\ chan' = IF InFlight(c, m) THEN ch ELSE Write(ch, Up(c), <<Get(m)>>)

----------------------------------------------------------------------------
(* User threads.                                                           *)

Wanted(t) == Script[t][at[t]]
Running(t, s) == Home[t] \in alive /\ state[t] = s
Importing(t, u) ==
    Home[u] = Home[t] /\ state[u] \in {"wait", "told"} /\ Wanted(u) = Wanted(t)

\* import m, find_spec() having returned a spec; Python's import lock keeps two
\* threads of a context from importing one module at a time.
Import(t) ==
    LET c == Home[t]  m == Wanted(t)
    IN  /\ Running(t, "run") /\ at[t] <= Len(Script[t])
        /\ m \in Modules => \A u \in Threads \ {t} : ~Importing(t, u)
        /\ \/ /\ m \in imported[c]
              /\ at' = [at EXCEPT ![t] = @ + 1]
              /\ UNCHANGED <<chan, callbacks, state>>
           \/ /\ m \notin imported[c] /\ m \in Blocked
              /\ state' = [state EXCEPT ![t] = "failed"]
              /\ UNCHANGED <<chan, callbacks, at>>
           \/ /\ m \notin imported[c] \cup Blocked /\ Held(c, m)
              /\ state' = [state EXCEPT ![t] = "told"]
              /\ UNCHANGED <<chan, callbacks, at>>
           \/ /\ m \notin imported[c] \cup Blocked /\ ~Held(c, m)
              /\ Request(chan, c, m, t)
              /\ state' = [state EXCEPT ![t] = "wait"]
              /\ UNCHANGED at
        /\ UNCHANGED <<streams, cache, sent, imported, toPush>>

\* After event.wait(): execute the module, or raise ModuleNotFoundError; return
\* the resource, or raise FileNotFoundError.
Execute(t) ==
    LET c == Home[t]  m == Wanted(t)
    IN  /\ Running(t, "told")
        /\ IF cache[c][m] = "absent"
           THEN state' = [state EXCEPT ![t] = "failed"] /\ UNCHANGED <<imported, at>>
           ELSE /\ imported' = [imported EXCEPT ![c] = @ \cup ({m} \cap Modules)]
                /\ at' = [at EXCEPT ![t] = @ + 1]
                /\ state' = [state EXCEPT ![t] = "run"]
        /\ UNCHANGED <<streams, chan, cache, callbacks, sent, toPush>>

----------------------------------------------------------------------------
(* The master.                                                             *)

Answer(m) == IF m \in Servable \ Failing THEN "good" ELSE "absent"

\* A related module goes first, provided its top-level package was sent or is what
\* was asked for.
PackageKnown(before, m, r) == Path[r][1] \in before \cup {m}

\* Those of a list that are in S, in order.
Among(list, S) ==
    LET among[i \in 0..Len(list)] ==
            IF i = 0 THEN <<>>
            ELSE IF list[i] \in S THEN Append(among[i - 1], list[i]) ELSE among[i - 1]
    IN  among[Len(list)]

\* ModuleResponder._send_module_and_related(), to a stream that was sent the modules
\* "before": if _build_tuple() raises, the answer is negative and not recorded.
\* ResourceResponder sends no answer if it raises.
RootAnswer(before, m) ==
    IF m \in Resources
    THEN IF m \in Failing THEN <<>> ELSE <<Load(m, Answer(m))>>
    ELSE IF m \in before THEN <<>>
    ELSE IF m \in Failing THEN <<Load(m, "absent")>>
    ELSE LET first == {r \in Modules \ before : PackageKnown(before, m, r)}
             names == IF m \in Servable THEN Among(Related[m], first) ELSE <<>>
             all == Append(names, m)
         IN  [i \in DOMAIN all |-> Load(all[i], Answer(all[i]))]

Recorded(before, msgs) ==
    before \cup ({msgs[i].item : i \in DOMAIN msgs} \cap (Modules \ Failing))

\* _on_get_module(), _on_get_resource()
RootGet(c) ==
    LET msgs == RootAnswer(sent[c], Head(chan[Up(c)]).item)
    IN  /\ Parent[c] = Root /\ Arrives(Up(c), "GET")
        /\ chan' = Write(Rest(Up(c)), Down(c), msgs)
        /\ sent' = [sent EXCEPT ![c] = Recorded(sent[c], msgs)]
        /\ UNCHANGED <<streams, cache, callbacks, threads, toPush>>

\* The first hop from a context to one of its descendants, and whether its stream
\* still exists.
Hop(n, c) == CHOOSE k \in Lineage(c) : k # Root /\ Parent[k] = n
Route(n, c) == n \in Lineage(c) \ {c} /\ Hop(n, c) \in linked

\* A module on its way to c by way of k.
Bundle(msgs, k, c, m) == msgs \o (IF k = c THEN <<>> ELSE <<Forward(m, c)>>)

\* _forward_one_module(): the packages of the module, then the module: what is
\* written to k after the first i of them, and on record as sent.
Pushed(before, k, c, m) ==
    LET pushed[i \in 0..Len(Path[m])] ==
            IF i = 0 THEN [out |-> <<>>, sent |-> before]
            ELSE LET acc == pushed[i - 1]
                     msgs == RootAnswer(acc.sent, Path[m][i])
                 IN  [out |-> acc.out \o Bundle(msgs, k, c, Path[m][i]),
                      sent |-> Recorded(acc.sent, msgs)]
    IN  pushed[Len(Path[m])]

\* The route to the target may be gone.
Push(c, m) ==
    LET k == Hop(Root, c)
        all == Pushed(sent[k], k, c, m)
    IN  /\ <<c, m>> \in toPush
        /\ toPush' = toPush \ {<<c, m>>}
        /\ \/ /\ Route(Root, c)
              /\ chan' = Write(chan, Down(k), all.out)
              /\ sent' = [sent EXCEPT ![k] = all.sent]
           \/ /\ ~Route(Root, c) \/ c \notin alive
              /\ UNCHANGED <<chan, sent>>
        /\ UNCHANGED <<streams, cache, callbacks, threads>>

----------------------------------------------------------------------------
(* ModuleForwarder and ResourceForwarder.                                  *)

\* _send_module_and_related(), _send_resource(): what context n, whose cache is
\* known, writes to its child.  If the stream to the child is gone stream_by_id()
\* returns the parent's, whose other end refuses a LOAD from a child.
Provide(known, k, m) ==
    IF k \notin linked THEN <<>>
    ELSE LET new == {r \in Modules \ sent[k] : known[r] # "none"}
             names == IF m \in Modules /\ known[m] = "good" THEN Among(Related[m], new) ELSE <<>>
             all == IF m \in sent[k] THEN names ELSE Append(names, m)
         IN  [i \in DOMAIN all |-> Load(all[i], known[all[i]])]

\* Mutant: sent_modules is not updated.
NotedNever(k, msgs) == sent[k]

Noted(k, msgs) == sent[k] \cup ({msgs[i].item : i \in DOMAIN msgs} \cap Modules)

\* _on_get_module(), _on_get_resource() of a forwarder, from child k.
ForwarderGet(k) ==
    LET n == Parent[k]
        m == Head(chan[Up(k)]).item
        msgs == Provide(cache[n], k, m)
    IN  /\ n # Root /\ Arrives(Up(k), "GET")
        /\ IF Held(n, m)
           THEN /\ chan' = Write(Rest(Up(k)), Down(k), msgs)
                /\ sent' = [sent EXCEPT ![k] = Noted(k, msgs)]
                /\ UNCHANGED callbacks
           ELSE Request(Rest(Up(k)), n, m, k) /\ UNCHANGED sent
        /\ UNCHANGED <<streams, cache, threads, toPush>>

\* Mutant: the callbacks registered for an item are not called.
TellFirst(c, m) == {CHOOSE w \in callbacks[c][m] : TRUE}

Told(c, m) == callbacks[c][m]

\* Importer._on_load_module(), ResourceRequester._on_load_resource(): store the
\* answer, then call back threads and children.
OnLoad(c) ==
    LET msg == Head(chan[Down(c)])
        m == msg.item
        known == [cache[c] EXCEPT ![m] = msg.answer]
        tell == IF callbacks[c][m] = {} THEN {} ELSE Told(c, m)
        out == [k \in Children |-> IF k \in tell THEN Provide(known, k, m) ELSE <<>>]
    IN  /\ Arrives(Down(c), "LOAD")
        /\ cache' = [cache EXCEPT ![c] = known]
        /\ callbacks' = [callbacks EXCEPT ![c][m] = {}]
        /\ state' = [t \in Threads |-> IF t \in tell THEN "told" ELSE state[t]]
        /\ sent' = [k \in Children |-> Noted(k, out[k])]
        /\ chan' = [e \in Links |->
                      IF e = Down(c) THEN Tail(chan[e])
                      ELSE IF e[1] = c /\ e[2] \in tell \cap alive THEN chan[e] \o out[e[2]]
                      ELSE chan[e]]
        /\ UNCHANGED <<streams, imported, at, toPush>>

\* ModuleForwarder._on_forward_module(): nothing if there is no route to the target,
\* or if the next hop was sent the module before.
Dropped(n, c, m) == ~Route(n, c) \/ m \in sent[Hop(n, c)]

OnForward(n) ==
    LET m == Head(chan[Down(n)]).item
        c == Head(chan[Down(n)]).target
        k == Hop(n, c)
        msgs == Provide(cache[n], k, m)
    IN  /\ Arrives(Down(n), "FORWARD")
        /\ IF Dropped(n, c, m)
           THEN chan' = Rest(Down(n)) /\ UNCHANGED sent
           ELSE /\ chan' = Write(Rest(Down(n)), Down(k), Bundle(msgs, k, c, m))
                /\ sent' = [sent EXCEPT ![k] = Noted(k, msgs)]
        /\ UNCHANGED <<streams, cache, callbacks, threads, toPush>>

----------------------------------------------------------------------------
(* Contexts die; their neighbours read end-of-file.                        *)

Die(n) ==
    /\ n \in alive \ {Root} /\ deaths < MaxDeaths
    /\ alive' = alive \ {n} /\ deaths' = deaths + 1
    /\ chan' = [e \in Links |-> IF e[2] = n THEN <<>> ELSE chan[e]]
    /\ UNCHANGED <<linked, cache, callbacks, sent, threads, toPush>>

\* Router._on_stream_disconnect() in the parent.
Disconnect(n) ==
    /\ n \in linked \ alive /\ Parent[n] \in alive /\ chan[Up(n)] = <<>>
    /\ linked' = linked \ {n}
    /\ UNCHANGED <<alive, deaths, chan, cache, callbacks, sent, threads, toPush>>

\* ExternalContext._on_parent_disconnect() in a child.
LoseParent(n) ==
    /\ n \in alive \ {Root} /\ Parent[n] \notin alive /\ chan[Down(n)] = <<>>
    /\ alive' = alive \ {n}
    /\ chan' = [e \in Links |-> IF e[2] = n THEN <<>> ELSE chan[e]]
    /\ UNCHANGED <<linked, deaths, cache, callbacks, sent, threads, toPush>>

----------------------------------------------------------------------------
ThreadStep == \E t \in Threads : Import(t) \/ Execute(t)

ReadStep ==
    \E c \in Children :
        \/ RootGet(c) \/ ForwarderGet(c) \/ OnLoad(c) \/ OnForward(c)
        \/ Disconnect(c) \/ LoseParent(c)

Next ==
    \/ ThreadStep \/ ReadStep
    \/ \E p \in Pushes : Push(p[1], p[2])
    \/ \E c \in Children : Die(c)

Spec == Init /\ [][Next]_vars

\* Threads run and contexts read what arrives.  A read consumes a message or a
\* death, of which there are finitely many, so that the whole tree reading implies
\* that each context does.
FairSpec == Spec /\ WF_vars(ThreadStep) /\ WF_vars(ReadStep)

----------------------------------------------------------------------------
(* Properties.                                                             *)

\* Positions of answers about an item on a link.
Loads(e, m) == {i \in DOMAIN chan[e] : chan[e][i].kind = "LOAD" /\ chan[e][i].item = m}
Asks(e, m) == \E i \in DOMAIN chan[e] : chan[e][i] = Get(m)

\* Importer._callbacks: "Presence of an entry in this map indicates in-flight
\* GET_MODULE": while somebody waits for an item the request is on its way to the
\* parent, or noted there, or the answer is on its way back.
Unanswerable(m) == m \in Resources \cap Failing

NoForgottenRequest ==
    /\ \A t \in Threads : state[t] = "wait" => t \in callbacks[Home[t]][Wanted(t)]
    /\ \A c \in Children, m \in Items :
        InFlight(c, m) /\ {c, Parent[c]} \subseteq alive /\ ~Unanswerable(m) =>
            \/ Asks(Up(c), m)
            \/ Parent[c] # Root /\ c \in callbacks[Parent[c]][m]
            \/ Loads(Down(c), m) # {}

\* sent_modules: a module is recorded for a stream exactly when its one answer is
\* on its way or was stored, so that skipping what was sent never starves a child.
SentOnce ==
    \A c \in Children, m \in Modules \ Failing :
        {c, Parent[c]} \subseteq alive =>
            Cardinality(Loads(Down(c), m)) + (IF Held(c, m) THEN 1 ELSE 0)
                = (IF m \in sent[c] THEN 1 ELSE 0)

\* A module that FORWARD names has been stored by the time it is read: otherwise
\* _on_forward_module() raises KeyError.
ForwardedIsHeld ==
    \A n \in alive \ {Root} :
        Arrives(Down(n), "FORWARD") =>
            LET msg == Head(chan[Down(n)])
            IN  Dropped(n, msg.target, msg.item) \/ Held(n, msg.item)

\* What a stream is on record for having been sent is true of its other end, when it
\* is skipped and when it is passed on.
RecordsHold == SentOnce /\ ForwardedIsHeld

\* An import ends: with the module, or with an exception; unless its context dies.
ImportsEnd ==
    \A t \in Threads :
        state[t] = "wait" /\ ~Unanswerable(Wanted(t)) ~> state[t] # "wait" \/ Home[t] \notin alive
=============================================================================
