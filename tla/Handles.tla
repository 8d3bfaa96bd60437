------------------------------ MODULE Handles ------------------------------
(***************************************************************************)
(* Request and reply over handles: mitogen.core.Router's handle map and    *)
(* respondent index, Context.send_async(), Receiver.close() and the dead   *)
(* messages that stand for a reply that can no longer arrive.              *)
(*                                                                         *)
(* add_handler() and del_handler() run on any thread without a lock; the   *)
(* broker thread invokes handlers and, when a context disconnects, walks   *)
(* the respondent index.  One action is one access to a shared dict or     *)
(* set that another thread changes, the grain at which the GIL lets them   *)
(* interleave.                                                             *)
(***************************************************************************)
EXTENDS Naturals, Sequences, FiniteSets

CONSTANTS
    Contexts,   \* remote contexts, each on a stream of its own
    Handles,    \* handles to allocate, each by one thread (next(_last_handle))
    Persistent, \* handles registered with persist=True
    OwnerOf,    \* [Handles -> Contexts]: the respondent of each handle
    Closers     \* handles whose Receiver may be closed before it got a reply

ASSUME HandlesAssumption ==
    /\ Persistent \subseteq Handles /\ Closers \subseteq Handles
    /\ OwnerOf \in [Handles -> Contexts]

\* dict.get() of a key that is missing from _handles_by_respondent.
Missing == {"missing"}
ASSUME MissingAssumption == Missing \cap Handles = {}

VARIABLES
    map,        \* handles in Router._handle_map
    index,      \* [Contexts -> handles]: Router._handles_by_respondent
    listeners,  \* [Contexts -> Nat]: 'disconnect' listeners add_handler() added
    route,      \* contexts with an entry in Router._stream_by_id
    deferred,   \* requests whose routing waits for the broker thread
    remote,     \* requests written to their context, not answered by it yet
    exited,     \* the broker fired 'exit'
    pc,         \* [Handles -> where the thread using the handle is]
    ref,        \* [Handles -> which set object that thread looked up]
    bpc,        \* what the broker thread is doing
    ctx,        \* the context whose disconnection it announces
    fired,      \* listeners of ctx it has called
    walk,       \* handles _on_respondent_disconnect() has yet to visit
    resized,    \* the set it walks was changed by another thread
    invoking,   \* <<handle, message>> of the handler it is about to call, or has
                \* just called during a walk
    caught,     \* the disconnection is announced inside the try of Broker._call()
    stopping,   \* an exception made the broker shut down
    got,        \* [Handles -> Seq]: what each Receiver was passed
    missed      \* history: handles left out of what announces the disconnection
                \* of their respondent, each at one of the moments named below

router == <<map, index, listeners, route>>
broker == <<bpc, ctx, fired, walk, resized, invoking, caught, stopping>>
vars == <<router, deferred, remote, exited, pc, ref, broker, got, missed>>

Calling == {"new", "check", "create", "listen", "lookup", "add", "send"}
Closing == {"lookup2", "discard"}
Settled == {"waiting", "raised", "closed"}

TypeOK ==
    /\ map \subseteq Handles
    /\ index \in [Contexts -> (SUBSET Handles) \cup {Missing}]
    /\ listeners \in [Contexts -> Nat]
    /\ route \subseteq Contexts
    /\ deferred \in Seq(Handles)
    /\ remote \subseteq Handles
    /\ exited \in BOOLEAN
    /\ pc \in [Handles -> Calling \cup Closing \cup Settled]
    /\ ref \in [Handles -> {"none", "live", "lost", "popped", "stale"}]
    /\ bpc \in {"idle", "invoke", "fire", "walk", "told", "exit", "gone"}
    /\ ctx \in Contexts /\ fired \in Nat
    /\ walk \subseteq Handles /\ resized \in BOOLEAN
    /\ invoking \in {<<>>} \cup (Handles \X {"reply", "dead"})
    /\ caught \in BOOLEAN /\ stopping \in BOOLEAN
    /\ got \in [Handles -> Seq({"reply", "dead"})]
    /\ missed \subseteq Handles

Init ==
    /\ map = {}
    /\ index = [c \in Contexts |-> Missing]
    /\ listeners = [c \in Contexts |-> 0]
    /\ route = Contexts
    /\ deferred = <<>> /\ remote = {} /\ exited = FALSE
    /\ pc = [h \in Handles |-> "new"]
    /\ ref = [h \in Handles |-> "none"]
    /\ bpc = "idle" /\ ctx \in Contexts /\ fired = 0
    /\ walk = {} /\ resized = FALSE
    /\ invoking = <<>> /\ caught = TRUE /\ stopping = FALSE
    /\ got = [h \in Handles |-> <<>>]
    /\ missed = {}

Goto(h, label) == pc' = [pc EXCEPT ![h] = label]

----------------------------------------------------------------------------
(* User threads: Context.send_async(), that is add_handler() and route().  *)

\* self._handle_map[handle] = persist, fn, policy, respondent
AddToMap(h) ==
    /\ pc[h] = "new"
    /\ map' = map \cup {h}
    /\ Goto(h, "check")
    /\ UNCHANGED <<index, listeners, route, deferred, remote, exited, ref, broker, got, missed>>

\* if respondent not in self._handles_by_respondent
CheckRespondent(h) ==
    /\ pc[h] = "check"
    /\ Goto(h, IF index[OwnerOf[h]] = Missing THEN "create" ELSE "lookup")
    /\ UNCHANGED <<router, deferred, remote, exited, ref, broker, got, missed>>

\* self._handles_by_respondent[respondent] = set(). Another thread may have done the
\* same since the test: its set leaves the index with the handles that are in it, and
\* threads that looked it up go on to change a set nobody will walk.
CreateSet(h) ==
    LET c == OwnerOf[h]
    IN  /\ pc[h] = "create"
        /\ index' = [index EXCEPT ![c] = {}]
        /\ ref' = [g \in Handles |->
                     IF OwnerOf[g] = c /\ ref[g] = "live" THEN "lost" ELSE ref[g]]
        /\ missed' = IF index[c] = Missing THEN missed ELSE missed \cup index[c]
        /\ Goto(h, "listen")
        /\ UNCHANGED <<map, listeners, route, deferred, remote, exited, broker, got>>

Listen(h) ==
    /\ pc[h] = "listen"
    /\ listeners' = [listeners EXCEPT ![OwnerOf[h]] = @ + 1]
    /\ Goto(h, "lookup")
    /\ UNCHANGED <<map, index, route, deferred, remote, exited, ref, broker, got, missed>>

\* self._handles_by_respondent[respondent], before .add() or .discard(): a
\* KeyError goes to the caller of send_async() or close().
Lookup(h, next) ==
    IF index[OwnerOf[h]] = Missing
    THEN Goto(h, "raised") /\ UNCHANGED ref
    ELSE Goto(h, next) /\ ref' = [ref EXCEPT ![h] = "live"]

LookupToAdd(h) ==
    /\ pc[h] = "lookup"
    /\ Lookup(h, "add")
    /\ UNCHANGED <<router, deferred, remote, exited, broker, got, missed>>

IsLive(h) == ref[h] = "live"

\* Put S in the set object the thread looked up: the one in the index, the one
\* the broker thread popped and walks, or one that left the index otherwise.
Modify(h, S) ==
    /\ index' = IF IsLive(h) THEN [index EXCEPT ![OwnerOf[h]] = S] ELSE index
    /\ resized' = (resized \/ ref[h] = "popped")
    /\ ref' = [ref EXCEPT ![h] = "none"]
    /\ UNCHANGED <<bpc, ctx, fired, walk, invoking, caught, stopping>>

WithHandle(h) == index[OwnerOf[h]] \cup {h}

AddToIndex(h) ==
    /\ pc[h] = "add"
    /\ Modify(h, WithHandle(h))
    /\ missed' = IF ref[h] = "lost" THEN missed \cup {h} ELSE missed
    /\ Goto(h, "send")
    /\ UNCHANGED <<map, listeners, route, deferred, remote, exited, got>>

\* Router.route(): deferred to the broker thread, refused once it exited.
Send(h) ==
    /\ pc[h] = "send"
    /\ IF exited
       THEN Goto(h, "raised") /\ UNCHANGED deferred
       ELSE Goto(h, "waiting") /\ deferred' = Append(deferred, h)
    /\ UNCHANGED <<router, remote, exited, ref, broker, got, missed>>

----------------------------------------------------------------------------
(* User threads: Receiver.close(), that is del_handler() and Latch.close() *)

\* _handle_map.pop(handle); KeyError when a reply was delivered meanwhile.
CloseReceiver(h) ==
    /\ pc[h] = "waiting" /\ h \in Closers
    /\ IF h \in map
       THEN map' = map \ {h} /\ Goto(h, "lookup2")
       ELSE Goto(h, "raised") /\ UNCHANGED map
    /\ UNCHANGED <<index, listeners, route, deferred, remote, exited, ref, broker, got, missed>>

LookupToDiscard(h) ==
    /\ pc[h] = "lookup2"
    /\ Lookup(h, "discard")
    /\ UNCHANGED <<router, deferred, remote, exited, broker, got, missed>>

Discard(h) ==
    /\ pc[h] = "discard"
    /\ Modify(h, index[OwnerOf[h]] \ {h})
    /\ Goto(h, "closed")
    /\ UNCHANGED <<map, listeners, route, deferred, remote, exited, got, missed>>

----------------------------------------------------------------------------
(* The broker thread: _invoke() and _async_route().                        *)

\* Mutant: a one-shot handler stays registered after its message.
UnregistersNever(h) == FALSE

Unregisters(h) == h \notin Persistent

\* _invoke() of a message for handle h from its respondent, or of a dead one:
\* an unknown handle is ignored (neither message can be answered).
Invoke(h, what) ==
    /\ IF h \in map THEN bpc' = "invoke" /\ invoking' = <<h, what>>
                    ELSE UNCHANGED <<bpc, invoking>>
    /\ UNCHANGED <<ctx, fired, walk, resized, caught, stopping>>

\* The rest of it: a one-shot handle is unregistered, then fn() is called.
CallHandler ==
    LET h == invoking[1]
    IN  /\ bpc = "invoke"
        /\ ~Unregisters(h) \/ (h \in map /\ index[OwnerOf[h]] # Missing)
        /\ got' = [got EXCEPT ![h] = Append(@, invoking[2])]
        /\ IF Unregisters(h)
           THEN /\ map' = map \ {h}
                /\ index' = [index EXCEPT ![OwnerOf[h]] = @ \ {h}]
           ELSE UNCHANGED <<map, index>>
        /\ bpc' = "idle" /\ invoking' = <<>>
        /\ UNCHANGED <<listeners, route, deferred, remote, exited, pc, ref, ctx, fired, walk,
                       resized, caught, stopping, missed>>

\* What was written to a stream that is gone is never answered.
Unroute(c) ==
    /\ route' = route \ {c}
    /\ remote' = {h \in remote : OwnerOf[h] # c}

\* del_handler() raises KeyError instead: its caller closed the Receiver since,
\* or the respondent's set is gone; fn() is not called.  Broker._call() then
\* disconnects the stream a reply came from; a dead message was being delivered
\* by a deferred function, and Waker.on_receive() shuts the broker down.
HandlerGone ==
    LET h == invoking[1]
    IN  /\ bpc = "invoke"
        /\ Unregisters(h)
        /\ h \notin map \/ index[OwnerOf[h]] = Missing
        /\ map' = map \ {h}
        /\ missed' = missed \cup (map \cap {h})
        /\ invoking' = <<>>
        /\ IF invoking[2] = "reply"
           THEN /\ Unroute(OwnerOf[h])
                /\ bpc' = "fire" /\ ctx' = OwnerOf[h] /\ fired' = 0 /\ caught' = FALSE
                /\ UNCHANGED stopping
           ELSE /\ bpc' = "idle" /\ stopping' = TRUE
                /\ UNCHANGED <<route, remote, ctx, fired, caught>>
        /\ UNCHANGED <<index, listeners, deferred, exited, pc, ref, walk, resized, got>>

\* Mutant: a message for a context without a route is dropped.
DropsUnroutable == TRUE

\* _maybe_send_dead() answers a request that has a reply_to.
Drops == FALSE

\* _async_route() of a request: written to the stream, or answered with a dead
\* message at once.
RouteRequest ==
    /\ bpc = "idle" /\ deferred # <<>>
    /\ deferred' = Tail(deferred)
    /\ LET h == Head(deferred)
       IN  IF OwnerOf[h] \in route
           THEN remote' = remote \cup {h} /\ UNCHANGED broker
           ELSE /\ IF Drops THEN UNCHANGED broker ELSE Invoke(h, "dead")
                /\ UNCHANGED remote
    /\ UNCHANGED <<router, exited, pc, ref, got, missed>>

\* A reply arrives on the context's stream.
ReceiveReply(h) ==
    /\ bpc = "idle" /\ h \in remote /\ OwnerOf[h] \in route
    /\ remote' = remote \ {h}
    /\ Invoke(h, "reply")
    /\ UNCHANGED <<router, deferred, exited, pc, ref, got, missed>>

----------------------------------------------------------------------------
(* The broker thread: disconnection and exit.                              *)

\* _on_stream_disconnect(): the route goes, then 'disconnect' is fired.
StreamDisconnects(c) ==
    /\ bpc = "idle" /\ c \in route
    /\ Unroute(c)
    /\ bpc' = "fire" /\ ctx' = c /\ fired' = 0 /\ caught' = TRUE
    /\ UNCHANGED <<map, index, listeners, deferred, exited, pc, ref, walk, resized,
                   invoking, stopping, got, missed>>

\* The next listener runs _on_respondent_disconnect(): the set is popped from
\* the index, while other threads may hold a reference to it.
PopRespondent ==
    /\ bpc = "fire" /\ fired < listeners[ctx]
    /\ fired' = fired + 1
    /\ bpc' = "walk"
    /\ walk' = IF index[ctx] = Missing THEN {} ELSE index[ctx]
    /\ resized' = FALSE
    /\ index' = [index EXCEPT ![ctx] = Missing]
    /\ ref' = [h \in Handles |->
                 IF OwnerOf[h] = ctx /\ ref[h] = "live" THEN "popped" ELSE ref[h]]
    /\ UNCHANGED <<map, listeners, route, deferred, remote, exited, pc, ctx, invoking, caught,
                   stopping, got, missed>>

\* The loop over the popped set is left: nobody will look at it any more.
Leave == ref' = [h \in Handles |-> IF ref[h] = "popped" THEN "stale" ELSE ref[h]]

\* An exception leaves the loop, the handlers it had yet to call and the listeners that
\* remain are not called, and
\* nobody catches it when the disconnection came from Broker._call() itself.
Raises ==
    /\ bpc' = "idle" /\ walk' = {} /\ invoking' = <<>>
    /\ fired' = 0 /\ resized' = FALSE /\ caught' = TRUE
    /\ missed' = missed \cup walk
    /\ stopping' = (stopping \/ ~caught)
    /\ Leave
    /\ UNCHANGED <<router, deferred, remote, exited, pc, ctx, got>>

\* One turn of its loop: the handler is looked up and called.
NotifyOne(h) ==
    /\ bpc = "walk" /\ h \in walk /\ ~resized
    /\ h \in map
    /\ got' = [got EXCEPT ![h] = Append(@, "dead")]
    /\ bpc' = "told" /\ invoking' = <<h, "dead">>
    /\ UNCHANGED <<router, deferred, remote, exited, pc, ref, ctx, fired, walk, resized, caught,
                   stopping, missed>>

\* del self._handle_map[handle]
Forget ==
    LET h == invoking[1]
    IN  /\ bpc = "told" /\ h \in map
        /\ map' = map \ {h}
        /\ walk' = walk \ {h}
        /\ bpc' = "walk" /\ invoking' = <<>>
        /\ UNCHANGED <<index, listeners, route, deferred, remote, exited, pc, ref, ctx, fired,
                       resized, caught, stopping, got, missed>>

\* RuntimeError: the set changed size; KeyError: the handle is not in the map.
WalkRaises ==
    /\ \/ bpc = "walk" /\ resized
       \/ bpc = "walk" /\ \E h \in walk : h \notin map
       \/ bpc = "told" /\ invoking[1] \notin map
    /\ Raises

WalkEnds ==
    /\ bpc = "walk" /\ walk = {} /\ ~resized
    /\ bpc' = "fire"
    /\ Leave
    /\ UNCHANGED <<router, deferred, remote, exited, pc, ctx, fired, walk, resized, invoking,
                   caught, stopping, got, missed>>

\* A thread may have filled the set another one created but did not listen() for.
FireEnds ==
    /\ bpc = "fire" /\ fired = listeners[ctx]
    /\ bpc' = "idle" /\ fired' = 0 /\ caught' = TRUE
    /\ missed' = IF fired = 0 /\ index[ctx] # Missing THEN missed \cup index[ctx] ELSE missed
    /\ UNCHANGED <<router, deferred, remote, exited, pc, ref, ctx, walk, resized, invoking,
                   stopping, got>>

\* _on_broker_exit(): popitem() and fn(dead), until the map is empty.
BrokerExits ==
    /\ bpc = "idle"
    /\ bpc' = "exit" /\ exited' = TRUE
    /\ UNCHANGED <<router, deferred, remote, pc, ref, ctx, fired, walk, resized, invoking,
                   caught, stopping, got, missed>>

NotifyExit(h) ==
    /\ bpc = "exit" /\ h \in map
    /\ map' = map \ {h}
    /\ got' = [got EXCEPT ![h] = Append(@, "dead")]
    /\ UNCHANGED <<index, listeners, route, deferred, remote, exited, pc, ref, broker, missed>>

ExitEnds ==
    /\ bpc = "exit" /\ map = {}
    /\ bpc' = "gone"
    /\ UNCHANGED <<router, deferred, remote, exited, pc, ref, ctx, fired, walk, resized,
                   invoking, caught, stopping, got, missed>>

----------------------------------------------------------------------------
UserStep(h) ==
    \/ AddToMap(h) \/ CheckRespondent(h) \/ CreateSet(h) \/ Listen(h) \/ LookupToAdd(h)
    \/ AddToIndex(h) \/ Send(h)
    \/ LookupToDiscard(h) \/ Discard(h)

BrokerStep ==
    \/ RouteRequest \/ CallHandler \/ HandlerGone
    \/ PopRespondent \/ Forget \/ WalkRaises \/ WalkEnds \/ FireEnds
    \/ ExitEnds
    \/ \E h \in Handles : NotifyOne(h) \/ NotifyExit(h)

Next ==
    \/ BrokerStep
    \/ \E h \in Handles : UserStep(h) \/ CloseReceiver(h) \/ ReceiveReply(h)
    \/ \E c \in Contexts : StreamDisconnects(c)
    \/ BrokerExits

\* Threads run; nothing obliges a context to answer or to disconnect.
Fairness ==
    /\ WF_vars(BrokerStep \/ (stopping /\ BrokerExits))
    /\ \A h \in Handles : WF_vars(UserStep(h))

Spec == Init /\ [][Next]_vars
FairSpec == Spec /\ Fairness

----------------------------------------------------------------------------
(* Properties.                                                             *)

\* A one-shot Receiver is passed one message at most: a reply and the dead
\* message of a disconnection or of the broker's exit never both reach it.
AtMostOneReply == \A h \in Handles \ Persistent : Len(got[h]) <= 1

\* A request whose context is gone, or whose broker is, is answered, unless its own
\* handle was left out: of the set in the index by a thread that replaced it, of a
\* walk by an exception that ended it (or by a listener not there yet), or of the map
\* by a KeyError of del_handler(). Another thread's handle never pays for that.
Lost(h) == pc[h] = "waiting" /\ (OwnerOf[h] \notin route \/ exited)
Answered(h) == got[h] # <<>> \/ pc[h] # "waiting"

LostRequestsAreAnswered ==
    \A h \in Handles : Lost(h) ~> (Answered(h) \/ h \in missed)

\* add_handler(respondent=...) "arranges for a dead message to be delivered to
\* `fn` when disconnection of the context is detected".
DisconnectionIsTold ==
    \A h \in Handles : (pc[h] = "waiting" /\ OwnerOf[h] \notin route) ~> Answered(h)
=============================================================================
