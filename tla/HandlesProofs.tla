--------------------------- MODULE HandlesProofs ---------------------------
(***************************************************************************)
(* Theorems about Handles, for any number of contexts and handles: types,  *)
(* and that a one-shot receiver gets one message at most.                  *)
(***************************************************************************)
EXTENDS Handles, TLAPS

(***************************************************************************)
(* Types.  A thread that holds the set of the index finds it there: the    *)
(* broker thread, when it takes the set out, makes it a popped one.  The   *)
(* broker thread calls a handler it has looked up.                         *)
(***************************************************************************)
LiveIsThere == \A h \in Handles : ref[h] = "live" => index[OwnerOf[h]] # Missing
Invoked == bpc \in {"invoke", "told"} => invoking # <<>>

TypeInv == TypeOK /\ LiveIsThere /\ Invoked

\* The index and who holds a set of it; the queues; where everybody is; the others.
IndexTypes ==
    /\ index \in [Contexts -> (SUBSET Handles) \cup {Missing}]
    /\ ref \in [Handles -> {"none", "live", "lost", "popped", "stale"}]
    /\ LiveIsThere
QueueTypes == deferred \in Seq(Handles) /\ got \in [Handles -> Seq({"reply", "dead"})]
PlaceTypes ==
    /\ pc \in [Handles -> Calling \cup Closing \cup Settled]
    /\ bpc \in {"idle", "invoke", "fire", "walk", "told", "exit", "gone"}
    /\ invoking \in {<<>>} \cup (Handles \X {"reply", "dead"})
    /\ Invoked
OtherTypes ==
    /\ map \subseteq Handles /\ remote \subseteq Handles /\ walk \subseteq Handles
    /\ listeners \in [Contexts -> Nat] /\ route \subseteq Contexts
    /\ ctx \in Contexts /\ fired \in Nat
    /\ exited \in BOOLEAN /\ resized \in BOOLEAN /\ caught \in BOOLEAN
    /\ stopping \in BOOLEAN /\ missed \subseteq Handles

\* The groups are all there is to TypeInv.
LEMMA TypeParts == TypeInv <=> IndexTypes /\ QueueTypes /\ PlaceTypes /\ OtherTypes
  BY DEF TypeInv, TypeOK, IndexTypes, QueueTypes, PlaceTypes, OtherTypes

\* The same of the next state.
LEMMA TypePartsNext ==
    ASSUME IndexTypes', QueueTypes', PlaceTypes', OtherTypes' PROVE TypeInv'
  BY DEF TypeInv, TypeOK, IndexTypes, QueueTypes, PlaceTypes, OtherTypes

\* A set of handles is not the mark of a missing entry.
LEMMA NotMissing == ASSUME NEW S \in SUBSET Handles PROVE S # Missing
  BY MissingAssumption DEF Missing

\* put() into a queue.
LEMMA AppendType == ASSUME NEW S, NEW s \in Seq(S), NEW x \in S PROVE Append(s, x) \in Seq(S)
  OBVIOUS

\* A router starts with no handler and every context routed.
LEMMA InitTypes == Init => TypeInv
<1> SUFFICES ASSUME Init PROVE TypeInv
  OBVIOUS
<1>1. IndexTypes
  BY HandlesAssumption DEF Init, IndexTypes, LiveIsThere
<1>2. QueueTypes
  BY DEF Init, QueueTypes
<1>3. PlaceTypes
  BY DEF Init, PlaceTypes, Invoked, Calling
<1>4. OtherTypes
  BY DEF Init, OtherTypes
<1> QED
  BY <1>1, <1>2, <1>3, <1>4, TypeParts

\* Threads that call send_async() and close().
LEMMA UserTypes ==
    ASSUME TypeInv, NEW h \in Handles, UserStep(h) \/ CloseReceiver(h) PROVE TypeInv'
<1> USE HandlesAssumption, TypeParts DEF Goto
<1>1. CASE AddToMap(h)
  <2>1. IndexTypes'
    BY <1>1 DEF AddToMap, broker, IndexTypes, LiveIsThere
  <2>2. QueueTypes'
    BY <1>1 DEF AddToMap, broker, QueueTypes
  <2>3. PlaceTypes'
    BY <1>1 DEF AddToMap, broker, PlaceTypes, Invoked, Calling, Closing, Settled
  <2>4. OtherTypes'
    BY <1>1 DEF AddToMap, broker, OtherTypes
  <2> QED
    BY <2>1, <2>2, <2>3, <2>4, TypePartsNext
<1>2. CASE CheckRespondent(h)
  <2>1. IndexTypes'
    BY <1>2 DEF CheckRespondent, router, broker, IndexTypes, LiveIsThere
  <2>2. QueueTypes'
    BY <1>2 DEF CheckRespondent, router, broker, QueueTypes
  <2>3. PlaceTypes'
    BY <1>2 DEF CheckRespondent, router, broker, PlaceTypes, Invoked, Calling, Closing, Settled
  <2>4. OtherTypes'
    BY <1>2 DEF CheckRespondent, router, broker, OtherTypes
  <2> QED
    BY <2>1, <2>2, <2>3, <2>4, TypePartsNext
<1>9. CASE CreateSet(h)
  <2>1. IndexTypes'
    BY <1>9, NotMissing DEF CreateSet, broker, IndexTypes, LiveIsThere
  <2>2. QueueTypes'
    BY <1>9 DEF CreateSet, broker, QueueTypes
  <2>3. PlaceTypes'
    BY <1>9 DEF CreateSet, broker, PlaceTypes, Invoked, Calling, Closing, Settled
  <2>4. OtherTypes'
    <3>1. missed' \subseteq Handles
      BY <1>9 DEF CreateSet, IndexTypes, OtherTypes
    <3> QED
      BY <1>9, <3>1 DEF CreateSet, broker, OtherTypes
  <2> QED
    BY <2>1, <2>2, <2>3, <2>4, TypePartsNext
<1>3. CASE Listen(h)
  <2>1. IndexTypes'
    BY <1>3 DEF Listen, broker, IndexTypes, LiveIsThere
  <2>2. QueueTypes'
    BY <1>3 DEF Listen, broker, QueueTypes
  <2>3. PlaceTypes'
    BY <1>3 DEF Listen, broker, PlaceTypes, Invoked, Calling, Closing, Settled
  <2>4. OtherTypes'
    BY <1>3 DEF Listen, broker, OtherTypes
  <2> QED
    BY <2>1, <2>2, <2>3, <2>4, TypePartsNext
<1>4. CASE LookupToAdd(h) \/ LookupToDiscard(h)
  <2>1. IndexTypes'
    BY <1>4 DEF LookupToAdd, LookupToDiscard, Lookup, router, broker, IndexTypes, LiveIsThere
  <2>2. QueueTypes'
    BY <1>4 DEF LookupToAdd, LookupToDiscard, Lookup, router, broker, QueueTypes
  <2>3. PlaceTypes'
    BY <1>4 DEF LookupToAdd, LookupToDiscard, Lookup, router, broker, PlaceTypes, Invoked, Calling, Closing, Settled
  <2>4. OtherTypes'
    BY <1>4 DEF LookupToAdd, LookupToDiscard, Lookup, router, broker, OtherTypes
  <2> QED
    BY <2>1, <2>2, <2>3, <2>4, TypePartsNext
<1>5. CASE AddToIndex(h)
  <2>1. IndexTypes'
    BY <1>5, NotMissing DEF AddToIndex, Modify, WithHandle, IsLive, IndexTypes, LiveIsThere
  <2>2. QueueTypes'
    BY <1>5, NotMissing DEF AddToIndex, Modify, WithHandle, IsLive, QueueTypes
  <2>3. PlaceTypes'
    BY <1>5, NotMissing DEF AddToIndex, Modify, WithHandle, IsLive, PlaceTypes, Invoked, Calling, Closing, Settled
  <2>4. OtherTypes'
    BY <1>5, NotMissing DEF AddToIndex, Modify, WithHandle, IsLive, OtherTypes
  <2> QED
    BY <2>1, <2>2, <2>3, <2>4, TypePartsNext
<1>6. CASE Discard(h)
  <2>1. IndexTypes'
    BY <1>6, NotMissing DEF Discard, Modify, IsLive, IndexTypes, LiveIsThere
  <2>2. QueueTypes'
    BY <1>6, NotMissing DEF Discard, Modify, IsLive, QueueTypes
  <2>3. PlaceTypes'
    BY <1>6, NotMissing DEF Discard, Modify, IsLive, PlaceTypes, Invoked, Calling, Closing, Settled
  <2>4. OtherTypes'
    BY <1>6, NotMissing DEF Discard, Modify, IsLive, OtherTypes
  <2> QED
    BY <2>1, <2>2, <2>3, <2>4, TypePartsNext
<1>7. CASE Send(h)
  <2>1. IndexTypes'
    BY <1>7 DEF Send, router, broker, IndexTypes, LiveIsThere
  <2>2. QueueTypes'
    <3>1. deferred' = deferred \/ deferred' = Append(deferred, h)
      BY <1>7 DEF Send
    <3>2. got' = got
      BY <1>7 DEF Send
    <3> QED
      BY <3>1, <3>2, AppendType DEF QueueTypes
  <2>3. PlaceTypes'
    BY <1>7 DEF Send, router, broker, PlaceTypes, Invoked, Calling, Closing, Settled
  <2>4. OtherTypes'
    BY <1>7 DEF Send, router, broker, OtherTypes
  <2> QED
    BY <2>1, <2>2, <2>3, <2>4, TypePartsNext
<1>8. CASE CloseReceiver(h)
  <2>1. IndexTypes'
    BY <1>8 DEF CloseReceiver, broker, IndexTypes, LiveIsThere
  <2>2. QueueTypes'
    BY <1>8 DEF CloseReceiver, broker, QueueTypes
  <2>3. PlaceTypes'
    BY <1>8 DEF CloseReceiver, broker, PlaceTypes, Invoked, Calling, Closing, Settled
  <2>4. OtherTypes'
    BY <1>8 DEF CloseReceiver, broker, OtherTypes
  <2> QED
    BY <2>1, <2>2, <2>3, <2>4, TypePartsNext
<1> QED
  BY <1>1, <1>2, <1>3, <1>4, <1>5, <1>6, <1>7, <1>8, <1>9 DEF UserStep

\* A message for a handle that may be registered.
LEMMA InvokeTypes ==
    ASSUME TypeInv, NEW h \in Handles, NEW what \in {"reply", "dead"}, Invoke(h, what), pc' = pc
    PROVE  PlaceTypes'
<1>1. CASE h \in map
  <2>1. bpc' = "invoke" /\ invoking' = <<h, what>>
    BY <1>1 DEF Invoke
  <2>2. <<h, what>> \in Handles \X {"reply", "dead"} /\ <<h, what>> # <<>>
    OBVIOUS
  <2> QED
    BY <2>1, <2>2, TypeParts DEF PlaceTypes, Invoked
<1>2. CASE h \notin map
  BY <1>2, TypeParts DEF Invoke, PlaceTypes, Invoked
<1> QED
  BY <1>1, <1>2

\* Requests and replies on the broker thread.
LEMMA RoutingTypes ==
    ASSUME TypeInv,
           RouteRequest \/ CallHandler \/ HandlerGone \/ \E h \in Handles : ReceiveReply(h)
    PROVE  TypeInv'
<1> USE HandlesAssumption, TypeParts
<1>1. CASE RouteRequest
  <2>1. Head(deferred) \in Handles /\ Tail(deferred) \in Seq(Handles)
    BY <1>1 DEF RouteRequest, QueueTypes
  <2>2. IndexTypes'
    BY <1>1, <2>1 DEF RouteRequest, Invoke, router, broker, IndexTypes, LiveIsThere
  <2>3. QueueTypes'
    BY <1>1, <2>1 DEF RouteRequest, Invoke, router, broker, QueueTypes
  <2>4. PlaceTypes'
    <3>1. CASE UNCHANGED broker
      BY <1>1, <3>1 DEF RouteRequest, broker, PlaceTypes, Invoked
    <3>2. CASE Invoke(Head(deferred), "dead")
      BY <1>1, <2>1, <3>2, InvokeTypes DEF RouteRequest
    <3> QED
      BY <1>1, <3>1, <3>2 DEF RouteRequest
  <2>5. OtherTypes'
    BY <1>1, <2>1 DEF RouteRequest, Invoke, router, broker, OtherTypes
  <2> QED
    BY <2>2, <2>3, <2>4, <2>5, TypePartsNext
<1>2. CASE CallHandler
  <2>1. IndexTypes'
    BY <1>2, NotMissing DEF CallHandler, IndexTypes, LiveIsThere
  <2>2. QueueTypes'
    <3>1. invoking[1] \in Handles /\ invoking[2] \in {"reply", "dead"}
      BY <1>2 DEF CallHandler, PlaceTypes, Invoked
    <3> QED
      BY <1>2, <3>1 DEF CallHandler, QueueTypes
  <2>3. PlaceTypes'
    BY <1>2, NotMissing DEF CallHandler, PlaceTypes, Invoked, Calling, Closing, Settled
  <2>4. OtherTypes'
    BY <1>2, NotMissing DEF CallHandler, OtherTypes
  <2> QED
    BY <2>1, <2>2, <2>3, <2>4, TypePartsNext
<1>3. CASE HandlerGone
  <2>1. IndexTypes'
    BY <1>3 DEF HandlerGone, Unroute, IndexTypes, LiveIsThere
  <2>2. QueueTypes'
    BY <1>3 DEF HandlerGone, Unroute, QueueTypes
  <2>3. PlaceTypes'
    BY <1>3 DEF HandlerGone, Unroute, PlaceTypes, Invoked, Calling, Closing, Settled
  <2>4. OtherTypes'
    <3>1. OwnerOf[invoking[1]] \in Contexts
      BY <1>3 DEF HandlerGone, Unroute, PlaceTypes, Invoked
    <3>2. missed' \subseteq Handles /\ stopping' \in BOOLEAN /\ caught' \in BOOLEAN
      BY <1>3 DEF HandlerGone, Unroute, OtherTypes
    <3> QED
      BY <1>3, <3>1, <3>2 DEF HandlerGone, Unroute, OtherTypes
  <2> QED
    BY <2>1, <2>2, <2>3, <2>4, TypePartsNext
<1>4. ASSUME NEW h \in Handles, ReceiveReply(h) PROVE TypeInv'
  <2>1. IndexTypes'
    BY <1>4 DEF ReceiveReply, Invoke, router, IndexTypes, LiveIsThere
  <2>2. QueueTypes'
    BY <1>4 DEF ReceiveReply, Invoke, router, QueueTypes
  <2>3. PlaceTypes'
    BY <1>4, InvokeTypes DEF ReceiveReply
  <2>4. OtherTypes'
    BY <1>4 DEF ReceiveReply, Invoke, router, OtherTypes
  <2> QED
    BY <2>1, <2>2, <2>3, <2>4, TypePartsNext
<1> QED
  BY <1>1, <1>2, <1>3, <1>4

\* Disconnection and exit on the broker thread.
LEMMA NotifyingTypes ==
    ASSUME TypeInv,
           \/ PopRespondent \/ Forget \/ WalkRaises \/ WalkEnds \/ FireEnds \/ BrokerExits \/ ExitEnds
           \/ \E h \in Handles : NotifyOne(h) \/ NotifyExit(h)
           \/ \E c \in Contexts : StreamDisconnects(c)
    PROVE  TypeInv'
<1> USE HandlesAssumption, TypeParts
<1>1. CASE PopRespondent
  <2>1. IndexTypes'
    BY <1>1 DEF PopRespondent, IndexTypes, LiveIsThere
  <2>2. QueueTypes'
    BY <1>1 DEF PopRespondent, QueueTypes
  <2>3. PlaceTypes'
    BY <1>1 DEF PopRespondent, PlaceTypes, Invoked, Calling, Closing, Settled
  <2>4. OtherTypes'
    <3>1. walk' \subseteq Handles
      BY <1>1 DEF PopRespondent, OtherTypes, IndexTypes
    <3>2. fired' \in Nat
      BY <1>1 DEF PopRespondent, OtherTypes
    <3>3. /\ resized' = FALSE
          /\ UNCHANGED <<map, remote, listeners, route, ctx, exited, caught, stopping, missed>>
      BY <1>1 DEF PopRespondent
    <3> QED
      BY <3>1, <3>2, <3>3 DEF OtherTypes
  <2> QED
    BY <2>1, <2>2, <2>3, <2>4, TypePartsNext
<1>2. CASE Forget
  <2>1. IndexTypes'
    BY <1>2 DEF Forget, IndexTypes, LiveIsThere
  <2>2. QueueTypes'
    BY <1>2 DEF Forget, QueueTypes
  <2>3. PlaceTypes'
    BY <1>2 DEF Forget, PlaceTypes, Invoked, Calling, Closing, Settled
  <2>4. OtherTypes'
    BY <1>2 DEF Forget, OtherTypes
  <2> QED
    BY <2>1, <2>2, <2>3, <2>4, TypePartsNext
<1>3. CASE WalkRaises
  <2>1. IndexTypes'
    BY <1>3 DEF WalkRaises, Raises, Leave, router, IndexTypes, LiveIsThere
  <2>2. QueueTypes'
    BY <1>3 DEF WalkRaises, Raises, Leave, router, QueueTypes
  <2>3. PlaceTypes'
    BY <1>3 DEF WalkRaises, Raises, Leave, router, PlaceTypes, Invoked, Calling, Closing, Settled
  <2>4. OtherTypes'
    BY <1>3 DEF WalkRaises, Raises, Leave, router, OtherTypes
  <2> QED
    BY <2>1, <2>2, <2>3, <2>4, TypePartsNext
<1>4. CASE WalkEnds \/ FireEnds \/ BrokerExits \/ ExitEnds
  <2>1. IndexTypes'
    BY <1>4 DEF WalkEnds, Leave, FireEnds, BrokerExits, ExitEnds, router, IndexTypes, LiveIsThere
  <2>2. QueueTypes'
    BY <1>4 DEF WalkEnds, Leave, FireEnds, BrokerExits, ExitEnds, router, QueueTypes
  <2>3. PlaceTypes'
    BY <1>4 DEF WalkEnds, Leave, FireEnds, BrokerExits, ExitEnds, router, PlaceTypes, Invoked, Calling, Closing, Settled
  <2>4. OtherTypes'
    <3>1. missed' \subseteq Handles
      BY <1>4 DEF WalkEnds, FireEnds, BrokerExits, ExitEnds, IndexTypes, OtherTypes
    <3>2. CASE FireEnds
      BY <3>1, <3>2 DEF FireEnds, router, OtherTypes
    <3>3. CASE WalkEnds \/ BrokerExits \/ ExitEnds
      BY <3>1, <3>3 DEF WalkEnds, BrokerExits, ExitEnds, router, OtherTypes
    <3> QED
      BY <1>4, <3>2, <3>3
  <2> QED
    BY <2>1, <2>2, <2>3, <2>4, TypePartsNext
<1>5. ASSUME NEW h \in Handles, NotifyOne(h) PROVE TypeInv'
  <2>1. IndexTypes'
    BY <1>5 DEF NotifyOne, router, IndexTypes, LiveIsThere
  <2>2. QueueTypes'
    BY <1>5 DEF NotifyOne, router, QueueTypes
  <2>3. PlaceTypes'
    BY <1>5 DEF NotifyOne, router, PlaceTypes, Invoked, Calling, Closing, Settled
  <2>4. OtherTypes'
    BY <1>5 DEF NotifyOne, router, OtherTypes
  <2> QED
    BY <2>1, <2>2, <2>3, <2>4, TypePartsNext
<1>6. ASSUME NEW h \in Handles, NotifyExit(h) PROVE TypeInv'
  <2>1. IndexTypes'
    BY <1>6 DEF NotifyExit, broker, IndexTypes, LiveIsThere
  <2>2. QueueTypes'
    BY <1>6 DEF NotifyExit, broker, QueueTypes
  <2>3. PlaceTypes'
    BY <1>6 DEF NotifyExit, broker, PlaceTypes, Invoked, Calling, Closing, Settled
  <2>4. OtherTypes'
    BY <1>6 DEF NotifyExit, broker, OtherTypes
  <2> QED
    BY <2>1, <2>2, <2>3, <2>4, TypePartsNext
<1>7. ASSUME NEW c \in Contexts, StreamDisconnects(c) PROVE TypeInv'
  <2>1. IndexTypes'
    BY <1>7 DEF StreamDisconnects, Unroute, IndexTypes, LiveIsThere
  <2>2. QueueTypes'
    BY <1>7 DEF StreamDisconnects, Unroute, QueueTypes
  <2>3. PlaceTypes'
    BY <1>7 DEF StreamDisconnects, Unroute, PlaceTypes, Invoked, Calling, Closing, Settled
  <2>4. OtherTypes'
    BY <1>7 DEF StreamDisconnects, Unroute, OtherTypes
  <2> QED
    BY <2>1, <2>2, <2>3, <2>4, TypePartsNext
<1> QED
  BY <1>1, <1>2, <1>3, <1>4, <1>5, <1>6, <1>7

\* Every step keeps the types, whichever thread takes it.
LEMMA TypeStep == ASSUME TypeInv, [Next]_vars PROVE TypeInv'
<1>1. CASE Next
  BY <1>1, UserTypes, RoutingTypes, NotifyingTypes DEF Next, BrokerStep
<1>2. CASE UNCHANGED vars
  BY <1>2 DEF vars, router, broker, TypeInv, TypeOK, LiveIsThere, Invoked
<1> QED
  BY <1>1, <1>2

\* The variables keep their types. In particular a set that a thread looked up in the
\* index is changed there only while it is there, whatever the broker thread popped.
THEOREM TypeCorrect == Spec => []TypeOK
<1>1. Spec => []TypeInv
  BY InitTypes, TypeStep, PTL DEF Spec
<1>2. TypeInv => TypeOK
  BY DEF TypeInv
<1> QED
  BY <1>1, <1>2, PTL

----------------------------------------------------------------------------
(* One message at most.  A one-shot receiver that is registered has been   *)
(* passed nothing, but for the moment between fn() and the del statement   *)
(* of _on_respondent_disconnect(): and then the broker thread is busy.     *)

Once(h) ==
    /\ Len(got[h]) <= 1
    /\ pc[h] = "new" => h \notin map /\ got[h] = <<>>
    /\ h \in map /\ ~(bpc = "told" /\ invoking[1] = h) => got[h] = <<>>

OnceInv == \A h \in Handles \ Persistent : Once(h)

\* Only handlers that are called pass messages: each of those is registered, and
\* the call, or the walk that makes it, unregisters it.
LEMMA OnceStep == ASSUME TypeInv, OnceInv, [Next]_vars PROVE OnceInv'
<1> SUFFICES ASSUME NEW h \in Handles \ Persistent PROVE Once(h)'
  BY DEF OnceInv
<1>1. Once(h) /\ got[h] \in Seq({"reply", "dead"})
  BY DEF OnceInv, TypeInv, TypeOK
<1> USE <1>1 DEF Once, TypeInv, TypeOK, Goto, Calling, Closing, Settled
\* A step of a thread passes nothing, and registers a handle that is new.
<1>2. ASSUME NEW g \in Handles, UserStep(g) \/ CloseReceiver(g) PROVE Once(h)'
  <2>1. got' = got /\ UNCHANGED <<bpc, invoking>>
    BY <1>2 DEF UserStep, AddToMap, CheckRespondent, CreateSet, Listen, LookupToAdd, AddToIndex, Send,
                LookupToDiscard, Discard, CloseReceiver, Modify, broker
  <2>2. pc'[h] = "new" => pc[h] = "new" /\ map' \subseteq map \cup {g} /\ g # h
    BY <1>2 DEF UserStep, AddToMap, CheckRespondent, CreateSet, Listen, LookupToAdd, AddToIndex, Send,
                LookupToDiscard, Discard, CloseReceiver, Lookup, router
  <2>3. h \in map' => h \in map \/ (pc[h] = "new")
    BY <1>2 DEF UserStep, AddToMap, CheckRespondent, CreateSet, Listen, LookupToAdd, AddToIndex, Send,
                LookupToDiscard, Discard, CloseReceiver, router
  <2> QED
    BY <2>1, <2>2, <2>3
<1>3. CASE CallHandler
  BY <1>3 DEF CallHandler, Unregisters, Invoked
<1>4. CASE HandlerGone
  BY <1>4 DEF HandlerGone, Unroute
<1>5. CASE RouteRequest \/ \E g \in Handles : ReceiveReply(g)
  BY <1>5 DEF RouteRequest, ReceiveReply, Invoke, router, broker
<1>6. ASSUME NEW g \in Handles, NotifyOne(g) PROVE Once(h)'
  BY <1>6 DEF NotifyOne, router
<1>7. CASE Forget
  BY <1>7 DEF Forget
\* A KeyError after fn() means that the handle is not registered any more.
<1>8. CASE WalkRaises
  BY <1>8 DEF WalkRaises, Raises, Leave, router
<1>9. ASSUME NEW g \in Handles, NotifyExit(g) PROVE Once(h)'
  BY <1>9 DEF NotifyExit, broker
<1>10. CASE PopRespondent \/ WalkEnds \/ FireEnds \/ BrokerExits \/ ExitEnds
  BY <1>10 DEF PopRespondent, WalkEnds, Leave, FireEnds, BrokerExits, ExitEnds, router
<1>11. ASSUME NEW c \in Contexts, StreamDisconnects(c) PROVE Once(h)'
  BY <1>11 DEF StreamDisconnects, Unroute
<1>12. CASE UNCHANGED vars
  BY <1>12 DEF vars, router, broker
<1> QED
  BY <1>2, <1>3, <1>4, <1>5, <1>6, <1>7, <1>8, <1>9, <1>10, <1>11, <1>12 DEF Next, BrokerStep

\* A reply, the dead message of a disconnection and that of the broker's exit never
\* reach the same one-shot receiver, however add_handler() and del_handler(), which
\* take no lock, interleave with the broker thread.
THEOREM OneReply == Spec => []AtMostOneReply
<1>1. Init => TypeInv /\ OnceInv
  BY InitTypes DEF Init, OnceInv, Once
<1>2. TypeInv /\ OnceInv /\ [Next]_vars => (TypeInv /\ OnceInv)'
  BY TypeStep, OnceStep
<1>3. OnceInv => AtMostOneReply
  BY DEF OnceInv, Once, AtMostOneReply
<1> QED
  BY <1>1, <1>2, <1>3, PTL DEF Spec
=============================================================================
