------------------------------ MODULE Contexts ------------------------------
(***************************************************************************)
(* ansible_mitogen.services.ContextService, the cache of connections that  *)
(* Ansible's worker processes share, and the get, put and reset of         *)
(* ansible_mitogen.connection.Connection that use it.                      *)
(*                                                                         *)
(* A worker asks for a stack of connections, each made by way of the one   *)
(* before.  The first to ask for a configuration connects, others wait on  *)
(* a Latch for its answer.  The service runs on the threads of a pool: its *)
(* locked sections are single steps, and what it does without the lock is  *)
(* cut where another thread's or the broker's step can come between.       *)
(***************************************************************************)
EXTENDS Integers, Sequences, FiniteSets, SequencesExt

CONSTANTS
    Workers,            \* Ansible workers, each with one Connection
    Specs, Stack,       \* configurations; [Workers -> non-empty Seq(Specs)]
    Recycled, Become,   \* configurations with enable_lru set; those of a become method
    Becomes,            \* workers whose task is to become another user: .become is set
    MaxInterpreters,    \* of one via= context
    Contexts,           \* 1..n: bound on the connections made
    MaxGets,            \* bound on the requests of each worker
    MaxLosses           \* bound on deaths, resets and failed connections together

ASSUME ContextsAssumption ==
    /\ Stack \in [Workers -> Seq(Specs)] /\ \A w \in Workers : Stack[w] # <<>>
    /\ Recycled \subseteq Specs /\ Become \subseteq Specs /\ Becomes \subseteq Workers
    /\ Contexts = 1..Cardinality(Contexts) /\ Cardinality(Contexts) \in Nat
    /\ IsFiniteSet(Workers)
    /\ {MaxInterpreters, MaxGets, MaxLosses} \subseteq Nat

None == 0       \* no context: the value of via= for the first of a stack
Absent == -1    \* no entry in a dictionary; as an answer, an exception
Keys == Specs \X ({None} \cup Contexts)

VARIABLES
    pc,         \* [Workers -> where the worker's request is]
    hop, via,   \* [Workers -> position in Stack], the context before it
    ctx,        \* [Workers -> the context it connects, or holds]
    got,        \* [Workers -> what its Latch holds: None, a context, Absent]
    count,      \* [Workers -> waiters answered by _produce_response()]
    gets,       \* [Workers -> requests made]
    response,   \* [Keys -> a context or None]: ._response_by_key
    latches,    \* [Keys -> workers that wait]: ._latches_by_key
    refs,       \* [Contexts -> Nat or Absent]: ._refs_by_context
    lru,        \* [Contexts -> Seq(Contexts)]: ._lru_by_via
    keyOf,      \* [Contexts -> a key or <<>>]: ._key_by_context
    viaOf,      \* [Contexts -> a context or Absent]: ._via_by_context
    made, alive,    \* contexts connected, in the order of 1..n; those that live
    madeVia,    \* [Contexts -> the context it is connected through]
    told,       \* contexts sent a shutdown
    fired,      \* contexts whose disconnect event was delivered
    losses,
    early       \* history: contexts lost while one of their key was being made or recorded

request == <<hop, via, ctx, got, count>>
bounds == <<gets, losses>>
caches == <<response, latches, refs, keyOf, viaOf, lru>>
network == <<made, alive, madeVia, told, fired, early>>
vars == <<pc, request, bounds, caches, network>>

Places == {"idle", "find", "wait", "connect", "lru", "init", "record", "refer",
           "produce", "store", "addrefs", "fail", "answered", "hold"}

\* Whoever connects, and will answer the list of those that wait.
Answering == {"connect", "lru", "init", "record", "refer", "produce", "fail"}

KeyOf(w) == <<Stack[w][hop[w]], via[w]>>

TypeOK ==
    /\ pc \in [Workers -> Places]
    /\ hop \in [Workers -> Nat] /\ \A w \in Workers : hop[w] \in 1..Len(Stack[w])
    /\ via \in [Workers -> {None} \cup Contexts] /\ ctx \in [Workers -> {None} \cup Contexts]
    /\ got \in [Workers -> {None, Absent} \cup Contexts]
    /\ count \in [Workers -> Nat]
    /\ gets \in [Workers -> 0..MaxGets]
    /\ response \in [Keys -> {None} \cup Contexts]
    /\ latches \in [Keys -> SUBSET Workers]
    /\ \A k \in Keys : \A w \in latches[k] :
         k = KeyOf(w) /\ pc[w] \in {"wait"} \cup Answering
    /\ refs \in [Contexts -> Nat \cup {Absent}]
    /\ lru \in [Contexts -> Seq(Contexts)] /\ \A v \in Contexts : Len(lru[v]) <= MaxInterpreters
    /\ keyOf \in [Contexts -> Keys \cup {<<>>}]
    /\ viaOf \in [Contexts -> {Absent} \cup Contexts]
    /\ made \in 0..Cardinality(Contexts) /\ alive \subseteq 1..made
    /\ madeVia \in [Contexts -> {None} \cup Contexts]
    /\ told \subseteq alive /\ fired \subseteq (1..made) \ alive
    /\ losses \in 0..MaxLosses
    /\ early \subseteq 1..made

Init ==
    /\ pc = [w \in Workers |-> "idle"]
    /\ hop = [w \in Workers |-> 1]
    /\ via = [w \in Workers |-> None] /\ ctx = via /\ got = via
    /\ count = [w \in Workers |-> 0] /\ gets = count
    /\ response = [k \in Keys |-> None]
    /\ latches = [k \in Keys |-> {}]
    /\ refs = [c \in Contexts |-> Absent] /\ viaOf = refs
    /\ lru = [c \in Contexts |-> <<>>] /\ keyOf = lru
    /\ made = 0 /\ alive = {} /\ madeVia = [c \in Contexts |-> None]
    /\ told = {} /\ fired = {} /\ early = {}
    /\ losses = 0

Go(w, place) == pc' = [pc EXCEPT ![w] = place]
At(w, place) == pc[w] = place

----------------------------------------------------------------------------
(* ContextService.get(), on a pool thread.                                 *)

\* Mutant: every requester connects.
AlwaysFirst(k) == TRUE

First(k) == latches[k] = {}

\* Connection._connect_stack() calls get(), which looks up the first of the stack; or
\* get() looks up the next.
Enters(w) ==
    \/ At(w, "find") /\ UNCHANGED <<hop, via, gets>>
    \/ /\ At(w, "idle") /\ gets[w] < MaxGets
       /\ gets' = [gets EXCEPT ![w] = @ + 1]
       /\ UNCHANGED <<hop, via>>

\* The locked section of _wait_or_start().
WaitOrStart(w) ==
    /\ Enters(w)
    /\ LET k == <<Stack[w][hop'[w]], via'[w]>>  c == response[k]
       IN  \/ /\ c # None /\ refs[c] # Absent
              /\ refs' = [refs EXCEPT ![c] = @ + 1]
              /\ got' = [got EXCEPT ![w] = c]
              /\ Go(w, "answered") /\ UNCHANGED latches
           \/ /\ c # None /\ refs[c] = Absent             \* KeyError
              /\ got' = [got EXCEPT ![w] = Absent]
              /\ Go(w, "answered") /\ UNCHANGED <<refs, latches>>
           \/ /\ c = None
              /\ latches' = [latches EXCEPT ![k] = @ \cup {w}]
              /\ Go(w, IF First(k) THEN "connect" ELSE "wait")
              /\ UNCHANGED <<refs, got>>
    /\ UNCHANGED <<ctx, count, losses, response, keyOf, viaOf, lru, network>>

\* _connect(): the Router method, which raises if the connection cannot be made.
Connect(w) ==
    /\ At(w, "connect")
    /\ \/ /\ via[w] \in alive \cup {None} /\ made < Cardinality(Contexts)
          /\ made' = made + 1 /\ alive' = alive \cup {made'}
          /\ madeVia' = [madeVia EXCEPT ![made'] = via[w]]
          /\ ctx' = [ctx EXCEPT ![w] = made']
          /\ Go(w, IF via[w] # None /\ Stack[w][hop[w]] \in Recycled THEN "lru" ELSE "init")
          /\ UNCHANGED losses
       \/ /\ \/ losses < MaxLosses /\ losses' = losses + 1
             \/ /\ via[w] \notin alive \cup {None} \/ made = Cardinality(Contexts)
                /\ UNCHANGED losses
          /\ Go(w, "fail")
          /\ UNCHANGED <<made, alive, madeVia, ctx>>
    /\ UNCHANGED <<hop, via, got, count, gets, caches, told, fired, early>>

\* _forget_context_unlocked(), which does nothing for a context it has no key of.
Making == Answering \cup {"store", "addrefs"}
Untimely(c) ==
    \E w \in Workers : \/ pc[w] \in Making /\ keyOf[c] = KeyOf(w)
                       \/ pc[w] = "record" /\ ctx[w] = c

Forget(c, vo, lr) ==
    /\ early' = IF Untimely(c) THEN early \cup {c} ELSE early
    /\ IF keyOf[c] = <<>>
       THEN viaOf' = vo /\ lru' = lr /\ UNCHANGED <<response, latches, refs, keyOf>>
       ELSE /\ response' = [response EXCEPT ![keyOf[c]] = None]
            /\ latches' = [latches EXCEPT ![keyOf[c]] = {}]
            /\ keyOf' = [keyOf EXCEPT ![c] = <<>>]
            /\ refs' = [refs EXCEPT ![c] = Absent]
            /\ viaOf' = [vo EXCEPT ![c] = Absent]
            /\ lru' = [lr EXCEPT ![c] = <<>>]

\* _shutdown_unlocked(): next takes the place of c in the list of its via= context.
Shutdown(c, next, vo) ==
    /\ told' = told \cup ({c} \cap alive)
    /\ Forget(c, vo, IF vo[c] = Absent THEN lru ELSE [lru EXCEPT ![vo[c]] = RemoveFirst(@, c) \o next])

Unused(c) == refs[c] = 0

\* The newest interpreter nobody refers to; <<>> if there is none, <<Absent>> if one
\* that is not counted comes first in the search: KeyError.
Victim(v) ==
    LET stops == {i \in DOMAIN lru[v] : Unused(lru[v][i]) \/ refs[lru[v][i]] = Absent}
        i == CHOOSE j \in stops : \A l \in stops : l <= j
    IN  IF stops = {} THEN <<>>
        ELSE IF refs[lru[v][i]] = Absent THEN <<Absent>> ELSE <<lru[v][i]>>

\* _update_lru()
UpdateLru(w) ==
    LET c == ctx[w]  v == via[w]
        vo == [viaOf EXCEPT ![c] = v]
    IN  /\ At(w, "lru")
        /\ \/ /\ Len(lru[v]) < MaxInterpreters
              /\ lru' = [lru EXCEPT ![v] = Append(@, c)] /\ viaOf' = vo
              /\ Go(w, "init")
              /\ UNCHANGED <<told, response, latches, refs, keyOf, early>>
           \/ /\ Len(lru[v]) >= MaxInterpreters /\ Victim(v) \in {<<>>, <<Absent>>}
              /\ viaOf' = vo
              /\ Go(w, IF Victim(v) = <<>> THEN "init" ELSE "fail")
              /\ UNCHANGED <<told, response, latches, refs, keyOf, lru, early>>
           \/ /\ Len(lru[v]) >= MaxInterpreters /\ Victim(v) \notin {<<>>, <<Absent>>}
              /\ Shutdown(Victim(v)[1], <<c>>, vo)
              /\ Go(w, "init")
        /\ UNCHANGED <<request, bounds, made, alive, madeVia, fired>>

\* Mutant: the connection is taken to work without a call over it.
NeverLost(w) == FALSE

Lost(w) == ctx[w] \notin alive

\* listen(context, "disconnect", ...), then context.call(init_child), which raises
\* ChannelError if the context is gone.  An event that comes before the end of
\* _connect() finds no key to forget, whether or not it is listened for.
InitChild(w) ==
    /\ At(w, "init")
    /\ Go(w, IF Lost(w) THEN "fail" ELSE "record")
    /\ UNCHANGED <<request, bounds, caches, network>>

\* The end of _connect(), without the lock: the key, then the count.
Record(w) ==
    /\ At(w, "record")
    /\ keyOf' = [keyOf EXCEPT ![ctx[w]] = KeyOf(w)]
    /\ Go(w, "refer")
    /\ UNCHANGED <<request, bounds, response, latches, refs, viaOf, lru, network>>

Refer(w) ==
    /\ At(w, "refer")
    /\ refs' = [refs EXCEPT ![ctx[w]] = 0]
    /\ Go(w, "produce")
    /\ UNCHANGED <<request, bounds, response, latches, keyOf, viaOf, lru, network>>

Answer(k, x) == got' = [u \in Workers |-> IF u \in latches[k] THEN x ELSE got[u]]

\* _produce_response(): KeyError if the list of waiters is gone.
Produce(w) ==
    LET k == KeyOf(w)
    IN  /\ At(w, "produce")
        /\ IF latches[k] = {}
           THEN Go(w, "fail") /\ UNCHANGED <<got, count, latches>>
           ELSE /\ Answer(k, ctx[w])
                /\ latches' = [latches EXCEPT ![k] = {}]
                /\ count' = [count EXCEPT ![w] = Cardinality(latches[k])]
                /\ Go(w, "store")
        /\ UNCHANGED <<hop, via, ctx, bounds, response, refs, keyOf, viaOf, lru, network>>

\* Without the lock: the response, then the references of those answered.
Store(w) ==
    /\ At(w, "store")
    /\ response' = [response EXCEPT ![KeyOf(w)] = ctx[w]]
    /\ Go(w, "addrefs")
    /\ UNCHANGED <<request, bounds, latches, refs, keyOf, viaOf, lru, network>>

\* Mutant: only the caller is counted.
CountsOne(w) == 1

Counted(w) == count[w]

AddRefs(w) ==
    /\ At(w, "addrefs")
    /\ IF refs[ctx[w]] = Absent
       THEN Go(w, "fail") /\ UNCHANGED refs             \* KeyError
       ELSE Go(w, "answered") /\ refs' = [refs EXCEPT ![ctx[w]] = @ + Counted(w)]
    /\ count' = [count EXCEPT ![w] = 0]
    /\ UNCHANGED <<hop, via, ctx, got, bounds, response, latches, keyOf, viaOf, lru, network>>

Failed(w) == latches[KeyOf(w)]

\* The except clause: whoever waits now is answered with the exception.  If the list is
\* gone that raises KeyError once more, and so does get().
Fail(w) ==
    LET k == KeyOf(w)
    IN  /\ At(w, "fail") /\ Go(w, "answered")
        /\ got' = IF latches[k] = {} THEN [got EXCEPT ![w] = Absent]
                  ELSE [u \in Workers |-> IF u \in Failed(w) THEN Absent ELSE got[u]]
        /\ latches' = [latches EXCEPT ![k] = {}]
        /\ UNCHANGED <<hop, via, ctx, count, bounds, response, refs, keyOf, viaOf, lru, network>>

\* The Latch returns; get() goes on with the next of the stack, or returns.
Ends(w) ==
    /\ Go(w, "idle")
    /\ hop' = [hop EXCEPT ![w] = 1]
    /\ via' = [via EXCEPT ![w] = None] /\ ctx' = [ctx EXCEPT ![w] = None]

Continue(w) ==
    /\ pc[w] \in {"wait", "answered"} /\ got[w] # None
    /\ \/ got[w] = Absent /\ Ends(w)
       \/ /\ got[w] # Absent /\ hop[w] < Len(Stack[w])
          /\ hop' = [hop EXCEPT ![w] = @ + 1] /\ via' = [via EXCEPT ![w] = got[w]]
          /\ ctx' = [ctx EXCEPT ![w] = None] /\ Go(w, "find")
       \/ /\ got[w] # Absent /\ hop[w] = Len(Stack[w])
          /\ ctx' = [ctx EXCEPT ![w] = got[w]] /\ Go(w, "hold") /\ UNCHANGED <<hop, via>>
    /\ got' = [got EXCEPT ![w] = None]
    /\ UNCHANGED <<count, bounds, caches, network>>

----------------------------------------------------------------------------
(* Connection.close() and reset().                                         *)

Returned(c) == IF refs[c] \in {0, Absent} THEN refs[c] ELSE refs[c] - 1

\* put()
Put(w) ==
    LET c == ctx[w]
    IN  /\ At(w, "hold") /\ Ends(w)
        /\ refs' = [refs EXCEPT ![c] = Returned(c)]
        /\ UNCHANGED <<got, count, bounds, response, latches, keyOf, viaOf, lru, network>>

\* The contexts recorded for the first n configurations of a stack, each by way of the one
\* before; no such sequence unless there is one for each.
Found(w, n) ==
    LET found(f) == \A i \in 1..n :
            f[i] = response[<<Stack[w][i], IF i = 1 THEN None ELSE f[i - 1]>>]
    IN  {f \in [1..n -> Contexts] : n > 0 /\ found(f)}

\* The locked section of reset().  The last of the stack is left out if the task is to
\* become another user, whether or not there is a connection for it.  That reset() then
\* waits for the disconnect event, for 30 seconds, changes nothing here.
Reset(w) ==
    LET last == Len(Stack[w]) - (IF w \in Becomes THEN 1 ELSE 0)
    IN  /\ At(w, "idle")
        /\ losses < MaxLosses /\ losses' = losses + 1
        /\ \E f \in Found(w, last) : Shutdown(f[last], <<>>, viaOf)
        /\ UNCHANGED <<pc, hop, via, ctx, got, count, gets, made, alive, madeVia, fired>>

\* _connect_stack()
LoginContext(w) == IF w \in Becomes THEN via[w] ELSE ctx[w]

----------------------------------------------------------------------------
(* Contexts die, with those connected through them; the broker thread      *)
(* delivers the disconnect event of each.                                  *)

Through[c \in Contexts] == IF madeVia[c] = None THEN {c} ELSE {c} \cup Through[madeVia[c]]

Die(c) ==
    /\ c \in alive
    /\ \/ c \in told /\ UNCHANGED losses
       \/ c \notin told /\ losses < MaxLosses /\ losses' = losses + 1
    /\ alive' = {d \in alive : c \notin Through[d]} /\ told' = told \cap alive'
    /\ UNCHANGED <<pc, request, gets, caches, made, madeVia, fired, early>>

\* _on_context_disconnect()
Fire(c) ==
    /\ c \in (1..made) \ (alive \cup fired)
    /\ fired' = fired \cup {c}
    /\ Forget(c, viaOf, lru)
    /\ UNCHANGED <<pc, request, bounds, made, alive, madeVia, told>>

----------------------------------------------------------------------------
ServiceStep(w) ==
    \/ WaitOrStart(w) \/ Connect(w) \/ UpdateLru(w) \/ InitChild(w)
    \/ Record(w) \/ Refer(w) \/ Produce(w) \/ Store(w) \/ AddRefs(w) \/ Fail(w) \/ Continue(w)

Next ==
    \/ \E w \in Workers :
          ServiceStep(w) \/ Put(w) \/ Reset(w)
    \/ \E c \in Contexts : Die(c) \/ Fire(c)

Spec == Init /\ [][Next]_vars

----------------------------------------------------------------------------
(* Properties.                                                             *)

\* Whoever is on a list has no answer yet, and exactly one of those on it is under way
\* to answer them all.
OneAnswers ==
    \A k \in Keys : latches[k] # {} =>
        /\ \A w \in latches[k] : got[w] = None
        /\ \E w \in latches[k] : \A u \in latches[k] : pc[u] \in Answering <=> u = w

\* A request that waits is taken off its list without an answer only when a context
\* recorded under its key is forgotten.
Waiting(w) == pc[w] = "wait" /\ got[w] = None
Listed(w) == w \in latches[KeyOf(w)]
LeavesUnanswered(w) == Waiting(w) /\ Listed(w) /\ Waiting(w)' /\ ~Listed(w)'
LeftOnlyByForgetting ==
    \A w \in Workers : LeavesUnanswered(w) =>
        \E c \in Contexts : keyOf[c] = KeyOf(w) /\ keyOf'[c] = <<>>

\* "Reply to every waiting request matching a configuration key", short of those: after
\* and in every step.
OneConnectsForAll == [][OneAnswers' /\ LeftOnlyByForgetting]_vars

\* What get() hands out is not known to be gone: the disconnect event removes every
\* record of a context.  One forgotten while _wait_or_start(), which does not hold the
\* lock, makes or records one of its key is told apart by "early", and recorded again.
NoStaleContext ==
    \A k \in Keys : response[k] \in fired => response[k] \in early

\* A worker that was handed a context and has not put it back.
Uses(w, c) ==
    \/ got[w] = c
    \/ via[w] = c /\ pc[w] # "idle"
    \/ ctx[w] = c /\ pc[w] = "hold"

\* An interpreter is shut down to make room only if no worker uses it, or its users
\* were answered and are about to be counted.
Uncounted(c) == \E w \in Workers : pc[w] \in {"store", "addrefs"} /\ ctx[w] = c
RecycledIsUnused ==
    [][\A w \in Workers : UpdateLru(w) =>
         \A c \in told' \ told : Uncounted(c) \/ \A u \in Workers : ~Uses(u, c)]_vars

\* The same of every interpreter: put() says a context is "eligable for recycling once
\* its reference count reaches zero".  Those answered are counted only afterwards.
NoneInUseIsRecycled ==
    [][\A w \in Workers : UpdateLru(w) =>
         \A c \in told' \ told : \A u \in Workers : ~Uses(u, c)]_vars

\* "the single Context instance corresponding to a connection configuration": of the
\* contexts that live and are not to be shut down, one is recorded under a key.  Between
\* the answer to those that wait and the record of the response there is neither a list
\* nor a response, and whoever asks connects once more.
SingleContext ==
    \A c, d \in alive \ told : keyOf[c] = keyOf[d] /\ keyOf[c] # <<>> => c = d

\* _produce_response() is to "reply to every waiting request", which needs it listed; to
\* forget a context takes those off the list that wait for another of its key.
WaitersAreListed == \A w \in Workers : Waiting(w) => Listed(w)

\* "Context for the login account on the target.  This is always the login account,
\* even when become=True": it is the one before that of the become method, if there
\* is one.
LoginIsLogin ==
    \A w \in Workers : pc[w] = "hold" =>
        LoginContext(w) = IF Last(Stack[w]) \in Become THEN via[w] ELSE ctx[w]
=============================================================================
