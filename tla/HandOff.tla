------------------------------ MODULE HandOff ------------------------------
(***************************************************************************)
(* What mitogen.core.Latch promises its callers, without sockets, cookies, *)
(* wake counters or the lock: a first-come first-served hand-off.  An item *)
(* is promised to the thread that has waited longest, or kept as a spare   *)
(* for the next caller of get(); a promised item belongs to its thread     *)
(* alone; close() dismisses every waiting thread.  Module LatchRefinement  *)
(* shows that Latch implements it until a wait that was promised an item   *)
(* is cut short.                                                           *)
(***************************************************************************)
EXTENDS Naturals, Sequences, SequencesExt

CONSTANTS Latches, Threads, Items

VARIABLES
    open,       \* the latches nobody has closed
    spare,      \* [Latches -> Seq(Items)]: enqueued, promised to nobody
    line,       \* [Latches -> Seq(Threads)]: waiting, promised nothing
    promise,    \* [Threads -> Seq(Promise)]: at most one promise each
    result      \* <<thread, outcome>> of the last get() that ended

vars == <<open, spare, line, promise, result>>

\* A promise names the latch it was made on and the item, or a dismissal.
Dismissal == "LatchError"
Promise == [latch : Latches, value : Items \cup {Dismissal}]

Init ==
    /\ open = Latches
    /\ spare = [l \in Latches |-> <<>>]
    /\ line = [l \in Latches |-> <<>>]
    /\ promise = [t \in Threads |-> <<>>]
    /\ result = <<>>

InLine(t, l) == \E i \in DOMAIN line[l] : line[l][i] = t

Waiting(t) == promise[t] # <<>> \/ \E l \in Latches : InLine(t, l)

\* put() with someone waiting: the head of the line is promised the item.
HandOver(l, x) ==
    /\ l \in open
    /\ line[l] # <<>>
    /\ promise' = [promise EXCEPT ![Head(line[l])] = <<[latch |-> l, value |-> x]>>]
    /\ line' = [line EXCEPT ![l] = Tail(@)]
    /\ UNCHANGED <<open, spare, result>>

\* put() with nobody to promise the item to.
Store(l, x) ==
    /\ l \in open
    /\ line[l] = <<>>
    /\ spare' = [spare EXCEPT ![l] = Append(@, x)]
    /\ UNCHANGED <<open, line, promise, result>>

\* get() with a spare item: the oldest one.
TakeSpare(t, l) ==
    /\ l \in open
    /\ ~Waiting(t)
    /\ spare[l] # <<>>
    /\ result' = <<t, Head(spare[l])>>
    /\ spare' = [spare EXCEPT ![l] = Tail(@)]
    /\ UNCHANGED <<open, line, promise>>

\* get() with no spare item: join the end of the line.
JoinLine(t, l) ==
    /\ l \in open
    /\ ~Waiting(t)
    /\ spare[l] = <<>>
    /\ line' = [line EXCEPT ![l] = Append(@, t)]
    /\ UNCHANGED <<open, spare, promise, result>>

\* get(block=False) with no spare item, and get() on a closed latch.
TurnedAway(t, l) ==
    /\ ~Waiting(t)
    /\ \/ l \in open /\ spare[l] = <<>> /\ result' = <<t, "TimeoutError">>
       \/ l \notin open /\ result' = <<t, Dismissal>>
    /\ UNCHANGED <<open, spare, line, promise>>

\* A thread that was promised nothing may give up waiting.
GiveUp(t, l) ==
    /\ \E i \in DOMAIN line[l] :
          line[l][i] = t /\ line' = [line EXCEPT ![l] = RemoveAt(@, i)]
    /\ result' = <<t, "TimeoutError">>
    /\ UNCHANGED <<open, spare, promise>>

\* A waiting thread leaves with exactly what it was promised.
Collect(t) ==
    /\ promise[t] # <<>>
    /\ result' = <<t, promise[t][1].value>>
    /\ promise' = [promise EXCEPT ![t] = <<>>]
    /\ UNCHANGED <<open, spare, line>>

\* close(): dismisses every thread waiting on l, even one that was promised an
\* item of l and has not collected it.
Close(l) ==
    /\ l \in open
    /\ open' = open \ {l}
    /\ spare' = [spare EXCEPT ![l] = <<>>]
    /\ line' = [line EXCEPT ![l] = <<>>]
    /\ promise' = [t \in Threads |->
                     IF InLine(t, l) \/ (promise[t] # <<>> /\ promise[t][1].latch = l)
                     THEN <<[latch |-> l, value |-> Dismissal]>> ELSE promise[t]]
    /\ UNCHANGED result

Next ==
    \/ \E l \in Latches, x \in Items : HandOver(l, x) \/ Store(l, x)
    \/ \E t \in Threads, l \in Latches :
          TakeSpare(t, l) \/ JoinLine(t, l) \/ TurnedAway(t, l) \/ GiveUp(t, l)
    \/ \E t \in Threads : Collect(t)
    \/ \E l \in Latches : Close(l)

Spec == Init /\ [][Next]_vars
=============================================================================
