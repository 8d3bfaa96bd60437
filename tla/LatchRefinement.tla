-------------------------- MODULE LatchRefinement --------------------------
(***************************************************************************)
(* Latch implements HandOff until a wait is abandoned: the first _waking   *)
(* elements of _queue are promised, in order, to the first _waking         *)
(* sleepers; the elements after them are spare; the sleepers after them    *)
(* stand in line.                                                          *)
(***************************************************************************)
EXTENDS Latch

PromiseOf(t) ==
    LET l == entry[t].cookie[1]
        i == Position(entry[t], sleeping[l])
    IN  IF pc[t] \notin {"polling", "polled"} \/ i > waking[l] THEN <<>>
        ELSE <<[latch |-> l, value |-> IF closed[l] THEN "LatchError" ELSE queue[l][i]]>>

OpenLatches == {l \in Latches : ~closed[l]}

SpareOf(l) == IF closed[l] THEN <<>> ELSE SubSeq(queue[l], waking[l] + 1, Len(queue[l]))

LineOf(l) ==
    [i \in 1..(Len(sleeping[l]) - waking[l]) |-> sleeping[l][waking[l] + i].cookie[2]]

Spares == [l \in Latches |-> SpareOf(l)]
Lines == [l \in Latches |-> LineOf(l)]
Promises == [t \in Threads |-> PromiseOf(t)]

HO == INSTANCE HandOff WITH
    open <- OpenLatches, spare <- Spares, line <- Lines, promise <- Promises

\* Latch implements the first-come first-served hand-off: every step, up to the
\* one that abandons a promised item, is a step of HandOff or changes nothing
\* a caller can observe.
ImplementsHandOff ==
    HO!Init /\ [][abandoned' \/ HO!Next \/ UNCHANGED HO!vars]_vars
=============================================================================
