----------------------------- MODULE MCRouting -----------------------------
(* A master, two levels of intermediaries and a leaf, and a second branch. *)
EXTENDS Routing

CONSTANTS master, via, target, leaf, sibling, r1, r2

MCParent == [n \in {via, target, leaf, sibling} |->
                CASE n = leaf -> target [] n = target -> via [] OTHER -> master]
MCSrc == [r \in {r1, r2} |-> IF r = r1 THEN sibling ELSE target]
MCDst == [r \in {r1, r2} |-> IF r = r1 THEN leaf ELSE sibling]

-----------------------------------------------------------------------------
I == INSTANCE Ids

Ops == {<<"master", "allocate">>, <<"via", "allocate">>, <<"via", "lost">>, <<"target", "allocate">>}

\* No ID is given out twice, by the master or by any child, whatever the size of blocks.
\* Evaluated in the initial state, from which nothing changes.
UniqueIds == Init => \A b \in 1..3 : \A o \in [1..6 -> Ops] : I!UniqueIds([block |-> b, ops |-> o])
=============================================================================
