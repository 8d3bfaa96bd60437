--------------------------------- MODULE Ids ---------------------------------
(***************************************************************************)
(* Context IDs: master.IdAllocator, which counts them and hands blocks of  *)
(* them to the contexts below, and parent.ChildIdAllocator, which takes    *)
(* IDs from its block and asks for another when that is used up.  Each     *)
(* holds a lock all along, ChildIdAllocator while it waits for the master  *)
(* too: a sequence of them is all that threads and processes can do.       *)
(* Everything is a function of a world w of which                          *)
(*   w.block  is BLOCK_SIZE,                                               *)
(*   w.ops    are <<node, op>>s: node has an ID allocated, or, if op is    *)
(*            "lost", that would have but the reply to ALLOCATE_ID is lost.*)
(***************************************************************************)
EXTENDS Naturals, Sequences, SequencesExt, TLC

Master == "master"

\* next_id, what is left of each child's block, and the IDs allocated so far.
Begun(w) == [next |-> 1, it |-> [n \in {op[1] : op \in Range(w.ops)} |-> <<>>], given |-> <<>>]

\* IdAllocator.allocate()
Allocate(s) == [s EXCEPT !.next = @ + 1, !.given = Append(@, s.next)]

\* allocate_block(): the IDs from the first up to, not including, the second.
AllocateBlock(s, w) == <<s.next, s.next + w.block>>

\* on_allocate_id()
OnAllocateId(s, w) == [s EXCEPT !.next = AllocateBlock(s, w)[2]]

\* Mutant: the end of a block is "the last usable ID".
BlockWithEnd(start, end) == [i \in 1..end - start + 1 |-> start + i - 1]

\* iter(range(start, end))
Block(start, end) == [i \in 1..end - start |-> start + i - 1]

\* ChildIdAllocator.allocate(): one turn, with the lock.  Having got a block, it lets go of
\* the lock and tries again.
ChildAllocate(s, w, n, op) ==
    IF s.it[n] # <<>> THEN [s EXCEPT !.it[n] = Tail(@), !.given = Append(@, Head(s.it[n]))]
    ELSE LET asked == OnAllocateId(s, w)
             block == AllocateBlock(s, w)
         IN  IF op = "lost" THEN asked ELSE [asked EXCEPT !.it[n] = Block(block[1], block[2])]

After(w) ==
    FoldLeft(LAMBDA s, o : IF o[1] = Master THEN Allocate(s) ELSE ChildAllocate(s, w, o[1], o[2]),
             Begun(w), w.ops)

\* No ID is given to two contexts, nor is that of the master, 0, whichever node they
\* were allocated by, and whatever was lost.
UniqueIds(w) ==
    /\ IsInjective(After(w).given)
    /\ \A i \in DOMAIN After(w).given : After(w).given[i] > 0
=============================================================================
