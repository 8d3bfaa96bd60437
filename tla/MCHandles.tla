----------------------------- MODULE MCHandles -----------------------------
(* Small instances of Handles for TLC.                                     *)
EXTENDS Handles

CONSTANT c1

\* All threads use one context.
MCOwnerOf == [h \in Handles |-> c1]
=============================================================================
