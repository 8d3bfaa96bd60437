------------------------------ MODULE MCLatch ------------------------------
(* Small instances of Latch for TLC.                                       *)
EXTENDS LatchRefinement
=============================================================================
