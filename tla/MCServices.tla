---------------------------- MODULE MCServices -----------------------------
(* Small instances of Services for TLC.                                    *)
EXTENDS Services, TLC

CONSTANTS s1, s2, r1, r2, r3

\* Two requests for a service with a serialized invoker, one for a plain one.
MCServiceOf == r1 :> s1 @@ r2 :> s1 @@ r3 :> s2
=============================================================================
