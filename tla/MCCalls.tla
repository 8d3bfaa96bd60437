------------------------------ MODULE MCCalls ------------------------------
(* Small instances of Calls for TLC.                                       *)
EXTENDS Calls, TLC

CONSTANTS a, b, p, s1, s2

C(does, by) == [does |-> does, by |-> by]

\* A pipelined and a plain chain of one context, a pipelined one of another.
MCSourceOf == a :> s1 @@ p :> s1 @@ b :> s2
MCScript ==
    a :> << C("raise", "no_reply"), C("return", "call"), C("reset", "no_reply"), C("return", "call") >>
    @@ b :> << C("unparsable", "async"), C("raise", "call"), C("reset", "no_reply") >>
    @@ p :> << C("raise", "no_reply"), C("return", "call") >>
=============================================================================
