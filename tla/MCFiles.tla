------------------------------ MODULE MCFiles ------------------------------
EXTENDS Files

CONSTANTS ssh, sudo, s1, ta, tb, tc

MCStreamOf == [x \in Contexts |-> s1]
MCContextOf == [t \in Transfers |-> IF t = tb THEN sudo ELSE ssh]
MCSizeOf == [t \in Transfers |-> IF t = tb THEN 3 ELSE 2]
=============================================================================
