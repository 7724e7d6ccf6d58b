----------------------------- MODULE MCSession -----------------------------
EXTENDS Session, TLC

CONSTANTS a, b, p

\* a may lose and find a session again.
TwiceForA == [c \in Clients |-> IF c = a THEN 2 ELSE 1]
=============================================================================
