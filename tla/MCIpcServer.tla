---------------------------- MODULE MCIpcServer -----------------------------
EXTENDS IpcServer, TLC

CONSTANTS a, b, d

TwoForA == [k \in Conns |-> IF k = a THEN 2 ELSE 1]
OneEach == [k \in Conns |-> 1]
=============================================================================
