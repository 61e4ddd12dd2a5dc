---------------------------- MODULE MCLocalSpine ----------------------------
(* Model values for connections, background tasks and entities.            *)
EXTENDS LocalSpine

CONSTANTS c1, c2, t1, e1
=============================================================================
