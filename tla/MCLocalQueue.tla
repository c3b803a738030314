---------------------------- MODULE MCLocalQueue ----------------------------
(* A small instance of LocalQueue: more tasks than permits.                *)
EXTENDS LocalQueue

CONSTANTS t1, t2, t3
=============================================================================
