----------------------------- MODULE MCBridgeAccess -----------------------------
(* Enough session ids for the one a client holds, that of its call and a new one. *)
EXTENDS BridgeAccess

CONSTANTS t1, t2, t3, t4, s1, s2, s3
=============================================================================
