------------------------------- MODULE MCOrchLock -------------------------------
(* Two clients: three requests of one and one of the other, which hangs. *)
EXTENDS OrchLock

CONSTANTS c1, c2, r1, r2, r3, s1, s2

MCRequests == {r1, r2, r3, s1, s2}
MCKeyOf == [r \in MCRequests |-> IF r \in {r1, r2, r3} THEN c1 ELSE c2]
=============================================================================
