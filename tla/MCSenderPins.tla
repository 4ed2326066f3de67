------------------------------ MODULE MCSenderPins ------------------------------
(* Two clients with a resolver each.  The tabs are interchangeable, and so
   are the two clients if their resolvers are exchanged with them. *)
EXTENDS SenderPins, TLC

CONSTANTS c1, c2, t1, t2, a1, b1

MCStores == {"pins"}
TwoClients == {c1, c2}
TwoTabs == {t1, t2}
MCPayloads == [Clients -> Handles \cup {NoTab}]
MCClientOf == [p \in Resolvers |-> IF p = b1 THEN c2 ELSE c1]

Same == c1 :> c1 @@ c2 :> c2 @@ a1 :> a1 @@ b1 :> b1
Swap == c1 :> c2 @@ c2 :> c1 @@ a1 :> b1 @@ b1 :> a1
MCSymmetry == {t @@ k : t \in Permutations(Handles), k \in {Same, Swap}}
================================================================================
