----------------------------- MODULE MCStoreSigner -----------------------------
(* Two stores and two payloads: enough for an overtaken, a repeated and a
   recovered number in one store, and for an envelope of one store that is read
   back as the other's.  The signer treats all stores and all payloads alike. *)
EXTENDS StoreSigner, TLC

CONSTANTS pins, ownership, p1, p2
MCStores == {pins, ownership}
MCPayloads == {p1, p2}
MCSymmetry == Permutations(MCStores) \cup Permutations(MCPayloads)

=============================================================================
