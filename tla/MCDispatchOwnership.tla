-------------------------- MODULE MCDispatchOwnership --------------------------
(* One store; the clients and dispatches are model values of the cfg. *)
EXTENDS DispatchOwnership

CONSTANTS d1, d2, d3

MCStores == {"ownership"}
MCDispatches == {d1, d2}
MCPayloads == [MCDispatches -> Clients \cup {NoClient}]
MCThreeDispatches == {d1, d2, d3}
MCThreePayloads == [MCThreeDispatches -> Clients \cup {NoClient}]
=============================================================================
