----------------------------- MODULE MCAwaitMailbox -----------------------------
(* Client a keeps awaiting its dispatches; client v visits the same run with one. *)
EXTENDS AwaitMailbox, TLC

CONSTANTS a, v, d1, d2

MCOwners == d1 :> a @@ d2 :> v
MCReports == {<<"question", d1>>, <<"worker_done", d1>>, <<"worker_done", d2>>}

MCSoleOwner == d1 :> a @@ d2 :> a
=============================================================================
