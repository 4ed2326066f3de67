---------------------------- MODULE MCWorkerVerdicts ----------------------------
(* Two workers of the client and one of another on the same run. *)
EXTENDS WorkerVerdicts

CONSTANTS d1, d2, d3

Message(type, d, says, verdict) ==
  [type |-> type, about |-> d, says |-> says, verdict |-> verdict]

Done      == Message("worker_done", d1, "field", "worker_done")
FakeDone  == Message("worker_done", d2, "string", "fake_worker_done")
OtherDone == Message("worker_done", d3, "string", "worker_done")
Alarm     == Message("escalation", d2, "nowhere", "worker_done")

MCLetters == {Done, FakeDone, OtherDone, Alarm}
=============================================================================
