------------------------------- MODULE SerialLock -------------------------------
(***************************************************************************)
(* What createSerialLockMap promises (lib/orch-isolation.mjs: "FIFO serial   *)
(* lock factory: same key serializes; different keys interleave"): a request *)
(* takes a ticket of its key, holds the lock of the key when every lower     *)
(* ticket is through, and gives it up.                                       *)
(***************************************************************************)
EXTENDS Naturals

CONSTANTS
  Requests,   (* the requests of a run                                      *)
  Keys,       (* client keys                                                *)
  keyOf       (* the client key of a request                                *)

VARIABLES
  phase,      (* where a request stands                                     *)
  ticket,     (* its place among the requests of its key, 0 before arrival  *)
  tickets     (* tickets handed out, by key                                 *)

lockVars == <<phase, ticket, tickets>>

LockInit ==
  /\ phase = [r \in Requests |-> "new"]
  /\ ticket = [r \in Requests |-> 0]
  /\ tickets = [k \in Keys |-> 0]

TakeTicket(r) ==
  /\ phase[r] = "new"
  /\ phase' = [phase EXCEPT ![r] = "waiting"]
  /\ tickets' = [tickets EXCEPT ![keyOf[r]] = @ + 1]
  /\ ticket' = [ticket EXCEPT ![r] = tickets'[keyOf[r]]]

Acquire(r) ==
  /\ phase[r] = "waiting"
  /\ \A q \in Requests :
       keyOf[q] = keyOf[r] /\ ticket[q] \in 1..(ticket[r] - 1) => phase[q] = "done"
  /\ phase' = [phase EXCEPT ![r] = "holding"]
  /\ UNCHANGED <<ticket, tickets>>

Release(r) ==
  /\ phase[r] = "holding"
  /\ phase' = [phase EXCEPT ![r] = "done"]
  /\ UNCHANGED <<ticket, tickets>>

LockNext == \E r \in Requests : TakeTicket(r) \/ Acquire(r) \/ Release(r)

LockSpec == LockInit /\ [][LockNext]_lockVars
=============================================================================
