-------------------------------- MODULE OrchLock --------------------------------
(***************************************************************************)
(* The per-client orchestration lock of callTool: createSerialLockMap chains *)
(* a promise per key, withAbortableLock gives the lock up as soon as the     *)
(* client disconnects, whether or not the body of the request has ended.     *)
(*                                                                         *)
(* The promise a request leaves in `tails` is named by the request; it       *)
(* settles after its predecessor's, once the request has opened its gate.    *)
(***************************************************************************)
EXTENDS Naturals

CONSTANTS
  Requests, Keys, keyOf,
  NoRequest,   (* the settled promise a key starts with                     *)
  Abortable,   (* requests that carry an AbortSignal (HTTP, not stdio)      *)
  Hanging      (* requests whose body never settles                         *)

ASSUME OrchAssumption ==
  /\ keyOf \in [Requests -> Keys]
  /\ NoRequest \notin Requests
  /\ Abortable \subseteq Requests
  /\ Hanging \subseteq Requests

VARIABLES
  phase,      (* where withSerialLock stands for a request                  *)
  tail,       (* tails: the promise the next request of a key waits for     *)
  prev,       (* the promise a request waits for                            *)
  gate,       (* requests whose gate is open (unlock was called)            *)
  settled,    (* requests whose tail promise has settled                    *)
  body,       (* the request's own work, callToolUnlocked                   *)
  aborted,    (* requests whose client is gone                              *)
  ticket,     (* history: the order of arrival within a key                 *)
  tickets     (* history: arrivals of a key                                 *)

orchVars == <<phase, tail, prev, gate, settled, body, aborted, ticket, tickets>>

OrchInit ==
  /\ phase = [r \in Requests |-> "new"]
  /\ tail = [k \in Keys |-> NoRequest]
  /\ prev = [r \in Requests |-> NoRequest]
  /\ gate = {}
  /\ settled = {NoRequest}
  /\ body = [r \in Requests |-> "idle"]
  /\ aborted = {}
  /\ ticket = [r \in Requests |-> 0]
  /\ tickets = [k \in Keys |-> 0]

-----------------------------------------------------------------------------

(* A bug withSerialLock could have: it forgets to leave its promise behind. *)
ArriveUnchained(r) ==
  LET k == keyOf[r]
  IN  /\ phase[r] = "new"
      /\ phase' = [phase EXCEPT ![r] = "waiting"]
      /\ prev' = [prev EXCEPT ![r] = tail[k]]
      /\ tickets' = [tickets EXCEPT ![k] = @ + 1]
      /\ ticket' = [ticket EXCEPT ![r] = tickets'[k]]
      /\ UNCHANGED <<tail, gate, settled, body, aborted>>

(* withSerialLock, up to its first await. *)
Arrive(r) ==
  LET k == keyOf[r]
  IN  /\ phase[r] = "new"
      /\ phase' = [phase EXCEPT ![r] = "waiting"]
      /\ prev' = [prev EXCEPT ![r] = tail[k]]
      /\ tail' = [tail EXCEPT ![k] = r]
      /\ tickets' = [tickets EXCEPT ![k] = @ + 1]
      /\ ticket' = [ticket EXCEPT ![r] = tickets'[k]]
      /\ UNCHANGED <<gate, settled, body, aborted>>

(* A bug the wait could have: nobody is waited for. *)
NoWait(r) == TRUE

(* await prev *)
MayProceed(r) == prev[r] \in settled

(* The lock is this request's; runWithAbortSignal starts the body unless the
   client left while the request was queued. *)
Enter(r) ==
  /\ phase[r] = "waiting"
  /\ MayProceed(r)
  /\ phase' = [phase EXCEPT ![r] = "holding"]
  /\ body' = [body EXCEPT ![r] = IF r \in aborted THEN "over" ELSE "running"]
  /\ UNCHANGED <<tail, prev, gate, settled, aborted, ticket, tickets>>

(* A bug the unlock could have: it opens the gate of the predecessor. *)
UnlockPrev(r) ==
  /\ phase[r] = "holding"
  /\ gate' = gate \cup {prev[r]}
  /\ phase' = [phase EXCEPT ![r] = "done"]
  /\ UNCHANGED <<tail, prev, settled, aborted, ticket, tickets>>

(* finally { unlock() } *)
Unlock(r) ==
  /\ phase[r] = "holding"
  /\ gate' = gate \cup {r}
  /\ phase' = [phase EXCEPT ![r] = "done"]
  /\ UNCHANGED <<tail, prev, settled, aborted, ticket, tickets>>

(* The body returns or throws while its request still holds the lock. *)
BodyEnds(r) ==
  /\ r \notin Hanging
  /\ body[r] = "running"
  /\ body' = [body EXCEPT ![r] = "over"]
  /\ Unlock(r)

(* A bug the abort could have: the lock is kept until the body has ended. *)
YieldAfterBody(r) ==
  /\ r \in aborted /\ body[r] = "over"
  /\ Unlock(r)
  /\ UNCHANGED body

(* Promise.race was won by the abort: the lock is given up, the body goes on. *)
Yield(r) ==
  /\ r \in aborted
  /\ Unlock(r)
  /\ UNCHANGED body

(* A body left behind by Yield comes to its end; nobody is waiting for it. *)
DetachedBodyEnds(r) ==
  /\ r \notin Hanging
  /\ body[r] = "running" /\ phase[r] = "done"
  /\ body' = [body EXCEPT ![r] = "over"]
  /\ UNCHANGED <<phase, tail, prev, gate, settled, aborted, ticket, tickets>>

(* bindHttpRequestAbort: the connection closes before the response is written. *)
Disconnect(r) ==
  /\ r \in Abortable \ aborted
  /\ phase[r] \in {"waiting", "holding"}
  /\ aborted' = aborted \cup {r}
  /\ UNCHANGED <<phase, tail, prev, gate, settled, body, ticket, tickets>>

(* prev.then(() => gate, () => gate) settles. *)
TailSettles(r) ==
  /\ r \in gate \ settled
  /\ prev[r] \in settled
  /\ settled' = settled \cup {r}
  /\ UNCHANGED <<phase, tail, prev, gate, body, aborted, ticket, tickets>>

OrchNext == \E r \in Requests :
  \/ Arrive(r) \/ Enter(r) \/ BodyEnds(r) \/ Yield(r) \/ DetachedBodyEnds(r)
  \/ Disconnect(r) \/ TailSettles(r)

OrchSpec == OrchInit /\ [][OrchNext]_orchVars

(* The event loop runs every ready continuation; a body ends because each of
   its CLI calls has a timeout; the client of a body that hangs gives up. *)
OrchFairness == \A r \in Requests :
  /\ WF_orchVars(Enter(r))
  /\ WF_orchVars(BodyEnds(r))
  /\ WF_orchVars(Yield(r))
  /\ WF_orchVars(TailSettles(r))
  /\ r \in Hanging => WF_orchVars(Disconnect(r))

OrchFairSpec == OrchSpec /\ OrchFairness

-----------------------------------------------------------------------------

Phases == {"new", "waiting", "holding", "done"}

(* Every variable of the lock stays in its type. *)
OrchTypeOK ==
  /\ phase \in [Requests -> Phases]
  /\ tail \in [Keys -> Requests \cup {NoRequest}]
  /\ prev \in [Requests -> Requests \cup {NoRequest}]
  /\ gate \subseteq Requests
  /\ settled \subseteq Requests \cup {NoRequest}
  /\ body \in [Requests -> {"idle", "running", "over"}]
  /\ aborted \subseteq Abortable
  /\ ticket \in [Requests -> Nat]
  /\ tickets \in [Keys -> Nat]

SameKey(q, r) == q # r /\ keyOf[q] = keyOf[r]

(* "Serialize orch mutations per client": the bodies of two requests of one
   client never run together, unless the client has dropped one of them. *)
LiveBodiesSerialize ==
  \A q, r \in Requests :
    SameKey(q, r) /\ body[q] = "running" /\ body[r] = "running" =>
      (q \in aborted /\ phase[q] = "done") \/ (r \in aborted /\ phase[r] = "done")

(* createSerialLockMap is a FIFO lock per key: phases and tickets alone behave
   as the abstract lock allows, aborts included. *)
Lock == INSTANCE SerialLock WITH
  Requests <- Requests, Keys <- Keys, keyOf <- keyOf,
  phase <- phase, ticket <- ticket, tickets <- tickets
IsSerialLock == Lock!LockSpec

(* A queued request gets its turn and comes to an end, behind bodies that hang
   as long as the clients of those can hang up. *)
QueuedIsServed ==
  \A r \in Requests :
    (\A q \in Requests : SameKey(q, r) /\ q \in Hanging => q \in Abortable) =>
      (phase[r] = "waiting" ~> phase[r] = "done" \/ r \in Hanging \ Abortable)
=============================================================================
