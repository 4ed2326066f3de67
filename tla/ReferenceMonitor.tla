---------------------------- MODULE ReferenceMonitor ----------------------------
(***************************************************************************)
(* What the gate of action=cli promises: a client is given objects, and a    *)
(* command of its runs only on objects it had been given when the command    *)
(* runs, with its own tab as the sender; else the request is refused.        *)
(***************************************************************************)
CONSTANTS Clients, Objects

VARIABLES
  may,      (* the objects a client has been given                          *)
  stage,    (* where the request of a client stands                         *)
  touched   (* the objects the command of its request was run on            *)

monitorVars == <<may, stage, touched>>

MonitorInit ==
  /\ may = [c \in Clients |-> {}]
  /\ stage = [c \in Clients |-> "idle"]
  /\ touched = [c \in Clients |-> {}]

(* A client dispatches a worker, is pinned a tab, or uses a run. *)
Give ==
  /\ may' \in [Clients -> SUBSET Objects]
  /\ \A c \in Clients : may[c] \subseteq may'[c]
  /\ UNCHANGED <<stage, touched>>

Ask(c) ==
  /\ stage[c] = "idle"
  /\ stage' = [stage EXCEPT ![c] = "asked"]
  /\ UNCHANGED <<may, touched>>

Refuse(c) ==
  /\ stage[c] \in {"idle", "asked"}
  /\ stage' = [stage EXCEPT ![c] = "over"]
  /\ UNCHANGED <<may, touched>>

Perform(c) ==
  /\ stage[c] = "asked"
  /\ stage' = [stage EXCEPT ![c] = "over"]
  /\ touched'[c] \subseteq may[c]
  /\ touched' = [touched EXCEPT ![c] = touched'[c]]
  /\ UNCHANGED may

Leave(c) ==
  /\ stage[c] = "over"
  /\ stage' = [stage EXCEPT ![c] = "idle"]
  /\ touched' = [touched EXCEPT ![c] = {}]
  /\ UNCHANGED may

MonitorNext ==
  \/ Give
  \/ \E c \in Clients : Ask(c) \/ Refuse(c) \/ Perform(c) \/ Leave(c)

MonitorSpec == MonitorInit /\ [][MonitorNext]_monitorVars
=============================================================================
