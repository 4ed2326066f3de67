------------------------------ MODULE ReportLedger ------------------------------
(***************************************************************************)
(* What await promises the client that dispatched a worker: a report is told  *)
(* at least once.  It arrives once and stays in the inbox until its owner was  *)
(* told it or missed it, or somebody else has taken it.  An owner misses a     *)
(* report, is told it as another's, only while its dispatch is not listed.   *)
(* What has gone does not come back.                                        *)
(***************************************************************************)
CONSTANTS Dispatches, Reports   (* the second component of a report is its dispatch *)

VARIABLES
  inbox,       (* the reports to be told, or told and not yet settled          *)
  arrived,     (* what the workers have reported                             *)
  told,        (* what the owners were told                                  *)
  missed,      (* what the owners were told as another's                      *)
  taken,       (* what was settled by a client it is not for                  *)
  listed       (* the dispatches the bridge has in its rows                   *)

ledgerVars == <<inbox, arrived, told, missed, taken, listed>>

LedgerInit ==
  /\ inbox = {} /\ arrived = {} /\ told = {} /\ missed = {} /\ taken = {} /\ listed = {}

Arrive(m) ==
  /\ m \notin arrived
  /\ inbox' = inbox \cup {m} /\ arrived' = arrived \cup {m}
  /\ UNCHANGED <<told, missed, taken, listed>>

Tell(batch, strays) ==
  /\ batch \subseteq arrived /\ strays \subseteq arrived
  /\ \A m \in strays : m[2] \notin listed
  /\ told' = told \cup batch /\ missed' = missed \cup strays
  /\ UNCHANGED <<inbox, arrived, taken, listed>>

(* A client settles a batch; what of it is not the client's own counts as taken. *)
Settle(batch, foreign) ==
  /\ batch \subseteq inbox /\ foreign \subseteq batch
  /\ batch \ foreign \subseteq told \cup missed
  /\ inbox' = inbox \ batch /\ taken' = taken \cup foreign
  /\ UNCHANGED <<arrived, told, missed, listed>>

(* A dispatch enters the rows when it is bound, be it late; a restart may forget it. *)
Relist ==
  /\ listed' \subseteq Dispatches
  /\ UNCHANGED <<inbox, arrived, told, missed, taken>>

LedgerNext ==
  \/ \E m \in Reports : Arrive(m)
  \/ \E batch, strays \in SUBSET Reports : Tell(batch, strays)
  \/ \E batch \in SUBSET Reports : \E foreign \in SUBSET batch : Settle(batch, foreign)
  \/ Relist

LedgerSpec == LedgerInit /\ [][LedgerNext]_ledgerVars
=============================================================================
