--------------------------- MODULE DispatchOwnership ---------------------------
(***************************************************************************)
(* Who owns a dispatch (server.mjs, lib/audit.mjs): the registry binds the   *)
(* owner once the agent is placed, signs a snapshot of all bindings with the *)
(* store signer and writes it to dispatch-ownership.json; a restarted bridge *)
(* hydrates the registry from that file, if the signer finds it fresh.       *)
(*                                                                         *)
(* Dispatch ids come from the runtime and are never reused.  A client has    *)
(* one dispatch in flight (module OrchLock); a dispatch left behind by an    *)
(* aborted request interleaves with the client's next one as those of two    *)
(* clients do.  The signer and its late answers interleave with all of them. *)
(***************************************************************************)
EXTENDS StoreSigner

CONSTANTS
  Clients, Dispatches,
  NoClient,        (* an unowned dispatch                                    *)
  MaxCrashes       (* bound on the crashes of the bridge                     *)

Owners == Clients \cup {NoClient}

(* What listOwnershipBindings returns: the owned rows of the registry. *)
Snapshot == [Dispatches -> Owners]
Unbound  == [d \in Dispatches |-> NoClient]

ASSUME OwnershipAssumption ==
  /\ NoClient \notin Clients
  /\ "ownership" \in Stores
  /\ Payloads = Snapshot
  /\ MaxCrashes \in Nat

VARIABLES
  up,         (* the bridge accepts traffic                                 *)
  owner,      (* dispatchRegistry: clientKey of every row                   *)
  pc,         (* where the dispatch of a client stands                      *)
  doing,      (* the dispatch it is about                                   *)
  conn,       (* the snapshot sent to be signed, then the signed envelope   *)
  abandoned,  (* sign requests whose caller is gone, still with the daemon  *)
  file,       (* dispatch-ownership.json                                    *)
  crashes,    (* crashes of the bridge so far                               *)
  creator,    (* history: the client whose request made the dispatch        *)
  durable,    (* history: dispatches whose binding was written, none of     *)
              (* them lost to a rejected file yet                           *)
  mishaps     (* history: "overlap", a snapshot was taken with another under *)
              (* way; "lapse", a persist or the load was cut short          *)

bridgeVars == <<up, owner, pc, doing, conn, abandoned, file, crashes, creator,
                durable, mishaps>>
vars == <<signerVars, bridgeVars>>

Missing   == [kind |-> "missing"]
Malformed == [kind |-> "malformed"]
Signed(e) == [kind |-> "signed", env |-> e]
None      == [kind |-> "none"]
Request(p) == [kind |-> "request", payload |-> p]

Store == "ownership"
Busy(c) == pc[c] \in {"signing", "writing"}

Init ==
  /\ SignerInit
  /\ up = TRUE
  /\ owner = Unbound
  /\ pc = [c \in Clients |-> "idle"]
  /\ doing = [c \in Clients |-> {}]
  /\ conn = [c \in Clients |-> None]
  /\ abandoned = {}
  /\ file = Missing
  /\ crashes = 0
  /\ creator = Unbound
  /\ durable = {}
  /\ mishaps = {}

-----------------------------------------------------------------------------
(* The dispatch of a client. *)

Finish(c) ==
  /\ pc' = [pc EXCEPT ![c] = "idle"]
  /\ doing' = [doing EXCEPT ![c] = {}]
  /\ conn' = [conn EXCEPT ![c] = None]

(* orchestration dispatch: the runtime hands out a new dispatch id. *)
RuntimeDispatch(c, d) ==
  /\ up /\ pc[c] = "idle"
  /\ creator[d] = NoClient
  /\ creator' = [creator EXCEPT ![d] = c]
  /\ pc' = [pc EXCEPT ![c] = "placing"]
  /\ doing' = [doing EXCEPT ![c] = {d}]
  /\ UNCHANGED <<signerVars, up, owner, conn, abandoned, file, crashes, durable, mishaps>>

(* The isolated agent never came up: dispatch returns before any binding. *)
PlacementFails(c) ==
  /\ up /\ pc[c] = "placing"
  /\ Finish(c)
  /\ UNCHANGED <<signerVars, up, owner, abandoned, file, crashes, creator, durable, mishaps>>

(* Bugs bindOwner could have: it takes every row without an owner, it starts a
   registry of its own, or it keeps a list of owners. *)
BindEveryRow(rows, d, c) ==
  [x \in DOMAIN rows |-> IF rows[x] = NoClient THEN c ELSE rows[x]]
BindSoleRow(rows, d, c) == [x \in DOMAIN rows |-> IF x = d THEN c ELSE NoClient]
BindOwnerList(rows, d, c) == [rows EXCEPT ![d] = {c}]

(* bindOwner: a row of another client is refused and left alone. *)
BindOwner(rows, d, c) ==
  IF rows[d] \in {NoClient, c} THEN [rows EXCEPT ![d] = c] ELSE rows

(* bindOwnedDispatch: bind, and snapshot the registry before the first await. *)
Bind(c) ==
  /\ up /\ pc[c] = "placing"
  /\ \E d \in doing[c] : owner' = BindOwner(owner, d, c)
  /\ conn' = [conn EXCEPT ![c] = Request(owner')]
  /\ pc' = [pc EXCEPT ![c] = "signing"]
  /\ mishaps' = mishaps \cup IF \E k \in Clients : Busy(k) THEN {"overlap"} ELSE {}
  /\ UNCHANGED <<signerVars, up, doing, abandoned, file, crashes, creator, durable>>

(* The daemon answers; the bridge has yet to see the answer. *)
SignerSigns(c) ==
  /\ up /\ pc[c] = "signing"
  /\ HandleSign(Store, conn[c].payload)
  /\ conn' = [conn EXCEPT ![c] = Signed(reply'.env)]
  /\ pc' = [pc EXCEPT ![c] = "writing"]
  /\ UNCHANGED <<up, owner, doing, abandoned, file, crashes, creator, durable, mishaps>>

(* The signer does not answer in time, with or without the request in its
   hands: persistOwnershipBindings warns and dispatch returns. *)
SignTimesOut(c) ==
  /\ up /\ pc[c] = "signing"
  /\ \/ abandoned' = abandoned \cup {conn[c].payload}
     \/ UNCHANGED abandoned
  /\ Finish(c)
  /\ mishaps' = mishaps \cup {"lapse"}
  /\ UNCHANGED <<signerVars, up, owner, file, crashes, creator, durable>>

(* The daemon gets to a request whose caller is gone. *)
SignerSignsLate(p) ==
  /\ p \in abandoned
  /\ HandleSign(Store, p)
  /\ abandoned' = abandoned \ {p}
  /\ UNCHANGED <<up, owner, pc, doing, conn, file, crashes, creator, durable, mishaps>>

(* writeFilePreservingOwner: truncate and write in place. *)
WriteFile(c) ==
  /\ up /\ pc[c] = "writing"
  /\ file' = conn[c]
  /\ durable' = durable \cup doing[c]
  /\ Finish(c)
  /\ UNCHANGED <<signerVars, up, owner, abandoned, crashes, creator, mishaps>>

(* The write throws, before or after the file was truncated: the binding stays
   in memory and the caller sees the dispatch succeed. *)
WriteFails(c) ==
  /\ up /\ pc[c] = "writing"
  /\ file' \in {file, Malformed}
  /\ Finish(c)
  /\ mishaps' = mishaps \cup {"lapse"}
  /\ UNCHANGED <<signerVars, up, owner, abandoned, crashes, creator, durable>>

-----------------------------------------------------------------------------
(* The bridge dies and comes back. *)

(* Requests under way may still reach the daemon; a write under way may have
   truncated the file. *)
BridgeCrash ==
  /\ up
  /\ crashes < MaxCrashes
  /\ crashes' = crashes + 1
  /\ up' = FALSE
  /\ owner' = Unbound
  /\ \E late \in SUBSET {conn[c].payload : c \in {k \in Clients : pc[k] = "signing"}} :
       abandoned' = abandoned \cup late
  /\ \/ UNCHANGED file
     \/ (\E c \in Clients : pc[c] = "writing") /\ file' = Malformed
  /\ pc' = [c \in Clients |-> "idle"]
  /\ doing' = [c \in Clients |-> {}]
  /\ conn' = [c \in Clients |-> None]
  /\ mishaps' = mishaps \cup IF \E c \in Clients : Busy(c) THEN {"lapse"} ELSE {}
  /\ UNCHANGED <<signerVars, creator, durable>>

(* loadPersistedOwnership, awaited before traffic is accepted. *)
Hydrate(rows) ==
  /\ up' = TRUE
  /\ owner' = rows
  /\ UNCHANGED <<pc, doing, conn, abandoned, file, crashes, creator>>

StartVerified ==
  /\ ~up
  /\ file.kind = "signed"
  /\ HandleVerify(Store, file.env)
  /\ \/ /\ reply'.verdict = "valid"
        /\ Hydrate(file.env.payload)
        /\ UNCHANGED durable
     \/ /\ reply'.verdict # "valid"
        /\ Hydrate(Unbound)
        /\ durable' = {}
  /\ UNCHANGED mishaps

StartWithoutFile ==
  /\ ~up
  /\ file.kind # "signed"
  /\ Hydrate(Unbound)
  /\ durable' = {}
  /\ UNCHANGED <<signerVars, mishaps>>

StartWithoutSigner ==
  /\ ~up
  /\ file.kind = "signed"
  /\ Hydrate(Unbound)
  /\ durable' = {}
  /\ mishaps' = mishaps \cup {"lapse"}
  /\ UNCHANGED signerVars

SignerFault ==
  /\ DaemonRestart \/ SeqFileLost
  /\ UNCHANGED bridgeVars

Next ==
  \/ \E c \in Clients, d \in Dispatches : RuntimeDispatch(c, d)
  \/ \E c \in Clients : PlacementFails(c)
  \/ \E c \in Clients : Bind(c)
  \/ \E c \in Clients : SignerSigns(c)
  \/ \E c \in Clients : SignTimesOut(c)
  \/ \E p \in abandoned : SignerSignsLate(p)
  \/ \E c \in Clients : WriteFile(c)
  \/ \E c \in Clients : WriteFails(c)
  \/ BridgeCrash
  \/ StartVerified
  \/ StartWithoutFile
  \/ StartWithoutSigner
  \/ SignerFault

Spec == Init /\ [][Next]_vars

-----------------------------------------------------------------------------

Stored == {Missing, Malformed} \cup [kind : {"signed"}, env : Envelope]

(* Every variable of the bridge and of the signer stays in its type. *)
TypeOK ==
  /\ SignerTypeOK
  /\ up \in BOOLEAN
  /\ owner \in Snapshot
  /\ pc \in [Clients -> {"idle", "placing", "signing", "writing"}]
  /\ doing \in [Clients -> SUBSET Dispatches]
  /\ conn \in [Clients -> {None} \cup [kind : {"request"}, payload : Payloads]
                            \cup [kind : {"signed"}, env : Envelope]]
  /\ abandoned \subseteq Payloads
  /\ file \in Stored
  /\ crashes \in 0..MaxCrashes
  /\ creator \in Snapshot
  /\ durable \subseteq Dispatches
  /\ mishaps \subseteq {"overlap", "lapse"}

(* The owner on record is the client whose request made the dispatch: through
   interleaved binds, late signatures, crashes and hydration, no client comes
   to own another's worker (bindOwnedDispatch, loadPersistedOwnership). *)
OwnerIsCreator ==
  \A d \in Dispatches : owner[d] \in {NoClient, creator[d]}

Restored == \A d \in durable : owner'[d] = creator[d]

(* A hydrated registry is never an outdated subset: as long as no snapshot is
   taken with another under way, a restart either brings back every binding that
   was written and not given up since, or rejects the file and starts with none,
   whatever crashes, lost answers and failed writes came before
   (readSignedJsonFile, loadPersistedOwnership). *)
RestoreIsAllOrNothing ==
  []["overlap" \notin mishaps /\ ~up /\ up' /\ owner' # Unbound => Restored]_vars

(* "Survives bridge process restart so coordinators can still release workers
   they legitimately dispatched": where persists neither overlap nor are cut
   short, a binding that was written is on record whenever the bridge is up,
   through its restarts and those of the signer, its seq file lost or not. *)
WrittenBindingsSurvive ==
  [][up' /\ mishaps' = {} => Restored]_vars

(* The same sentence of two clients that dispatch at once, nothing cut short. *)
OverlappingBindingsSurvive ==
  [][up' /\ "lapse" \notin mishaps' => Restored]_vars
=============================================================================
