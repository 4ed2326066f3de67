------------------------ MODULE DispatchOwnershipProofs ------------------------
(***************************************************************************)
(* Ownership for any number of clients, dispatches, crashes and signer       *)
(* faults.  Every snapshot that is anywhere under way - sent, signed, left   *)
(* behind by a caller, or in the file - attributes a dispatch to its creator *)
(* or to nobody; as long as no two snapshots overlap, the one under way and  *)
(* the one in the file also cover every binding written before.             *)
(***************************************************************************)
EXTENDS DispatchOwnership, StoreSignerProofs

Attributed(p) == \A d \in Dispatches : p[d] \in {NoClient, creator[d]}
Covers(p)     == \A d \in durable : p[d] = creator[d]

Under(c) ==
  CASE pc[c] = "signing" -> conn[c].payload
    [] pc[c] = "writing" -> conn[c].env.payload
    [] OTHER -> owner

ConnInv ==
  \A c \in Clients :
    /\ pc[c] = "signing" => conn[c] \in [kind : {"request"}, payload : Payloads]
    /\ pc[c] = "writing" => conn[c] \in [kind : {"signed"}, env : Envelope]

AttributionInv ==
  /\ Attributed(owner)
  /\ \A c \in Clients : Attributed(Under(c))
  /\ file.kind = "signed" => Attributed(file.env.payload)
  /\ \A c \in Clients : \A d \in doing[c] : creator[d] = c

OwnershipInv == TypeOK /\ SignerInv /\ ConnInv /\ AttributionInv

(* The signer's own invariant and the types survive every step of the bridge. *)
LEMMA TypeStep == TypeOK /\ ConnInv /\ [Next]_vars => TypeOK' /\ ConnInv'
<1> SUFFICES ASSUME TypeOK, ConnInv, [Next]_vars PROVE TypeOK' /\ ConnInv'
  OBVIOUS
<1> USE OwnershipAssumption DEF TypeOK, ConnInv, Stored, None, Request, Missing,
        Malformed, Snapshot, Owners, Unbound, Store
<1>1. ASSUME NEW c \in Clients, NEW d \in Dispatches, RuntimeDispatch(c, d)
      PROVE  TypeOK' /\ ConnInv'
  BY <1>1 DEF RuntimeDispatch, signerVars, SignerTypeOK
<1>2. ASSUME NEW c \in Clients, PlacementFails(c)
      PROVE  TypeOK' /\ ConnInv'
  BY <1>2 DEF PlacementFails, Finish, signerVars, SignerTypeOK
<1>3. ASSUME NEW c \in Clients, Bind(c)
      PROVE  TypeOK' /\ ConnInv'
  <2>1. owner' \in Snapshot
    BY <1>3 DEF Bind, BindOwner
  <2>2. QED
    BY <1>3, <2>1 DEF Bind, signerVars, SignerTypeOK
<1>4. ASSUME NEW c \in Clients, SignerSigns(c)
      PROVE  TypeOK' /\ ConnInv'
  <2>1. conn[c].payload \in Payloads
    BY <1>4 DEF SignerSigns
  <2>2. SignerTypeOK' /\ reply'.env \in Envelope
    BY <1>4, <2>1, SignTypes DEF SignerSigns
  <2>3. QED
    BY <1>4, <2>2 DEF SignerSigns, Signed
<1>5. ASSUME NEW c \in Clients, SignTimesOut(c)
      PROVE  TypeOK' /\ ConnInv'
  BY <1>5 DEF SignTimesOut, Finish, signerVars, SignerTypeOK
<1>6. ASSUME NEW p \in abandoned, SignerSignsLate(p)
      PROVE  TypeOK' /\ ConnInv'
  <2>1. SignerTypeOK'
    BY <1>6, SignTypes DEF SignerSignsLate
  <2>2. QED
    BY <1>6, <2>1 DEF SignerSignsLate
<1>7. ASSUME NEW c \in Clients, WriteFile(c)
      PROVE  TypeOK' /\ ConnInv'
  BY <1>7 DEF WriteFile, Finish, signerVars, SignerTypeOK
<1>8. ASSUME NEW c \in Clients, WriteFails(c)
      PROVE  TypeOK' /\ ConnInv'
  BY <1>8 DEF WriteFails, Finish, signerVars, SignerTypeOK
<1>9. CASE BridgeCrash
  <2>1. {conn[c].payload : c \in {k \in Clients : pc[k] = "signing"}} \subseteq Payloads
    OBVIOUS
  <2>2. abandoned' \subseteq Payloads
    BY <1>9, <2>1 DEF BridgeCrash
  <2>3. SignerTypeOK'
    BY <1>9 DEF BridgeCrash, signerVars, SignerTypeOK
  <2>4. crashes' \in 0..MaxCrashes
    BY <1>9 DEF BridgeCrash
  <2>7. file' \in Stored
    BY <1>9 DEF BridgeCrash
  <2>8. /\ owner' \in Snapshot /\ up' \in BOOLEAN
        /\ creator' \in Snapshot /\ durable' \subseteq Dispatches
        /\ mishaps' \subseteq {"overlap", "lapse"}
    BY <1>9 DEF BridgeCrash
  <2>5. /\ pc' = [c \in Clients |-> "idle"]
        /\ doing' = [c \in Clients |-> {}]
        /\ conn' = [c \in Clients |-> None]
    BY <1>9 DEF BridgeCrash
  <2>6. QED
    BY <2>2, <2>3, <2>4, <2>5, <2>7, <2>8
<1>10. CASE StartVerified
  <2>1. file.env \in Envelope /\ file.env.payload \in Snapshot
    BY <1>10 DEF StartVerified, Envelope
  <2>2. SignerTypeOK'
    BY <1>10, <2>1, VerifyTypes DEF StartVerified
  <2>3. QED
    BY <1>10, <2>1, <2>2 DEF StartVerified, Hydrate
<1>11. CASE StartWithoutFile
  BY <1>11 DEF StartWithoutFile, Hydrate, signerVars, SignerTypeOK
<1>12. CASE StartWithoutSigner
  <2>1. SignerTypeOK' /\ mishaps' \subseteq {"overlap", "lapse"}
    BY <1>12 DEF StartWithoutSigner, signerVars, SignerTypeOK
  <2>2. QED
    BY <1>12, <2>1 DEF StartWithoutSigner, Hydrate
<1>13. CASE SignerFault
  BY <1>13, FaultTypes DEF SignerFault, bridgeVars
<1>14. CASE UNCHANGED vars
  BY <1>14 DEF vars, bridgeVars, signerVars, SignerTypeOK
<1>15. QED
  BY <1>1, <1>2, <1>3, <1>4, <1>5, <1>6, <1>7, <1>8, <1>9, <1>10, <1>11, <1>12,
     <1>13, <1>14 DEF Next

(* The bridge uses the daemon only through its requests, and for one store. *)
LEMMA SignerIsAsked ==
  ASSUME TypeOK, ConnInv, [Next]_vars
  PROVE  [UsedOnlyFor(Store)]_signerVars
<1> USE OwnershipAssumption DEF TypeOK
<1>1. ASSUME NEW c \in Clients, SignerSigns(c)
      PROVE  \E p \in Payloads : HandleSign(Store, p)
  BY <1>1 DEF SignerSigns, ConnInv
<1>2. ASSUME StartVerified
      PROVE  \E e \in Envelope : HandleVerify(Store, e)
  BY <1>2 DEF StartVerified, Stored, Missing, Malformed
<1>3. QED
  BY <1>1, <1>2
  DEF Next, vars, UsedOnlyFor, RuntimeDispatch, PlacementFails, Bind, SignTimesOut,
      SignerSignsLate, WriteFile, WriteFails, BridgeCrash,
      StartWithoutFile, StartWithoutSigner, SignerFault

(* The signer keeps its invariant inside the bridge. *)
LEMMA SignerStep ==
  ASSUME TypeOK, ConnInv, SignerInv, [Next]_vars
  PROVE  SignerInv'
<1> USE OwnershipAssumption DEF TypeOK, Store
<1>0. SignerTypeOK'
  BY TypeStep
<1>1. ASSUME NEW p \in Payloads, HandleSign(Store, p)
      PROVE  SignerInv'
  BY <1>0, <1>1, SignKeepsInv
<1>2. ASSUME NEW e \in Envelope, HandleVerify(Store, e)
      PROVE  SignerInv'
  BY <1>0, <1>2, VerifyKeepsInv
<1>3. CASE UNCHANGED signerVars
  BY <1>3
  DEF signerVars, SignerInv, SignerTypeOK, RecordsAreDigested, Digested, OwnRecord,
      LiveRecordIsNewest, NumbersAreUnique, FreshIffNewest,
      HighestIsAccepted, IsVerifyOf
<1>4. CASE DaemonRestart \/ SeqFileLost
  BY <1>0, <1>4, FaultKeepsInv
<1>5. QED
  BY <1>1, <1>2, <1>3, <1>4, SignerIsAsked DEF UsedOnlyFor

(* Every snapshot under way, and the file, names the creator or nobody. *)
LEMMA AttributionStep ==
  ASSUME TypeOK, ConnInv, AttributionInv, [Next]_vars, TypeOK', ConnInv'
  PROVE  AttributionInv'
<1> USE OwnershipAssumption DEF TypeOK, ConnInv, AttributionInv, Attributed, Under,
        Snapshot, Owners, Unbound
<1>1. ASSUME NEW c \in Clients, NEW d \in Dispatches, RuntimeDispatch(c, d)
      PROVE  AttributionInv'
  <2>1. /\ creator' = [creator EXCEPT ![d] = c] /\ creator[d] = NoClient
        /\ pc' = [pc EXCEPT ![c] = "placing"] /\ pc[c] = "idle"
        /\ doing' = [doing EXCEPT ![c] = {d}]
        /\ owner' = owner /\ conn' = conn /\ file' = file
    BY <1>1 DEF RuntimeDispatch
  <2>2. \A p \in Snapshot : Attributed(p) => Attributed(p)'
    BY <2>1
  <2>3. Attributed(owner)'
    BY <2>1
  <2>4. \A k \in Clients : Attributed(Under(k))'
    BY <2>1
  <2>5. file'.kind = "signed" => Attributed(file.env.payload)'
    BY <2>1
  <2>6. \A k \in Clients : \A x \in doing'[k] : creator'[x] = k
    BY <2>1
  <2>7. QED
    BY <2>3, <2>4, <2>5, <2>6
<1>2. ASSUME NEW c \in Clients, PlacementFails(c)
      PROVE  AttributionInv'
  BY <1>2 DEF PlacementFails, Finish
<1>3. ASSUME NEW c \in Clients, Bind(c)
      PROVE  AttributionInv'
  <2>1. Attributed(owner)'
    BY <1>3 DEF Bind, BindOwner
  <2>2. QED
    BY <1>3, <2>1 DEF Bind, Request
<1>4. ASSUME NEW c \in Clients, SignerSigns(c)
      PROVE  AttributionInv'
  <2>1. reply'.env.payload = conn[c].payload
    BY <1>4 DEF SignerSigns, HandleSign, SignReply
  <2>2. QED
    BY <1>4, <2>1 DEF SignerSigns, Signed
<1>5. ASSUME NEW c \in Clients, SignTimesOut(c)
      PROVE  AttributionInv'
  BY <1>5 DEF SignTimesOut, Finish
<1>6. ASSUME NEW p \in abandoned, SignerSignsLate(p)
      PROVE  AttributionInv'
  BY <1>6 DEF SignerSignsLate
<1>7. ASSUME NEW c \in Clients, WriteFile(c)
      PROVE  AttributionInv'
  BY <1>7 DEF WriteFile, Finish
<1>8. ASSUME NEW c \in Clients, WriteFails(c)
      PROVE  AttributionInv'
  BY <1>8 DEF WriteFails, Finish, Malformed
<1>9. CASE BridgeCrash
  BY <1>9 DEF BridgeCrash, Malformed
<1>10. CASE StartVerified
  BY <1>10 DEF StartVerified, Hydrate, Stored, Missing, Malformed
<1>11. CASE StartWithoutFile \/ StartWithoutSigner
  BY <1>11 DEF StartWithoutFile, StartWithoutSigner, Hydrate
<1>12. CASE SignerFault \/ UNCHANGED vars
  BY <1>12 DEF SignerFault, vars, bridgeVars
<1>13. QED
  BY <1>1, <1>2, <1>3, <1>4, <1>5, <1>6, <1>7, <1>8, <1>9, <1>10, <1>11, <1>12
  DEF Next

(* The invariants of the bridge and of the signer hold together. *)
THEOREM OwnershipInvariant == Spec => []OwnershipInv
<1>1. Init => OwnershipInv
  <2> SUFFICES ASSUME Init PROVE OwnershipInv
    OBVIOUS
  <2>1. SignerInv
    BY SignerAssumption
    DEF Init, SignerInit, SignerInv, SignerTypeOK, SeqRecord, NoRecord,
        NoEnvelope, NoReply, Reply, RecordsAreDigested, Digested, OwnRecord,
        LiveRecordIsNewest, Recorded, NumbersAreUnique, FreshIffNewest,
        HighestIsAccepted, IsVerifyOf
  <2>2. TypeOK
    BY <2>1, OwnershipAssumption
    DEF Init, TypeOK, SignerInv, Snapshot, Owners, Unbound, Stored, Missing, None
  <2>3. ConnInv /\ AttributionInv
    BY OwnershipAssumption
    DEF Init, ConnInv, AttributionInv, Attributed, Under, Unbound, Missing
  <2>4. QED
    BY <2>1, <2>2, <2>3 DEF OwnershipInv
<1>2. OwnershipInv /\ [Next]_vars => OwnershipInv'
  BY TypeStep, SignerStep, AttributionStep DEF OwnershipInv
<1>3. QED
  BY <1>1, <1>2, PTL DEF Spec

(* Type correctness of the bridge and its signer. *)
THEOREM OwnershipTypeCorrect == Spec => []TypeOK
  BY OwnershipInvariant, PTL DEF OwnershipInv

(* No client ever owns a dispatch that another client made, whatever is lost,
   late, restarted or overtaken (bindOwnedDispatch, loadPersistedOwnership). *)
THEOREM OwnershipIsCreator == Spec => []OwnerIsCreator
<1>1. OwnershipInv => OwnerIsCreator
  BY DEF OwnershipInv, AttributionInv, Attributed, OwnerIsCreator
<1>2. QED
  BY <1>1, OwnershipInvariant, PTL

-----------------------------------------------------------------------------
(* While no two persists overlap, the snapshot under way and the one in the file
   cover what was written before. *)

SoloPersist ==
  /\ up => Covers(owner)
  /\ \A c, k \in Clients : Busy(c) /\ Busy(k) => c = k
  /\ \A c \in Clients :
       /\ \A d, x \in doing[c] : d = x
       /\ Busy(c) => /\ up
                     /\ Covers(Under(c))
                     /\ \A d \in doing[c] : Under(c)[d] = c /\ owner[d] = c
  /\ file.kind = "signed" => Covers(file.env.payload)
  /\ \A d \in durable : creator[d] # NoClient

SoloInv == "overlap" \notin mishaps => SoloPersist

LEMMA SoloStep ==
  ASSUME OwnershipInv, OwnershipInv', SoloPersist, [Next]_vars, "overlap" \notin mishaps'
  PROVE  SoloPersist'
<1> USE OwnershipAssumption
    DEF OwnershipInv, TypeOK, ConnInv, AttributionInv, Attributed, SoloPersist,
        Covers, Under, Busy, Snapshot, Owners, Unbound
<1>1. ASSUME NEW c \in Clients, NEW d \in Dispatches, RuntimeDispatch(c, d)
      PROVE  SoloPersist'
  BY <1>1 DEF RuntimeDispatch
<1>2. ASSUME NEW c \in Clients, PlacementFails(c)
      PROVE  SoloPersist'
  BY <1>2 DEF PlacementFails, Finish
<1>3. ASSUME NEW c \in Clients, Bind(c)
      PROVE  SoloPersist'
  <2>1. PICK d \in doing[c] : owner' = BindOwner(owner, d, c)
    BY <1>3 DEF Bind
  <2>2. d \in Dispatches /\ owner' = [owner EXCEPT ![d] = c]
    BY <2>1 DEF BindOwner
  <2>3. \A x \in durable : owner'[x] = creator[x]
    BY <1>3, <2>1, <2>2 DEF Bind
  <2>4. \A x \in doing[c] : owner'[x] = c
    BY <2>1, <2>2
  <2>5. /\ pc' = [pc EXCEPT ![c] = "signing"]
        /\ conn' = [conn EXCEPT ![c] = Request(owner')]
        /\ up /\ up' = up /\ doing' = doing /\ file' = file
        /\ creator' = creator /\ durable' = durable
        /\ \A k \in Clients : ~Busy(k)
    BY <1>3 DEF Bind
  <2>6. conn'[c].payload = owner' /\ pc'[c] = "signing"
    BY <2>5 DEF Request
  <2>7. \A k \in Clients : Busy(k)' => k = c
    BY <2>5
  <2>8. QED
    BY <2>3, <2>4, <2>5, <2>6, <2>7
<1>4. ASSUME NEW c \in Clients, SignerSigns(c)
      PROVE  SoloPersist'
  <2>1. reply'.env.payload = conn[c].payload
    BY <1>4 DEF SignerSigns, HandleSign, SignReply
  <2>2. QED
    BY <1>4, <2>1 DEF SignerSigns, Signed
<1>5. ASSUME NEW c \in Clients, SignTimesOut(c)
      PROVE  SoloPersist'
  BY <1>5 DEF SignTimesOut, Finish
<1>6. ASSUME NEW p \in abandoned, SignerSignsLate(p)
      PROVE  SoloPersist'
  BY <1>6 DEF SignerSignsLate
<1>7. ASSUME NEW c \in Clients, WriteFile(c)
      PROVE  SoloPersist'
  <2>1. /\ file' = conn[c] /\ durable' = durable \cup doing[c]
        /\ pc' = [pc EXCEPT ![c] = "idle"] /\ doing' = [doing EXCEPT ![c] = {}]
        /\ up' = up /\ owner' = owner /\ creator' = creator /\ pc[c] = "writing"
    BY <1>7 DEF WriteFile, Finish
  <2>2. \A d \in doing[c] : creator[d] = c /\ c # NoClient
    OBVIOUS
  <2>3. QED
    BY <2>1, <2>2
<1>8. ASSUME NEW c \in Clients, WriteFails(c)
      PROVE  SoloPersist'
  BY <1>8 DEF WriteFails, Finish, Malformed
<1>9. CASE BridgeCrash
  BY <1>9 DEF BridgeCrash, Malformed
<1>10. CASE StartVerified
  BY <1>10 DEF StartVerified, Hydrate
<1>11. CASE StartWithoutFile \/ StartWithoutSigner
  BY <1>11 DEF StartWithoutFile, StartWithoutSigner, Hydrate
<1>12. CASE SignerFault \/ UNCHANGED vars
  BY <1>12 DEF SignerFault, vars, bridgeVars
<1>13. QED
  BY <1>1, <1>2, <1>3, <1>4, <1>5, <1>6, <1>7, <1>8, <1>9, <1>10, <1>11, <1>12
  DEF Next

(* Whatever crashes and whatever the signer or the disk loses, as long as no two
   persists overlap a restarted bridge never works with an outdated part of the
   bindings it had written: it has all of them or it rejected the file. *)
THEOREM SoloRestoreIsAllOrNothing == Spec => RestoreIsAllOrNothing
<1>1. Init => SoloInv
  BY OwnershipAssumption
  DEF Init, SoloInv, SoloPersist, Covers, Busy, Unbound, Missing
<1>2. OwnershipInv /\ OwnershipInv' /\ SoloInv /\ [Next]_vars => SoloInv'
  <2>1. [Next]_vars /\ "overlap" \in mishaps => "overlap" \in mishaps'
    BY DEF Next, vars, bridgeVars, RuntimeDispatch, PlacementFails, Bind,
           SignerSigns, SignTimesOut, SignerSignsLate, WriteFile, WriteFails,
           BridgeCrash, StartVerified, StartWithoutFile, StartWithoutSigner,
           Hydrate, SignerFault
  <2>2. QED
    BY <2>1, SoloStep DEF SoloInv
<1>3. /\ OwnershipInv /\ SoloInv /\ [Next]_vars
      => ["overlap" \notin mishaps /\ ~up /\ up' /\ owner' # Unbound => Restored]_vars
  <2> SUFFICES ASSUME SoloInv, [Next]_vars, "overlap" \notin mishaps, ~up, up', owner' # Unbound,
                      NEW d \in durable
               PROVE  owner'[d] = creator[d]
    BY DEF Restored
  <2>1. CASE StartVerified
    BY <2>1 DEF StartVerified, Hydrate, SoloInv, SoloPersist, Covers
  <2>2. ~StartVerified => FALSE
    BY DEF Next, vars, bridgeVars, RuntimeDispatch, PlacementFails, Bind,
           SignerSigns, SignTimesOut, SignerSignsLate, WriteFile, WriteFails,
           BridgeCrash, StartWithoutFile, StartWithoutSigner, Hydrate,
           SignerFault
  <2>3. QED
    BY <2>1, <2>2
<1>4. QED
  BY <1>1, <1>2, <1>3, OwnershipInvariant, PTL DEF Spec, RestoreIsAllOrNothing

-----------------------------------------------------------------------------
(* While persists neither overlap nor are cut short, the file that will be read
   next is one the signer finds fresh, before and after a restart of the signer. *)

FreshFile ==
  /\ abandoned = {}
  /\ file # Missing => file.kind = "signed"
  /\ file = Missing => durable = {}
  /\ \A c \in Clients : pc[c] = "writing" => Current(Store, conn[c].env)
  /\ (\A c \in Clients : pc[c] # "writing") /\ file # Missing => Current(Store, file.env)

CalmInv == SeqFileIsBehind(Store) /\ (mishaps = {} => FreshFile)

LEMMA StoreKnown == Store \in Stores
BY OwnershipAssumption DEF Store

(* A mishap is not forgotten. *)
LEMMA MishapsStay == ASSUME [Next]_vars PROVE mishaps \subseteq mishaps'
BY DEF Next, vars, bridgeVars, RuntimeDispatch, PlacementFails, Bind,
       SignerSigns, SignTimesOut, SignerSignsLate, WriteFile, WriteFails,
       BridgeCrash, StartVerified, StartWithoutFile, StartWithoutSigner,
       Hydrate, SignerFault

LEMMA CalmStep ==
  ASSUME OwnershipInv, OwnershipInv', SoloPersist, SeqFileIsBehind(Store), FreshFile,
         [Next]_vars, mishaps' = {}
  PROVE  FreshFile'
<1>0. /\ \A c \in Clients : pc[c] = "writing" => conn[c].kind = "signed" /\ conn[c].env \in Envelope
      /\ file # Missing => file.kind = "signed" /\ file.env \in Envelope
      /\ pc \in [Clients -> {"idle", "placing", "signing", "writing"}]
      /\ conn \in [Clients -> {None} \cup [kind : {"request"}, payload : Payloads]
                            \cup [kind : {"signed"}, env : Envelope]]
      /\ file \in Stored /\ SignerTypeOK
  BY DEF OwnershipInv, TypeOK, ConnInv, FreshFile, Stored, Missing, Malformed
<1>1. ASSUME NEW c \in Clients, NEW d \in Dispatches, RuntimeDispatch(c, d) PROVE FreshFile'
  BY <1>0, <1>1 DEF RuntimeDispatch, FreshFile, Current, signerVars
<1>2. ASSUME NEW c \in Clients, PlacementFails(c) PROVE FreshFile'
  BY <1>0, <1>2 DEF PlacementFails, Finish, FreshFile, Current, signerVars
<1>3. ASSUME NEW c \in Clients, Bind(c) PROVE FreshFile'
  BY <1>0, <1>3 DEF Bind, FreshFile, Current, signerVars
<1>4. ASSUME NEW c \in Clients, SignerSigns(c) PROVE FreshFile'
  <2>1. conn[c].payload \in Payloads /\ HandleSign(Store, conn[c].payload)
    BY <1>4 DEF SignerSigns, OwnershipInv, ConnInv
  <2>2. Current(Store, reply.env)'
    BY <1>0, <2>1, SignIsCurrent, StoreKnown
  <2>3. /\ pc' = [pc EXCEPT ![c] = "writing"] /\ conn' = [conn EXCEPT ![c] = Signed(reply'.env)]
        /\ pc[c] = "signing" /\ UNCHANGED <<file, durable, abandoned>>
    BY <1>4 DEF SignerSigns
  <2>4. pc'[c] = "writing" /\ conn'[c].env = reply'.env
    BY <1>0, <2>3 DEF Signed
  <2>5. \A k \in Clients : pc'[k] = "writing" => k = c
    BY <1>0, <2>3 DEF SoloPersist, Busy
  <2>6. \A k \in Clients : pc'[k] = "writing" => Current(Store, conn[k].env)'
    BY <2>2, <2>4, <2>5 DEF Current
  <2> QED BY <2>3, <2>4, <2>6 DEF FreshFile
<1>5. ASSUME NEW c \in Clients, SignTimesOut(c) \/ WriteFails(c) PROVE FreshFile'
  BY <1>5 DEF SignTimesOut, WriteFails
<1>6. ASSUME NEW p \in abandoned, SignerSignsLate(p) PROVE FreshFile'
  BY <1>6 DEF FreshFile
<1>7. ASSUME NEW c \in Clients, WriteFile(c) PROVE FreshFile'
  <2>1. /\ file' = conn[c] /\ pc[c] = "writing" /\ abandoned' = abandoned
        /\ pc' = [pc EXCEPT ![c] = "idle"] /\ UNCHANGED signerVars
    BY <1>7 DEF WriteFile, Finish
  <2>2. \A k \in Clients : pc'[k] # "writing"
    BY <1>0, <2>1 DEF SoloPersist, Busy
  <2>3. file'.kind = "signed" /\ file' # Missing /\ Current(Store, file.env)'
    BY <1>0, <2>1 DEF FreshFile, Current, signerVars, Missing
  <2> QED BY <2>1, <2>2, <2>3 DEF FreshFile
<1>8. CASE BridgeCrash
  <2>1. \A c \in Clients : ~Busy(c)
    BY <1>8 DEF BridgeCrash
  <2>2. /\ file' = file /\ abandoned' = abandoned /\ durable' = durable /\ UNCHANGED signerVars
        /\ pc' = [c \in Clients |-> "idle"]
    <3>1. {conn[c].payload : c \in {k \in Clients : pc[k] = "signing"}} = {}
      BY <2>1 DEF Busy
    <3> QED BY <1>8, <2>1, <3>1 DEF BridgeCrash, Busy
  <2> QED BY <2>1, <2>2 DEF FreshFile, Current, signerVars, Busy
<1>9. CASE StartVerified
  <2>1. file # Missing /\ HandleVerify(Store, file.env) /\ ~up
        /\ UNCHANGED <<file, abandoned, pc, conn>>
    BY <1>9 DEF StartVerified, Hydrate, Missing
  <2>2. \A c \in Clients : pc[c] # "writing"
    BY <2>1 DEF SoloPersist, Busy
  <2>3. Current(Store, file.env)
    BY <2>1, <2>2 DEF FreshFile
  <2>4. Current(Store, file.env)'
    BY <1>0, <2>1, <2>3, VerifyKeepsCurrent, StoreKnown DEF Current
  <2> QED BY <2>1, <2>2, <2>4 DEF FreshFile
<1>10. CASE StartWithoutFile
  BY <1>10 DEF StartWithoutFile, Hydrate, FreshFile, Current, signerVars
<1>11. CASE StartWithoutSigner
  BY <1>11 DEF StartWithoutSigner
<1>12. CASE SignerFault
  <2>1. DaemonRestart \/ SeqFileLost
    BY <1>12 DEF SignerFault
  <2>2. \A e \in Envelope : Current(Store, e) => Current(Store, e)'
    BY <1>0, <2>1, FaultKeepsCurrent, StoreKnown
  <2>3. UNCHANGED <<abandoned, file, durable, pc, conn>>
    BY <1>12 DEF SignerFault, bridgeVars
  <2>4. \A c \in Clients : pc[c] = "writing" => Current(Store, conn[c].env)'
    BY <1>0, <2>2, <2>3 DEF FreshFile, Current
  <2>5. (\A c \in Clients : pc[c] # "writing") /\ file # Missing => Current(Store, file.env)'
    BY <1>0, <2>2, <2>3 DEF FreshFile, Current
  <2> QED BY <2>3, <2>4, <2>5 DEF FreshFile, Current
<1>13. CASE UNCHANGED vars
  BY <1>13 DEF vars, bridgeVars, signerVars, FreshFile, Current
<1> QED
  BY <1>1, <1>2, <1>3, <1>4, <1>5, <1>6, <1>7, <1>8, <1>9, <1>10, <1>11, <1>12, <1>13
  DEF Next

(* The saved counter is never ahead of the one in use. *)
LEMMA BehindStep ==
  ASSUME OwnershipInv, SeqFileIsBehind(Store), [Next]_vars
  PROVE  SeqFileIsBehind(Store)'
<1>0. SignerTypeOK
  BY DEF OwnershipInv, TypeOK
<1>1. ASSUME NEW c \in Clients, SignerSigns(c) PROVE SeqFileIsBehind(Store)'
  <2>1. conn[c].payload \in Payloads /\ HandleSign(Store, conn[c].payload)
    BY <1>1 DEF SignerSigns, OwnershipInv, ConnInv
  <2> QED BY <1>0, <2>1, SignIsCurrent, StoreKnown
<1>2. ASSUME NEW p \in abandoned, SignerSignsLate(p) PROVE SeqFileIsBehind(Store)'
  <2>1. p \in Payloads /\ HandleSign(Store, p)
    BY <1>2 DEF SignerSignsLate, OwnershipInv, TypeOK
  <2> QED BY <1>0, <2>1, SignIsCurrent, StoreKnown
<1>3. CASE StartVerified
  <2>1. file.env \in Envelope /\ HandleVerify(Store, file.env)
    BY <1>3 DEF StartVerified, OwnershipInv, TypeOK, Stored, Missing, Malformed
  <2> QED BY <1>0, <2>1, VerifyKeepsCurrent, StoreKnown
<1>4. CASE SignerFault
  BY <1>0, <1>4, FaultKeepsCurrent, StoreKnown DEF SignerFault
<1>5. CASE UNCHANGED signerVars
  BY <1>5 DEF signerVars, SeqFileIsBehind
<1> QED
  BY <1>1, <1>2, <1>3, <1>4, <1>5
  DEF Next, vars, RuntimeDispatch, PlacementFails, Bind, SignTimesOut, WriteFile,
      WriteFails, BridgeCrash, StartWithoutFile, StartWithoutSigner

(* Where persists neither overlap nor are cut short, a binding that was written is
   on record whenever the bridge is up, through crashes of the bridge and restarts of
   the signer, its seq file lost or not: the file is always the newest envelope. *)
THEOREM CalmBindingsSurvive == Spec => WrittenBindingsSurvive
<1>1. Init => SoloInv /\ CalmInv
  <2>1. Init => SoloInv
    BY OwnershipAssumption
    DEF Init, SoloInv, SoloPersist, Covers, Busy, Unbound, Missing
  <2>2. Init => CalmInv
    BY OwnershipAssumption
    DEF Init, SignerInit, CalmInv, SeqFileIsBehind, FreshFile, Missing, NoRecord, Store
  <2> QED BY <2>1, <2>2
<1>2. OwnershipInv /\ OwnershipInv' /\ SoloInv /\ CalmInv /\ [Next]_vars => SoloInv' /\ CalmInv'
  BY MishapsStay, SoloStep, CalmStep, BehindStep DEF SoloInv, CalmInv
<1>3. /\ OwnershipInv /\ OwnershipInv' /\ SoloInv /\ SoloInv' /\ CalmInv /\ [Next]_vars
      => [up' /\ mishaps' = {} => Restored]_vars
  <2> SUFFICES ASSUME OwnershipInv, SoloInv, SoloInv', CalmInv, [Next]_vars, up', mishaps' = {}
               PROVE  Restored
    OBVIOUS
  <2>1. mishaps = {} /\ FreshFile /\ SoloPersist /\ SoloPersist'
    BY MishapsStay DEF CalmInv, SoloInv
  <2>2. durable \subseteq durable'
    <3>1. CASE StartVerified
      <4>1. file # Missing /\ HandleVerify(Store, file.env) /\ ~up
        BY <3>1 DEF StartVerified, Missing
      <4>2. \A c \in Clients : pc[c] # "writing"
        BY <2>1, <4>1 DEF SoloPersist, Busy
      <4>3. Current(Store, file.env)
        BY <2>1, <4>1, <4>2 DEF FreshFile
      <4>4. SignerTypeOK /\ SeqFileIsBehind(Store) /\ file.env \in Envelope
        BY <2>1, <3>1 DEF StartVerified, OwnershipInv, TypeOK, Stored, Missing, Malformed, CalmInv
      <4>5. reply'.verdict = "valid"
        BY <4>1, <4>3, <4>4, VerifyKeepsCurrent, StoreKnown
      <4> QED BY <3>1, <4>5 DEF StartVerified
    <3>2. CASE StartWithoutFile
      BY <2>1, <3>2 DEF StartWithoutFile, FreshFile
    <3>3. CASE StartWithoutSigner
      BY <3>3 DEF StartWithoutSigner
    <3> QED
      BY <3>1, <3>2, <3>3
      DEF Next, vars, bridgeVars, RuntimeDispatch, PlacementFails, Bind, SignerSigns,
          SignTimesOut, SignerSignsLate, WriteFile, WriteFails, BridgeCrash, SignerFault
  <2>3. \A d \in durable : creator[d] # NoClient /\ creator'[d] = creator[d]
    <3>1. ASSUME NEW c \in Clients, NEW x \in Dispatches, RuntimeDispatch(c, x), NEW d \in durable
          PROVE  creator[d] # NoClient /\ creator'[d] = creator[d]
      <4>1. creator[x] = NoClient /\ creator' = [creator EXCEPT ![x] = c] /\ creator[d] # NoClient
        BY <2>1, <3>1 DEF RuntimeDispatch, SoloPersist
      <4> QED BY <4>1
    <3>2. \/ creator' = creator
          \/ \E c \in Clients, x \in Dispatches : RuntimeDispatch(c, x)
      BY DEF Next, vars, bridgeVars, PlacementFails, Bind, SignerSigns, SignTimesOut,
             SignerSignsLate, WriteFile, WriteFails, BridgeCrash, StartVerified,
             StartWithoutFile, StartWithoutSigner, Hydrate, SignerFault
    <3> QED BY <2>1, <3>1, <3>2 DEF SoloPersist
  <2>4. \A d \in durable' : owner'[d] = creator'[d]
    BY <2>1 DEF SoloPersist, Covers
  <2> QED BY <2>2, <2>3, <2>4 DEF Restored
<1>4. QED
  BY <1>1, <1>2, <1>3, OwnershipInvariant, PTL DEF Spec, WrittenBindingsSurvive

-----------------------------------------------------------------------------
(* Whatever happens around it, the bridge uses the daemon as the daemon is
   specified: signs what it has, verifies what it was once given. *)

(* The envelopes that are held or in the file have numbers the daemon gave. *)
Numbered ==
  /\ \A c \in Clients : pc[c] = "writing" => conn[c].env.n \in 1..MaxSeq
  /\ file.kind = "signed" => file.env.n \in 1..MaxSeq

LEMMA NumberedStep ==
  ASSUME OwnershipInv, Numbered, [Next]_vars PROVE Numbered'
<1> USE OwnershipAssumption DEF OwnershipInv, TypeOK, ConnInv, Numbered
<1>1. ASSUME NEW c \in Clients, SignerSigns(c) PROVE Numbered'
  <2>1. /\ conn' = [conn EXCEPT ![c] = Signed(reply'.env)]
        /\ pc' = [pc EXCEPT ![c] = "writing"] /\ file' = file
    BY <1>1 DEF SignerSigns
  <2>2. reply'.env.n \in 1..MaxSeq
    BY <1>1, SignIsNumbered DEF SignerSigns, Store
  <2> QED
    BY <2>1, <2>2 DEF Signed
<1>2. ASSUME NEW c \in Clients, NEW d \in Dispatches, RuntimeDispatch(c, d) PROVE Numbered'
  BY <1>2 DEF RuntimeDispatch
<1>3. ASSUME NEW c \in Clients, Bind(c) PROVE Numbered'
  BY <1>3 DEF Bind
<1>4. ASSUME NEW c \in Clients, PlacementFails(c) \/ SignTimesOut(c) \/ WriteFails(c) PROVE Numbered'
  BY <1>4 DEF PlacementFails, SignTimesOut, WriteFails, Finish, Malformed
<1>5. ASSUME NEW c \in Clients, WriteFile(c) PROVE Numbered'
  BY <1>5 DEF WriteFile, Finish
<1>6. CASE BridgeCrash
  BY <1>6 DEF BridgeCrash, Malformed
<1>7. CASE UNCHANGED <<pc, conn, file>>
  BY <1>7
<1> QED
  BY <1>1, <1>2, <1>3, <1>4, <1>5, <1>6, <1>7
  DEF Next, vars, bridgeVars, SignerSignsLate, StartVerified, StartWithoutFile, StartWithoutSigner,
      Hydrate, SignerFault

(* The bridge and its daemon together implement the daemon: every step is a request
   the daemon specifies, one of its faults, or none of its business. *)
THEOREM OwnershipUsesSigner == Spec => SignerSpec
<1>1. Init => SignerInit /\ Numbered
  BY DEF Init, Numbered, Missing
<1>2. OwnershipInv /\ Numbered /\ [Next]_vars => Numbered'
  BY NumberedStep
<1>3. OwnershipInv /\ Numbered /\ [Next]_vars => [SignerNext]_signerVars
  <2> SUFFICES ASSUME OwnershipInv, Numbered, [Next]_vars PROVE [SignerNext]_signerVars
    OBVIOUS
  <2> USE OwnershipAssumption DEF OwnershipInv, TypeOK, ConnInv, Numbered, Store
  <2>1. ASSUME NEW c \in Clients, SignerSigns(c) PROVE SignerNext
    BY <2>1 DEF SignerSigns, SignerNext
  <2>2. ASSUME NEW p \in abandoned, SignerSignsLate(p) PROVE SignerNext
    BY <2>2 DEF SignerSignsLate, SignerNext
  <2>3. CASE StartVerified
    <3>1. file.env \in Envelope /\ file.env.n \in 1..MaxSeq /\ HandleVerify(Store, file.env)
      BY <2>3 DEF StartVerified, Stored, Missing, Malformed
    <3>2. file.env.payload \in Payloads /\ file.env = [n |-> file.env.n, payload |-> file.env.payload]
      BY <3>1 DEF Envelope
    <3> QED
      BY <3>1, <3>2 DEF SignerNext
  <2>4. CASE SignerFault
    BY <2>4 DEF SignerFault, SignerNext
  <2> QED
    BY <2>1, <2>2, <2>3, <2>4
    DEF Next, vars, RuntimeDispatch, PlacementFails, Bind, SignTimesOut, WriteFile, WriteFails,
        BridgeCrash, StartWithoutFile, StartWithoutSigner
<1> QED
  BY <1>1, <1>2, <1>3, OwnershipInvariant, PTL DEF Spec, SignerSpec

(* The daemon is asked for the ownership file only, so its record is the file's own. *)
LEMMA OwnershipRecordIsOwn == Spec => []OwnRecord(Store)
<1>1. Init => Alone(Store)
  BY StoreKnown DEF Init, SignerInit, Alone, Own
<1>2. OwnershipInv /\ Alone(Store) /\ [Next]_vars => Alone(Store)'
  BY SignerIsAsked, AloneStep, StoreKnown DEF OwnershipInv, TypeOK
<1>3. Alone(Store) => OwnRecord(Store)
  BY DEF Alone, Own, OwnRecord
<1> QED
  BY <1>1, <1>2, <1>3, OwnershipInvariant, PTL DEF Spec

(* So the ownership file is verified exactly as the daemon promises: among all its
   clients, crashes and late requests too, verify tells the newest envelope, and no
   other record ever stands in its way. *)
THEOREM OwnershipIsFresh ==
  Spec => [](FreshIffNewest /\ HighestIsAccepted /\ NumbersAreUnique /\ OwnRecord(Store))
BY OwnershipUsesSigner, OwnershipRecordIsOwn, SignerIsFresh, SignerRecovers, SignerNumbersUnique, PTL
=============================================================================
