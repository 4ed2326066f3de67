------------------------------- MODULE WorkerCaps -------------------------------
(***************************************************************************)
(* The capability files and the shared credential of isolated workers:        *)
(* dispatchWorker stages a capability and has root install it (server.mjs),   *)
(* executeReleaseWorker has it purged (lib/release-worker.mjs), and every     *)
(* wrapper of a worker seeds on its own.  All of them run the same privileged *)
(* script (deploy/linux/orca-seed-worker-creds), several at a time.          *)
(*                                                                         *)
(* Every dispatch is an isolated one of a client of its own, so nothing       *)
(* serialises two of them.  A task is identified with its dispatch.          *)
(***************************************************************************)
EXTENDS Naturals

CONSTANTS Dispatches, NoDispatch, MaxRestarts

ASSUME CapsAssumption == NoDispatch \notin Dispatches /\ MaxRestarts \in Nat

VARIABLES
  pc,         (* the bridge's part: dispatchWorker, then executeReleaseWorker *)
  row, disk,  (* status of the registry row, and of its persisted copy      *)
  agent,      (* the wrapper and the agent it turns into                    *)
  stage, markers,        (* cap-stage: the staged capabilities, the markers *)
  caps, current,         (* worker-caps, and ~/.orca-worker/current-cap.json *)
  auth,       (* the shared credential is in the worker's home              *)
  helper,     (* the runs of the privileged script                          *)
  keep, clean,           (* releases that spare the credential; that have   *)
                         (* not failed so far                               *)
  restarts,
  unrecorded, (* history: dispatches being released, or not on record while *)
              (* a purge of everything was decided or under way             *)
  purged,     (* history: dispatches whose last release purged cleanly      *)
  mishap      (* history: a dispatch failed, a restart, a release beside    *)
              (* another one or without a purge                             *)

files == <<stage, markers, caps, current, auth>>
histories == <<unrecorded, purged, mishap>>
vars == <<pc, row, disk, agent, files, helper, keep, clean, restarts, histories>>

Runs    == {"mint", "wrapper", "release"} \X Dispatches
Bound   == "bound"
Running(d)   == agent[d] = "running"
Releasing(d) == pc[d] \in {"marking", "purging"}
PurgePending == \E d \in Dispatches : Releasing(d) /\ d \notin keep

Init ==
  /\ pc = [d \in Dispatches |-> "none"]
  /\ row = [d \in Dispatches |-> "none"] /\ disk = row
  /\ agent = [d \in Dispatches |-> "none"]
  /\ stage = {} /\ markers = {} /\ caps = {} /\ current = NoDispatch
  /\ auth = FALSE
  /\ helper = [r \in Runs |-> "off"]
  /\ keep = {} /\ clean = {}
  /\ restarts = 0
  /\ unrecorded = {} /\ purged = {} /\ mishap = FALSE

Goto(d, label)   == pc' = [pc EXCEPT ![d] = label]
Launch(r, phase) == helper' = [helper EXCEPT ![r] = phase]

-----------------------------------------------------------------------------
(* dispatchWorker. *)

(* terminal create --command <wrapper>: the wrapper runs seed at once. *)
Place(d) ==
  /\ pc[d] = "none"
  /\ Goto(d, "placed")
  /\ agent' = [agent EXCEPT ![d] = "seeding"]
  /\ Launch(<<"wrapper", d>>, "markers")
  /\ unrecorded' = IF PurgePending THEN unrecorded \cup {d} ELSE unrecorded
  /\ UNCHANGED <<row, disk, files, keep, clean, restarts, purged, mishap>>

(* dispatch-bind yields the dispatch id; mintAndInstallWorkerCap stages the
   capability and runs seed. *)
Stage(d) ==
  /\ pc[d] = "placed"
  /\ Goto(d, "minting")
  /\ stage' = stage \cup {d}
  /\ Launch(<<"mint", d>>, "markers")
  /\ UNCHANGED <<row, disk, agent, markers, caps, current, auth, keep, clean, restarts,
                 histories>>

(* A failure is noted in the steps, and the dispatch goes on. *)
MintReturns(d) ==
  /\ pc[d] = "minting" /\ helper[<<"mint", d>>] \in {"done", "failed"}
  /\ Goto(d, "waiting")
  /\ Launch(<<"mint", d>>, "off")
  /\ UNCHANGED <<row, disk, agent, files, keep, clean, restarts, histories>>

(* dispatch-bind fails, or the agent's TUI does not come up in time: the
   dispatch returns unbound, the wrapper and the capability are left. *)
DispatchFails(d) ==
  /\ pc[d] \in {"placed", "waiting"}
  /\ Goto(d, "lost")
  /\ mishap' = TRUE
  /\ UNCHANGED <<row, disk, agent, files, helper, keep, clean, restarts, unrecorded, purged>>

(* A bug bindOwnedDispatch could have: a status that nobody knows. *)
BindUnknown(d) ==
  /\ pc[d] = "waiting" /\ agent[d] \in {"running", "finished"}
  /\ Goto(d, Bound)
  /\ row' = [row EXCEPT ![d] = "placed"]
  /\ disk' = row'
  /\ UNCHANGED <<agent, files, helper, keep, clean, restarts, histories>>

(* bindOwnedDispatch, once the TUI is up: the snapshot it persists has the
   present status of every row; a snapshot that cannot be written is let go. *)
Bind(d) ==
  /\ pc[d] = "waiting" /\ agent[d] \in {"running", "finished"}
  /\ Goto(d, Bound)
  /\ row' = [row EXCEPT ![d] = "running"]
  /\ disk' \in {row', disk}
  /\ UNCHANGED <<agent, files, helper, keep, clean, restarts, histories>>

(* awaitDispatch: the row takes the type of the last message as its status. *)
Await(d) ==
  /\ pc[d] = Bound
  /\ row' = [row EXCEPT ![d] = "message"]
  /\ UNCHANGED <<pc, disk, agent, files, helper, keep, clean, restarts, histories>>

-----------------------------------------------------------------------------
(* The wrapper and its agent. *)

(* The wrapper waits for the by-task pointer, then becomes the agent. *)
AgentStarts(d) ==
  /\ agent[d] = "seeding" /\ helper[<<"wrapper", d>>] = "done"
  /\ d \in caps
  /\ agent' = [agent EXCEPT ![d] = "running"]
  /\ Launch(<<"wrapper", d>>, "off")
  /\ UNCHANGED <<pc, row, disk, files, keep, clean, restarts, histories>>

(* seed failed, or the pointer did not show up in time. *)
WrapperExits(d) ==
  /\ agent[d] = "seeding" /\ helper[<<"wrapper", d>>] \in {"done", "failed"}
  /\ agent' = [agent EXCEPT ![d] = "gone"]
  /\ Launch(<<"wrapper", d>>, "off")
  /\ UNCHANGED <<pc, row, disk, files, keep, clean, restarts, histories>>

AgentFinishes(d) ==
  /\ Running(d)
  /\ agent' = [agent EXCEPT ![d] = "finished"]
  /\ UNCHANGED <<pc, row, disk, files, helper, keep, clean, restarts, histories>>

-----------------------------------------------------------------------------
(* executeReleaseWorker; its client owns the dispatch (module DispatchOwnership). *)

(* worker-release succeeds: the row says released and nothing is purged. *)
WorkerRelease(d) ==
  /\ pc[d] = Bound
  /\ row' = [row EXCEPT ![d] = "released"]
  /\ agent' = [agent EXCEPT ![d] = "gone"]
  /\ mishap' = TRUE
  /\ UNCHANGED <<pc, disk, files, helper, keep, clean, restarts, unrecorded, purged>>

(* Bugs otherLiveIsolated could have: it counts the dispatch itself, it looks
   for another status, or it is never set. *)
SelfCounted(d) == \E o \in Dispatches : row[o] = "running"
NeverLive(d)   == FALSE

OtherLiveIsolated(d) == \E o \in Dispatches \ {d} : row[o] = "running"

(* terminal close has answered: decide what to purge, leave the marker. *)
Close(d) ==
  /\ pc[d] = Bound
  /\ \E ok \in BOOLEAN :
       /\ clean' = IF ok THEN clean \cup {d} ELSE clean \ {d}
       /\ agent' = IF ok THEN [agent EXCEPT ![d] = "gone"] ELSE agent
  /\ keep' = IF OtherLiveIsolated(d) THEN keep \cup {d} ELSE keep \ {d}
  /\ markers' = markers \cup {d}
  /\ Launch(<<"release", d>>, "markers")
  /\ Goto(d, "marking")
  /\ unrecorded' = unrecorded \cup {d} \cup
       {o \in Dispatches : d \notin keep' /\ pc[o] # "none" /\ row[o] = "none"}
  /\ mishap' = (mishap \/ \E o \in Dispatches : Releasing(o))
  /\ UNCHANGED <<row, disk, stage, caps, current, auth, restarts, purged>>

Settle(d, ok) ==
  /\ row' = [row EXCEPT ![d] = IF ok THEN "released" ELSE "release_failed"]
  /\ purged' = IF ok THEN purged \cup {d} ELSE purged \ {d}
  /\ Goto(d, Bound)

(* markWorkerCapPurge returns; with creds === false that was all. *)
MarkReturns(d) ==
  LET ok == d \in clean /\ helper[<<"release", d>>] = "done"
  IN  /\ pc[d] = "marking" /\ helper[<<"release", d>>] \in {"done", "failed"}
      /\ clean' = IF ok THEN clean ELSE clean \ {d}
      /\ \/ /\ d \in keep
            /\ Settle(d, ok)
            /\ Launch(<<"release", d>>, "off")
         \/ /\ d \notin keep
            /\ Goto(d, "purging")
            /\ Launch(<<"release", d>>, "markers of purge")
            /\ UNCHANGED <<row, purged>>
      /\ UNCHANGED <<disk, agent, files, keep, restarts, unrecorded, mishap>>

PurgeReturns(d) ==
  /\ pc[d] = "purging" /\ helper[<<"release", d>>] \in {"done", "failed"}
  /\ Settle(d, d \in clean /\ helper[<<"release", d>>] = "done")
  /\ Launch(<<"release", d>>, "off")
  /\ UNCHANGED <<disk, agent, files, keep, clean, restarts, unrecorded, mishap>>

-----------------------------------------------------------------------------
(* orca-seed-worker-creds, one step for each part; runs interleave. *)

(* A bug the removal of a capability could have: only the pointer in the worker's
   home goes. *)
RemovePointerOnly(ds) ==
  /\ current' = IF current \in ds THEN NoDispatch ELSE current
  /\ UNCHANGED caps

(* remove_one_cap: the file, its by-task pointer, and current-cap.json if it is
   that dispatch's. *)
RemoveCaps(ds) ==
  /\ caps' = caps \ ds
  /\ current' = IF current \in ds THEN NoDispatch ELSE current

ProcessMarkers(r) ==
  /\ \/ helper[r] = "markers" /\ Launch(r, "install")
     \/ helper[r] = "markers of purge" /\ Launch(r, "wipe")
  /\ RemoveCaps(markers)
  /\ markers' = {}
  /\ UNCHANGED <<pc, row, disk, agent, stage, auth, keep, clean, restarts, histories>>

(* install_staged_caps: the last one installed becomes current-cap.json. *)
InstallStaged(r) ==
  /\ helper[r] = "install" /\ Launch(r, "auth")
  /\ caps' = caps \cup stage
  /\ stage' = {}
  /\ IF stage = {} THEN UNCHANGED current ELSE current' \in stage
  /\ UNCHANGED <<pc, row, disk, agent, markers, auth, keep, clean, restarts, histories>>

SeedAuth(r) ==
  /\ helper[r] = "auth" /\ Launch(r, "done")
  /\ auth' = TRUE
  /\ UNCHANGED <<pc, row, disk, agent, stage, markers, caps, current, keep, clean, restarts,
                 histories>>

PurgeAllCaps(r) ==
  /\ helper[r] = "wipe" /\ Launch(r, "unauth")
  /\ stage' = {} /\ markers' = {} /\ caps' = {} /\ current' = NoDispatch
  /\ UNCHANGED <<pc, row, disk, agent, auth, keep, clean, restarts, histories>>

RemoveAuth(r) ==
  /\ helper[r] = "unauth" /\ Launch(r, "done")
  /\ auth' = FALSE
  /\ UNCHANGED <<pc, row, disk, agent, stage, markers, caps, current, keep, clean, restarts,
                 histories>>

(* sudo refuses, or the bridge's own credential is missing or unfit. *)
HelperFails(r) ==
  /\ helper[r] \in {"markers", "auth", "markers of purge"}
  /\ Launch(r, "failed")
  /\ UNCHANGED <<pc, row, disk, agent, files, keep, clean, restarts, histories>>

-----------------------------------------------------------------------------

(* systemd restarts the bridge with its children; the wrappers belong to the
   runtime.  A persisted row comes back with its persisted status. *)
Restart ==
  /\ restarts < MaxRestarts
  /\ restarts' = restarts + 1
  /\ mishap' = TRUE
  /\ row' = disk
  /\ pc' = [d \in Dispatches |-> IF pc[d] = "none" THEN "none"
                                ELSE IF disk[d] # "none" THEN Bound ELSE "lost"]
  /\ helper' = [r \in Runs |-> IF r[1] = "wrapper" THEN helper[r] ELSE "off"]
  /\ UNCHANGED <<disk, agent, files, keep, clean, unrecorded, purged>>

Next ==
  \/ \E d \in Dispatches : Place(d)
  \/ \E d \in Dispatches : Stage(d)
  \/ \E d \in Dispatches : MintReturns(d)
  \/ \E d \in Dispatches : DispatchFails(d)
  \/ \E d \in Dispatches : Bind(d)
  \/ \E d \in Dispatches : Await(d)
  \/ \E d \in Dispatches : AgentStarts(d)
  \/ \E d \in Dispatches : WrapperExits(d)
  \/ \E d \in Dispatches : AgentFinishes(d)
  \/ \E d \in Dispatches : WorkerRelease(d)
  \/ \E d \in Dispatches : Close(d)
  \/ \E d \in Dispatches : MarkReturns(d)
  \/ \E d \in Dispatches : PurgeReturns(d)
  \/ \E r \in Runs : ProcessMarkers(r)
  \/ \E r \in Runs : InstallStaged(r)
  \/ \E r \in Runs : SeedAuth(r)
  \/ \E r \in Runs : PurgeAllCaps(r)
  \/ \E r \in Runs : RemoveAuth(r)
  \/ \E r \in Runs : HelperFails(r)
  \/ Restart

Spec == Init /\ [][Next]_vars

-----------------------------------------------------------------------------

Status == {"none", "running", "message", "released", "release_failed"}
Phases == {"off", "markers", "install", "auth", "markers of purge", "wipe", "unauth", "done",
           "failed"}

(* Every variable stays in its type. *)
TypeOK ==
  /\ pc \in [Dispatches -> {"none", "placed", "minting", "waiting", Bound, "lost", "marking",
                            "purging"}]
  /\ row \in [Dispatches -> Status] /\ disk \in [Dispatches -> Status]
  /\ agent \in [Dispatches -> {"none", "seeding", "running", "finished", "gone"}]
  /\ stage \subseteq Dispatches /\ markers \subseteq Dispatches /\ caps \subseteq Dispatches
  /\ current \in Dispatches \cup {NoDispatch}
  /\ auth \in BOOLEAN
  /\ helper \in [Runs -> Phases]
  /\ keep \subseteq Dispatches /\ clean \subseteq Dispatches
  /\ restarts \in 0..MaxRestarts
  /\ unrecorded \subseteq Dispatches /\ purged \subseteq Dispatches
  /\ mishap \in BOOLEAN

Keeps(d) == (auth => auth') /\ (d \in caps => d \in caps')

Live(d) == Running(d) /\ pc[d] = Bound /\ d \notin unrecorded

(* "Release skips shared-cred purge if another isolated dispatch is live": no run
   of the script takes the credential or the capability of a running worker that
   the registry lists as running, if it was on record when the purge was decided
   (executeReleaseWorker, orca-seed-worker-creds). *)
LiveKeepsCapability ==
  [][\A d \in Dispatches : Live(d) /\ row[d] = "running" => Keeps(d)]_vars

(* The same of a running worker one of whose messages was awaited. *)
ReportingKeepsCapability ==
  [][\A d \in Dispatches : Live(d) => Keeps(d)]_vars

(* What a release reported as cleanly purged stays purged: no seed of another
   dispatch, wrapper or release, late or failed, brings the capability back. *)
PurgedStaysPurged == purged \cap (caps \cup {current}) = {}

(* The one capability in the worker's home is never one that was removed, so a
   worker does not present a purged capability as its own. *)
CurrentIsInstalled == current \in caps \cup {NoDispatch}

(* Where no dispatch failed, nothing restarted and no two releases overlapped,
   the release that leaves no dispatch behind takes the credential along. *)
LastReleaseTakesCredential ==
  LET placed == {d \in Dispatches : pc[d] # "none"}
  IN  ~mishap /\ placed # {} /\ (\A d \in placed : pc[d] = Bound /\ d \in purged) => ~auth
=============================================================================
