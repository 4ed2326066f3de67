---------------------------- MODULE WorkerCapsProofs ----------------------------
(***************************************************************************)
(* Capability files for any number of isolated dispatches, restarts and runs  *)
(* of the privileged script: what a release purged does not come back, the    *)
(* capability in the worker's home is one that is installed, no purge takes   *)
(* what a recorded running worker has, and the last one leaves nothing.       *)
(***************************************************************************)
EXTENDS WorkerCaps, TLAPS

OnRecord(d) == pc[d] \in {Bound, "marking", "purging"}

(* A capability is staged once, before the dispatch is on record, and leaves the
   stage when it is installed. *)
StageInv ==
  \A d \in Dispatches :
    /\ pc[d] \in {"none", "placed"} =>
         d \notin stage \cup caps /\ agent[d] \notin {"running", "finished"}
    /\ d \in stage => d \notin caps /\ agent[d] \notin {"running", "finished"}
    /\ OnRecord(d) => d \notin stage /\ row[d] # "none"
    /\ row[d] # "none" \/ disk[d] # "none" => OnRecord(d)

(* Once the script has been past the marker of a release, its capability is gone. *)
PurgeOf(d) ==
  /\ pc[d] = "marking" =>
       helper[<<"release", d>>] \in {"markers", "install", "auth", "done", "failed"}
  /\ pc[d] = "marking" /\ helper[<<"release", d>>] = "markers" =>
       d \in markers \/ d \notin caps
  /\ pc[d] = "marking" /\ helper[<<"release", d>>] \in {"install", "auth", "done"} =>
       d \notin caps
  /\ pc[d] = "purging" /\ d \in clean => d \notin caps
  /\ d \in purged => pc[d] \notin {"none", "placed"} /\ d \notin stage \cup caps

PurgeInv == \A d \in Dispatches : PurgeOf(d)

(* Which run of the script is where: the parts of a seed run for a mint, a wrapper or
   the marker of a release, those of a purge for a release that purges everything. *)
RunOf(d) ==
  /\ helper[<<"mint", d>>] # "off" => pc[d] = "minting"
  /\ helper[<<"wrapper", d>>] # "off" => agent[d] = "seeding"
  /\ OnRecord(d) => agent[d] # "seeding"
  /\ \A k \in {"mint", "wrapper"} :
       helper[<<k, d>>] \notin {"markers of purge", "wipe", "unauth"}
  /\ helper[<<"release", d>>] \in {"markers", "install", "auth"} => pc[d] = "marking"
  /\ helper[<<"release", d>>] \in {"markers of purge", "wipe", "unauth"} =>
       pc[d] = "purging" /\ d \notin keep

RunInv == \A d \in Dispatches : RunOf(d)

(* While everything is to be purged or is being purged, whoever runs is unrecorded. *)
PurgeSees(d) ==
  /\ d \in markers => d \in unrecorded
  /\ PurgePending /\ pc[d] # "none" /\ row[d] \in {"none", "running"} => d \in unrecorded

PurgeSeesInv == \A d \in Dispatches : PurgeSees(d)

(* A dispatch that still has use for the credential. *)
Unfinished(d) == pc[d] # "none" /\ (pc[d] = Bound => d \notin purged)

(* Where no dispatch failed, nothing restarted and no two releases overlapped: releases
   come one by one, after the seeds of their dispatch. *)
CalmOf(d) ==
  /\ pc[d] \in {"none", "placed", "minting", "waiting"} => d \notin purged
  /\ row[d] = "running" => d \notin purged
  /\ agent[d] = "seeding" => pc[d] \in {"placed", "minting", "waiting"}
  /\ Releasing(d) => \A o \in Dispatches \ {d} : ~Releasing(o)

CalmInv == ~mishap => \A d \in Dispatches : CalmOf(d)

(* The credential is there for a dispatch that is not finished; a release that spares
   it, or that finds it again after its purge, leaves another such dispatch. *)
Again(d) == pc[d] = "purging" /\ helper[<<"release", d>>] = "done" /\ auth
NeededBeside(d) == \E o \in Dispatches \ {d} : Unfinished(o)
Needs ==
  /\ \A d \in Dispatches : (Releasing(d) /\ d \in keep) \/ Again(d) => NeededBeside(d)
  /\ auth => \E d \in Dispatches : Unfinished(d)

NeedInv == ~mishap => Needs

CapsInv == TypeOK /\ StageInv /\ PurgeInv /\ CurrentIsInstalled /\ RunInv
             /\ PurgeSeesInv /\ CalmInv /\ NeedInv

(* No step of the bridge, of a wrapper or of the script leaves the types. *)
LEMMA TypeStep == ASSUME TypeOK, [Next]_vars PROVE TypeOK'
<1> USE CapsAssumption DEF TypeOK, Status, Phases, Runs, Bound, Releasing, Running
<1>1. ASSUME NEW d \in Dispatches, Place(d) PROVE TypeOK'
  BY <1>1 DEF Place, Goto, Launch, files, histories
<1>2. ASSUME NEW d \in Dispatches, Stage(d) PROVE TypeOK'
  BY <1>2 DEF Stage, Goto, Launch, files, histories
<1>3. ASSUME NEW d \in Dispatches, MintReturns(d) PROVE TypeOK'
  BY <1>3 DEF MintReturns, Goto, Launch, files, histories
<1>4. ASSUME NEW d \in Dispatches, DispatchFails(d) PROVE TypeOK'
  BY <1>4 DEF DispatchFails, Goto, files, histories
<1>5. ASSUME NEW d \in Dispatches, Bind(d) PROVE TypeOK'
  BY <1>5 DEF Bind, Goto, files, histories
<1>6. ASSUME NEW d \in Dispatches, Await(d) PROVE TypeOK'
  BY <1>6 DEF Await, files, histories
<1>7. ASSUME NEW d \in Dispatches, AgentStarts(d) PROVE TypeOK'
  BY <1>7 DEF AgentStarts, Launch, files, histories
<1>8. ASSUME NEW d \in Dispatches, WrapperExits(d) PROVE TypeOK'
  BY <1>8 DEF WrapperExits, Launch, files, histories
<1>9. ASSUME NEW d \in Dispatches, AgentFinishes(d) PROVE TypeOK'
  BY <1>9 DEF AgentFinishes, files, histories
<1>10. ASSUME NEW d \in Dispatches, WorkerRelease(d) PROVE TypeOK'
  BY <1>10 DEF WorkerRelease, files, histories
<1>11. ASSUME NEW d \in Dispatches, Close(d) PROVE TypeOK'
  BY <1>11 DEF Close, Goto, Launch, files, histories
<1>12. ASSUME NEW d \in Dispatches, MarkReturns(d) PROVE TypeOK'
  <2> DEFINE ok == d \in clean /\ helper[<<"release", d>>] = "done"
  <2>1. clean' \subseteq Dispatches
    <3>1. clean' = clean \/ clean' = clean \ {d}
      BY <1>12 DEF MarkReturns
    <3>2. QED
      BY <3>1
  <2>2. CASE /\ Settle(d, ok)
             /\ Launch(<<"release", d>>, "off")
    BY <1>12, <2>1, <2>2 DEF MarkReturns, Goto, Launch, Settle, files
  <2>3. CASE /\ Goto(d, "purging")
             /\ Launch(<<"release", d>>, "markers of purge")
             /\ UNCHANGED <<row, purged>>
    BY <1>12, <2>1, <2>3 DEF MarkReturns, Goto, Launch, files
  <2>4. QED
    BY <1>12, <2>2, <2>3 DEF MarkReturns
<1>13. ASSUME NEW d \in Dispatches, PurgeReturns(d) PROVE TypeOK'
  BY <1>13 DEF PurgeReturns, Goto, Launch, Settle, files, histories
<1>14. ASSUME NEW r \in Runs, ProcessMarkers(r) PROVE TypeOK'
  BY <1>14 DEF ProcessMarkers, Launch, RemoveCaps, files, histories
<1>15. ASSUME NEW r \in Runs, InstallStaged(r) PROVE TypeOK'
  BY <1>15 DEF InstallStaged, Launch, files, histories
<1>16. ASSUME NEW r \in Runs, SeedAuth(r) PROVE TypeOK'
  BY <1>16 DEF SeedAuth, Launch, files, histories
<1>17. ASSUME NEW r \in Runs, PurgeAllCaps(r) PROVE TypeOK'
  BY <1>17 DEF PurgeAllCaps, Launch, files, histories
<1>18. ASSUME NEW r \in Runs, RemoveAuth(r) PROVE TypeOK'
  BY <1>18 DEF RemoveAuth, Launch, files, histories
<1>19. ASSUME NEW r \in Runs, HelperFails(r) PROVE TypeOK'
  BY <1>19 DEF HelperFails, Launch, files, histories
<1>20. CASE Restart
  <2>1. pc' \in [Dispatches -> {"none", Bound, "lost"}]
    BY <1>20 DEF Restart
  <2>2. helper' \in [Runs -> Phases]
    <3>1. \A r \in Runs : helper[r] \in Phases
      BY DEF Runs
    <3>2. QED
      BY <1>20, <3>1 DEF Restart, Phases
  <2>3. restarts' \in 0..MaxRestarts
    <3>1. restarts \in 0..MaxRestarts /\ restarts < MaxRestarts /\ restarts' = restarts + 1
      BY <1>20 DEF Restart
    <3>2. MaxRestarts \in Nat
      BY CapsAssumption
    <3> HIDE DEF TypeOK
    <3>3. QED
      BY <3>1, <3>2
  <2>4. auth' \in BOOLEAN /\ mishap' \in BOOLEAN
    <3>1. auth' = auth /\ mishap' = TRUE
      BY <1>20 DEF Restart, files
    <3>2. QED
      BY <3>1, Zenon
  <2>5. QED
    BY <1>20, <2>1, <2>2, <2>3, <2>4 DEF Restart, files
<1>21. CASE UNCHANGED vars
  BY <1>21 DEF vars, files, histories, files, histories
<1>22. QED
  BY <1>1, <1>2, <1>3, <1>4, <1>5, <1>6, <1>7, <1>8, <1>9, <1>10,
     <1>11, <1>12, <1>13, <1>14, <1>15, <1>16, <1>17, <1>18, <1>19, <1>20, <1>21 DEF Next

(* A capability is installed at most once, before its dispatch is on record. *)
LEMMA StageStep == ASSUME TypeOK, StageInv, [Next]_vars PROVE StageInv'
<1> USE DEF TypeOK, StageInv, OnRecord, Bound, Running
<1>1. ASSUME NEW d \in Dispatches, Place(d) PROVE StageInv'
  BY <1>1 DEF Place, Goto, Launch, files, histories
<1>2. ASSUME NEW d \in Dispatches, Stage(d) PROVE StageInv'
  BY <1>2 DEF Stage, Goto, Launch, files, histories
<1>3. ASSUME NEW d \in Dispatches, MintReturns(d) PROVE StageInv'
  BY <1>3 DEF MintReturns, Goto, Launch, files, histories
<1>4. ASSUME NEW d \in Dispatches, DispatchFails(d) PROVE StageInv'
  BY <1>4 DEF DispatchFails, Goto, files, histories
<1>5. ASSUME NEW d \in Dispatches, Bind(d) PROVE StageInv'
  BY <1>5 DEF Bind, Goto, files, histories
<1>6. ASSUME NEW d \in Dispatches, Await(d) PROVE StageInv'
  BY <1>6 DEF Await, files, histories
<1>7. ASSUME NEW d \in Dispatches, AgentStarts(d) PROVE StageInv'
  BY <1>7 DEF AgentStarts, Launch, files, histories
<1>8. ASSUME NEW d \in Dispatches, WrapperExits(d) PROVE StageInv'
  BY <1>8 DEF WrapperExits, Launch, files, histories
<1>9. ASSUME NEW d \in Dispatches, AgentFinishes(d) PROVE StageInv'
  BY <1>9 DEF AgentFinishes, files, histories
<1>10. ASSUME NEW d \in Dispatches, WorkerRelease(d) PROVE StageInv'
  BY <1>10 DEF WorkerRelease, files, histories
<1>11. ASSUME NEW d \in Dispatches, Close(d) PROVE StageInv'
  BY <1>11 DEF Close, Goto, Launch, files, histories
<1>12. ASSUME NEW d \in Dispatches, MarkReturns(d) PROVE StageInv'
  BY <1>12 DEF MarkReturns, Goto, Launch, Settle, files, histories
<1>13. ASSUME NEW d \in Dispatches, PurgeReturns(d) PROVE StageInv'
  BY <1>13 DEF PurgeReturns, Goto, Launch, Settle, files, histories
<1>14. ASSUME NEW r \in Runs, ProcessMarkers(r) PROVE StageInv'
  BY <1>14 DEF ProcessMarkers, Launch, RemoveCaps, files, histories
<1>15. ASSUME NEW r \in Runs, InstallStaged(r) PROVE StageInv'
  BY <1>15 DEF InstallStaged, Launch, files, histories
<1>16. ASSUME NEW r \in Runs, SeedAuth(r) PROVE StageInv'
  BY <1>16 DEF SeedAuth, Launch, files, histories
<1>17. ASSUME NEW r \in Runs, PurgeAllCaps(r) PROVE StageInv'
  BY <1>17 DEF PurgeAllCaps, Launch, files, histories
<1>18. ASSUME NEW r \in Runs, RemoveAuth(r) PROVE StageInv'
  BY <1>18 DEF RemoveAuth, Launch, files, histories
<1>19. ASSUME NEW r \in Runs, HelperFails(r) PROVE StageInv'
  BY <1>19 DEF HelperFails, Launch, files, histories
<1>20. CASE Restart
  BY <1>20 DEF Restart, files, histories
<1>21. CASE UNCHANGED vars
  BY <1>21 DEF vars, files, histories, files, histories
<1>22. QED
  BY <1>1, <1>2, <1>3, <1>4, <1>5, <1>6, <1>7, <1>8, <1>9, <1>10,
     <1>11, <1>12, <1>13, <1>14, <1>15, <1>16, <1>17, <1>18, <1>19, <1>20, <1>21 DEF Next

(* A purged capability is not installed again. *)
LEMMA PurgeStep == ASSUME TypeOK, StageInv, PurgeInv, [Next]_vars PROVE PurgeInv'
<1> USE DEF TypeOK, StageInv, PurgeInv, PurgeOf, OnRecord, Bound, Running, Runs
<1>1. ASSUME NEW d \in Dispatches, Place(d) PROVE PurgeInv'
  BY <1>1 DEF Place, Goto, Launch, files, histories
<1>2. ASSUME NEW d \in Dispatches, Stage(d) PROVE PurgeInv'
  BY <1>2 DEF Stage, Goto, Launch, files, histories
<1>3. ASSUME NEW d \in Dispatches, MintReturns(d) PROVE PurgeInv'
  BY <1>3 DEF MintReturns, Goto, Launch, files, histories
<1>4. ASSUME NEW d \in Dispatches, DispatchFails(d) PROVE PurgeInv'
  BY <1>4 DEF DispatchFails, Goto, files, histories
<1>5. ASSUME NEW d \in Dispatches, Bind(d) PROVE PurgeInv'
  BY <1>5 DEF Bind, Goto, files, histories
<1>6. ASSUME NEW d \in Dispatches, Await(d) PROVE PurgeInv'
  BY <1>6 DEF Await, files, histories
<1>7. ASSUME NEW d \in Dispatches, AgentStarts(d) PROVE PurgeInv'
  BY <1>7 DEF AgentStarts, Launch, files, histories
<1>8. ASSUME NEW d \in Dispatches, WrapperExits(d) PROVE PurgeInv'
  BY <1>8 DEF WrapperExits, Launch, files, histories
<1>9. ASSUME NEW d \in Dispatches, AgentFinishes(d) PROVE PurgeInv'
  BY <1>9 DEF AgentFinishes, files, histories
<1>10. ASSUME NEW d \in Dispatches, WorkerRelease(d) PROVE PurgeInv'
  BY <1>10 DEF WorkerRelease, files, histories
<1>11. ASSUME NEW d \in Dispatches, Close(d) PROVE PurgeInv'
  BY <1>11 DEF Close, Goto, Launch, files, histories
<1>12. ASSUME NEW d \in Dispatches, MarkReturns(d) PROVE PurgeInv'
  <2> SUFFICES ASSUME NEW o \in Dispatches PROVE PurgeOf(o)'
    OBVIOUS
  <2>1. helper'[<<"release", o>>] = helper[<<"release", o>>] \/ o = d
    BY <1>12 DEF MarkReturns, Launch
  <2>2. UNCHANGED <<caps, markers, stage>>
    BY <1>12 DEF MarkReturns, files
  <2>3. CASE o # d
    BY <1>12, <2>1, <2>2, <2>3 DEF MarkReturns, Goto, Settle
  <2>4. CASE o = d
    <3>1. pc'[d] # "marking"
      BY <1>12 DEF MarkReturns, Goto, Settle
    <3>2. helper[<<"release", d>>] = "done" => d \notin caps
      BY <1>12 DEF MarkReturns
    <3>3. d \in clean' => d \notin caps
      BY <1>12, <3>2 DEF MarkReturns
    <3>4. d \in purged' => pc'[d] # "none" /\ pc'[d] # "placed" /\ d \notin stage' \cup caps
      BY <1>12, <3>2 DEF MarkReturns, Goto, Settle, files
    <3>5. QED
      BY <2>2, <2>4, <3>1, <3>3, <3>4
  <2>5. QED
    BY <2>3, <2>4
<1>13. ASSUME NEW d \in Dispatches, PurgeReturns(d) PROVE PurgeInv'
  BY <1>13 DEF PurgeReturns, Goto, Launch, Settle, files, histories
<1>14. ASSUME NEW r \in Runs, ProcessMarkers(r) PROVE PurgeInv'
  <2>1. /\ UNCHANGED <<pc, clean, purged, stage>>
        /\ caps' = caps \ markers /\ markers' = {}
    BY <1>14 DEF ProcessMarkers, RemoveCaps, histories
  <2>2. ASSUME NEW o \in Dispatches, pc[o] = "marking", r = <<"release", o>>
        PROVE  helper'[<<"release", o>>] = "install" /\ o \notin caps'
    BY <1>14, <2>1, <2>2 DEF ProcessMarkers, Launch
  <2>3. ASSUME NEW o \in Dispatches, r # <<"release", o>>
        PROVE  helper'[<<"release", o>>] = helper[<<"release", o>>]
    <3>1. <<"release", o>> \in Runs
      OBVIOUS
    <3>2. /\ helper \in [Runs -> Phases]
          /\ \E phase \in Phases : helper' = [helper EXCEPT ![r] = phase]
      BY <1>14 DEF ProcessMarkers, Launch, Phases
    <3>3. QED
      BY <2>3, <3>1, <3>2
  <2>4. QED
    BY <2>1, <2>2, <2>3
<1>15. ASSUME NEW r \in Runs, InstallStaged(r) PROVE PurgeInv'
  BY <1>15 DEF InstallStaged, Launch, files, histories
<1>16. ASSUME NEW r \in Runs, SeedAuth(r) PROVE PurgeInv'
  BY <1>16 DEF SeedAuth, Launch, files, histories
<1>17. ASSUME NEW r \in Runs, PurgeAllCaps(r) PROVE PurgeInv'
  BY <1>17 DEF PurgeAllCaps, Launch, files, histories
<1>18. ASSUME NEW r \in Runs, RemoveAuth(r) PROVE PurgeInv'
  BY <1>18 DEF RemoveAuth, Launch, files, histories
<1>19. ASSUME NEW r \in Runs, HelperFails(r) PROVE PurgeInv'
  BY <1>19 DEF HelperFails, Launch, files, histories
<1>20. CASE Restart
  BY <1>20 DEF Restart, files, histories
<1>21. CASE UNCHANGED vars
  BY <1>21 DEF vars, files, histories, files, histories
<1>22. QED
  BY <1>1, <1>2, <1>3, <1>4, <1>5, <1>6, <1>7, <1>8, <1>9, <1>10,
     <1>11, <1>12, <1>13, <1>14, <1>15, <1>16, <1>17, <1>18, <1>19, <1>20, <1>21 DEF Next

(* The capability in the home is removed with its file. *)
LEMMA CurrentStep == ASSUME TypeOK, CurrentIsInstalled, [Next]_vars PROVE CurrentIsInstalled'
<1> USE DEF TypeOK, CurrentIsInstalled
<1>1. ASSUME NEW d \in Dispatches, Place(d) PROVE CurrentIsInstalled'
  BY <1>1 DEF Place, Goto, Launch, files, histories
<1>2. ASSUME NEW d \in Dispatches, Stage(d) PROVE CurrentIsInstalled'
  BY <1>2 DEF Stage, Goto, Launch, files, histories
<1>3. ASSUME NEW d \in Dispatches, MintReturns(d) PROVE CurrentIsInstalled'
  BY <1>3 DEF MintReturns, Goto, Launch, files, histories
<1>4. ASSUME NEW d \in Dispatches, DispatchFails(d) PROVE CurrentIsInstalled'
  BY <1>4 DEF DispatchFails, Goto, files, histories
<1>5. ASSUME NEW d \in Dispatches, Bind(d) PROVE CurrentIsInstalled'
  BY <1>5 DEF Bind, Goto, files, histories
<1>6. ASSUME NEW d \in Dispatches, Await(d) PROVE CurrentIsInstalled'
  BY <1>6 DEF Await, files, histories
<1>7. ASSUME NEW d \in Dispatches, AgentStarts(d) PROVE CurrentIsInstalled'
  BY <1>7 DEF AgentStarts, Launch, files, histories
<1>8. ASSUME NEW d \in Dispatches, WrapperExits(d) PROVE CurrentIsInstalled'
  BY <1>8 DEF WrapperExits, Launch, files, histories
<1>9. ASSUME NEW d \in Dispatches, AgentFinishes(d) PROVE CurrentIsInstalled'
  BY <1>9 DEF AgentFinishes, files, histories
<1>10. ASSUME NEW d \in Dispatches, WorkerRelease(d) PROVE CurrentIsInstalled'
  BY <1>10 DEF WorkerRelease, files, histories
<1>11. ASSUME NEW d \in Dispatches, Close(d) PROVE CurrentIsInstalled'
  BY <1>11 DEF Close, Goto, Launch, files, histories
<1>12. ASSUME NEW d \in Dispatches, MarkReturns(d) PROVE CurrentIsInstalled'
  BY <1>12 DEF MarkReturns, Goto, Launch, Settle, files, histories
<1>13. ASSUME NEW d \in Dispatches, PurgeReturns(d) PROVE CurrentIsInstalled'
  BY <1>13 DEF PurgeReturns, Goto, Launch, Settle, files, histories
<1>14. ASSUME NEW r \in Runs, ProcessMarkers(r) PROVE CurrentIsInstalled'
  BY <1>14 DEF ProcessMarkers, Launch, RemoveCaps, files, histories
<1>15. ASSUME NEW r \in Runs, InstallStaged(r) PROVE CurrentIsInstalled'
  BY <1>15 DEF InstallStaged, Launch, files, histories
<1>16. ASSUME NEW r \in Runs, SeedAuth(r) PROVE CurrentIsInstalled'
  BY <1>16 DEF SeedAuth, Launch, files, histories
<1>17. ASSUME NEW r \in Runs, PurgeAllCaps(r) PROVE CurrentIsInstalled'
  BY <1>17 DEF PurgeAllCaps, Launch, files, histories
<1>18. ASSUME NEW r \in Runs, RemoveAuth(r) PROVE CurrentIsInstalled'
  BY <1>18 DEF RemoveAuth, Launch, files, histories
<1>19. ASSUME NEW r \in Runs, HelperFails(r) PROVE CurrentIsInstalled'
  BY <1>19 DEF HelperFails, Launch, files, histories
<1>20. CASE Restart
  BY <1>20 DEF Restart, files, histories
<1>21. CASE UNCHANGED vars
  BY <1>21 DEF vars, files, histories, files, histories
<1>22. QED
  BY <1>1, <1>2, <1>3, <1>4, <1>5, <1>6, <1>7, <1>8, <1>9, <1>10,
     <1>11, <1>12, <1>13, <1>14, <1>15, <1>16, <1>17, <1>18, <1>19, <1>20, <1>21 DEF Next

(* A run of the script is in the part its caller has asked for. *)
Script(r) == \/ ProcessMarkers(r) \/ InstallStaged(r) \/ SeedAuth(r) \/ PurgeAllCaps(r)
             \/ RemoveAuth(r) \/ HelperFails(r)

Moves == {<<"markers", "install">>, <<"install", "auth">>, <<"auth", "done">>,
          <<"markers of purge", "wipe">>, <<"wipe", "unauth">>, <<"unauth", "done">>,
          <<"markers", "failed">>, <<"auth", "failed">>, <<"markers of purge", "failed">>}

LEMMA MovesAre ==
  ASSUME NEW move \in Moves
  PROVE  /\ move[1] # "off" /\ move[2] \notin {"off", "markers", "markers of purge"}
         /\ move[2] \in {"install", "auth"} => move[1] \in {"markers", "install"}
         /\ move[2] \in {"wipe", "unauth"} => move[1] \in {"markers of purge", "wipe"}
<1>1. CASE move = <<"markers", "install">>
  BY <1>1
<1>2. CASE move = <<"install", "auth">>
  BY <1>2
<1>3. CASE move = <<"auth", "done">>
  BY <1>3
<1>4. CASE move = <<"markers of purge", "wipe">>
  BY <1>4
<1>5. CASE move = <<"wipe", "unauth">>
  BY <1>5
<1>6. CASE move = <<"unauth", "done">>
  BY <1>6
<1>7. CASE move = <<"markers", "failed">>
  BY <1>7
<1>8. CASE move = <<"auth", "failed">>
  BY <1>8
<1>9. CASE move = <<"markers of purge", "failed">>
  BY <1>9
<1> QED BY <1>1, <1>2, <1>3, <1>4, <1>5, <1>6, <1>7, <1>8, <1>9 DEF Moves

LEMMA ScriptStep ==
  ASSUME NEW r \in Runs, Script(r)
  PROVE  /\ pc' = pc /\ row' = row /\ disk' = disk /\ agent' = agent /\ keep' = keep
         /\ unrecorded' = unrecorded /\ purged' = purged /\ markers' \subseteq markers
         /\ (mishap <=> mishap')
         /\ \E move \in Moves : helper[r] = move[1] /\ helper' = [helper EXCEPT ![r] = move[2]]
<1>1. CASE ProcessMarkers(r)
  BY <1>1 DEF ProcessMarkers, Launch, Moves, histories
<1>2. CASE InstallStaged(r)
  BY <1>2 DEF InstallStaged, Launch, Moves, histories
<1>3. CASE SeedAuth(r)
  BY <1>3 DEF SeedAuth, Launch, Moves, histories
<1>4. CASE PurgeAllCaps(r)
  BY <1>4 DEF PurgeAllCaps, Launch, Moves, histories
<1>5. CASE RemoveAuth(r)
  BY <1>5 DEF RemoveAuth, Launch, Moves, histories
<1>6. CASE HelperFails(r)
  BY <1>6 DEF HelperFails, Launch, Moves, files, histories
<1> QED BY <1>1, <1>2, <1>3, <1>4, <1>5, <1>6 DEF Script

(* The parts of a run follow one another. *)
LEMMA RunStep ==
  ASSUME TypeOK, StageInv, RunInv, [Next]_vars
  PROVE  RunInv'
<1> USE DEF TypeOK, RunInv, RunOf, StageInv, OnRecord, Runs, Bound, Running
<1>1. ASSUME NEW d \in Dispatches, Place(d) PROVE RunInv'
  BY <1>1 DEF Place, Goto, Launch, files, histories
<1>2. ASSUME NEW d \in Dispatches, Stage(d) PROVE RunInv'
  BY <1>2 DEF Stage, Goto, Launch, files, histories
<1>3. ASSUME NEW d \in Dispatches, MintReturns(d) PROVE RunInv'
  BY <1>3 DEF MintReturns, Goto, Launch, files, histories
<1>4. ASSUME NEW d \in Dispatches, DispatchFails(d) PROVE RunInv'
  BY <1>4 DEF DispatchFails, Goto, files, histories
<1>5. ASSUME NEW d \in Dispatches, Bind(d) PROVE RunInv'
  BY <1>5 DEF Bind, Goto, files, histories
<1>6. ASSUME NEW d \in Dispatches, Await(d) PROVE RunInv'
  BY <1>6 DEF Await, files, histories
<1>7. ASSUME NEW d \in Dispatches, AgentStarts(d) PROVE RunInv'
  BY <1>7 DEF AgentStarts, Launch, files, histories
<1>8. ASSUME NEW d \in Dispatches, WrapperExits(d) PROVE RunInv'
  BY <1>8 DEF WrapperExits, Launch, files, histories
<1>9. ASSUME NEW d \in Dispatches, AgentFinishes(d) PROVE RunInv'
  BY <1>9 DEF AgentFinishes, files, histories
<1>10. ASSUME NEW d \in Dispatches, WorkerRelease(d) PROVE RunInv'
  BY <1>10 DEF WorkerRelease, files, histories
<1>11. ASSUME NEW d \in Dispatches, Close(d) PROVE RunInv'
  <2>1. /\ pc[d] = "bound" /\ pc' = [pc EXCEPT ![d] = "marking"]
        /\ helper' = [helper EXCEPT ![<<"release", d>>] = "markers"]
        /\ keep' = keep \cup {d} \/ keep' = keep \ {d}
        /\ agent' = agent \/ agent' = [agent EXCEPT ![d] = "gone"]
    BY <1>11 DEF Close, Goto, Launch
  <2> SUFFICES ASSUME NEW o \in Dispatches PROVE RunOf(o)'
    OBVIOUS
  <2>2. /\ helper'[<<"release", d>>] = "markers"
        /\ o # d => helper'[<<"release", o>>] = helper[<<"release", o>>]
        /\ helper'[<<"mint", o>>] = helper[<<"mint", o>>]
        /\ helper'[<<"wrapper", o>>] = helper[<<"wrapper", o>>]
    BY <2>1
  <2>3. /\ pc'[d] = "marking" /\ (o # d => pc'[o] = pc[o] /\ agent'[o] = agent[o])
        /\ agent'[d] = agent[d] \/ agent'[d] = "gone"
        /\ o # d => (o \in keep' <=> o \in keep)
    BY <2>1
  <2>6. RunOf(o) /\ RunOf(d)
    OBVIOUS
  <2> HIDE DEF TypeOK, RunInv, StageInv
  <2>4. CASE o = d
    BY <2>1, <2>2, <2>3, <2>4, <2>6
  <2>5. CASE o # d
    BY <2>1, <2>2, <2>3, <2>5, <2>6
  <2> QED BY <2>4, <2>5
<1>12. ASSUME NEW d \in Dispatches, MarkReturns(d) PROVE RunInv'
  <2>1. /\ pc[d] = "marking" /\ keep' = keep /\ agent' = agent
        /\ \/ /\ pc' = [pc EXCEPT ![d] = "bound"]
              /\ helper' = [helper EXCEPT ![<<"release", d>>] = "off"]
           \/ /\ pc' = [pc EXCEPT ![d] = "purging"] /\ d \notin keep
              /\ helper' = [helper EXCEPT ![<<"release", d>>] = "markers of purge"]
    BY <1>12 DEF MarkReturns, Goto, Launch, Settle
  <2> SUFFICES ASSUME NEW o \in Dispatches PROVE RunOf(o)'
    OBVIOUS
  <2>7. \/ pc'[d] = "bound" /\ helper'[<<"release", d>>] = "off"
        \/ pc'[d] = "purging" /\ d \notin keep /\ helper'[<<"release", d>>] = "markers of purge"
    <3>1. <<"release", d>> \in DOMAIN helper /\ d \in DOMAIN pc
      OBVIOUS
    <3> HIDE DEF TypeOK, RunInv, StageInv
    <3> QED BY <2>1, <3>1
  <2>8. \E phase : helper' = [helper EXCEPT ![<<"release", d>>] = phase]
    BY <2>1
  <2>2. /\ o # d => helper'[<<"release", o>>] = helper[<<"release", o>>]
        /\ helper'[<<"mint", o>>] = helper[<<"mint", o>>]
        /\ helper'[<<"wrapper", o>>] = helper[<<"wrapper", o>>]
    BY <2>8
  <2>3. keep' = keep /\ agent' = agent /\ (o # d => pc'[o] = pc[o])
    BY <2>1
  <2>6. RunOf(o) /\ RunOf(d)
    OBVIOUS
  <2> HIDE DEF TypeOK, RunInv, StageInv
  <2>4. CASE o = d
    BY <2>1, <2>2, <2>3, <2>4, <2>6, <2>7
  <2>5. CASE o # d
    BY <2>1, <2>2, <2>3, <2>5, <2>6, <2>7
  <2> QED BY <2>4, <2>5
<1>13. ASSUME NEW d \in Dispatches, PurgeReturns(d) PROVE RunInv'
  BY <1>13 DEF PurgeReturns, Goto, Launch, Settle, files, histories
<1>14. ASSUME NEW r \in Runs, Script(r) PROVE RunInv'
  <2>1. PICK move \in Moves : helper[r] = move[1] /\ helper' = [helper EXCEPT ![r] = move[2]]
    BY <1>14, ScriptStep
  <2>2. pc' = pc /\ agent' = agent /\ keep' = keep
    BY <1>14, ScriptStep
  <2> SUFFICES ASSUME NEW d \in Dispatches PROVE RunOf(d)'
    OBVIOUS
  <2>3. \A k \in {"mint", "wrapper", "release"} :
          \/ helper'[<<k, d>>] = helper[<<k, d>>]
          \/ helper[<<k, d>>] = move[1] /\ helper'[<<k, d>>] = move[2]
    BY <2>1
  <2> HIDE DEF TypeOK, RunInv, StageInv
  <2>4. /\ move[1] # "off" /\ move[2] \notin {"off", "markers", "markers of purge"}
        /\ move[2] \in {"install", "auth"} => move[1] \in {"markers", "install"}
        /\ move[2] \in {"wipe", "unauth"} => move[1] \in {"markers of purge", "wipe"}
    BY <2>1, MovesAre
  <2>5. RunOf(d)
    BY DEF RunInv
  <2> QED BY <2>2, <2>3, <2>4, <2>5
<1>15. CASE Restart
  BY <1>15 DEF Restart, files, histories
<1>16. CASE UNCHANGED vars
  BY <1>16 DEF vars, files, histories
<1>17. QED
  BY <1>1, <1>2, <1>3, <1>4, <1>5, <1>6, <1>7, <1>8, <1>9, <1>10,
     <1>11, <1>12, <1>13, <1>14, <1>15, <1>16 DEF Next, Script

(* No worker is on record behind the back of a purge. *)
LEMMA SeesStep ==
  ASSUME TypeOK, StageInv, PurgeSeesInv, [Next]_vars
  PROVE  PurgeSeesInv'
<1> USE DEF TypeOK, StageInv, OnRecord, PurgeSeesInv, PurgeSees, PurgePending, Releasing, Bound
<1>1. ASSUME NEW d \in Dispatches, Place(d) PROVE PurgeSeesInv'
  BY <1>1 DEF Place, Goto, Launch, files, histories
<1>2. ASSUME NEW d \in Dispatches, Stage(d) PROVE PurgeSeesInv'
  BY <1>2 DEF Stage, Goto, Launch, files, histories
<1>3. ASSUME NEW d \in Dispatches, MintReturns(d) PROVE PurgeSeesInv'
  BY <1>3 DEF MintReturns, Goto, Launch, files, histories
<1>4. ASSUME NEW d \in Dispatches, DispatchFails(d) PROVE PurgeSeesInv'
  BY <1>4 DEF DispatchFails, Goto, files, histories
<1>5. ASSUME NEW d \in Dispatches, Bind(d) PROVE PurgeSeesInv'
  BY <1>5 DEF Bind, Goto, files, histories
<1>6. ASSUME NEW d \in Dispatches, Await(d) PROVE PurgeSeesInv'
  BY <1>6 DEF Await, files, histories
<1>7. ASSUME NEW d \in Dispatches, AgentStarts(d) PROVE PurgeSeesInv'
  BY <1>7 DEF AgentStarts, Launch, files, histories
<1>8. ASSUME NEW d \in Dispatches, WrapperExits(d) PROVE PurgeSeesInv'
  BY <1>8 DEF WrapperExits, Launch, files, histories
<1>9. ASSUME NEW d \in Dispatches, AgentFinishes(d) PROVE PurgeSeesInv'
  BY <1>9 DEF AgentFinishes, files, histories
<1>10. ASSUME NEW d \in Dispatches, WorkerRelease(d) PROVE PurgeSeesInv'
  BY <1>10 DEF WorkerRelease, files, histories
<1>11. ASSUME NEW d \in Dispatches, Close(d) PROVE PurgeSeesInv'
  <2>1. /\ pc' = [pc EXCEPT ![d] = "marking"] /\ row' = row /\ markers' = markers \cup {d}
        /\ pc[d] = "bound"
    BY <1>11 DEF Close, Goto
  <2>2. /\ unrecorded \cup {d} \subseteq unrecorded'
        /\ d \notin keep' => /\ \A o \in Dispatches : pc[o] # "none" /\ row[o] = "none" => o \in unrecorded'
                             /\ \A o \in Dispatches \ {d} : row[o] # "running"
    BY <1>11 DEF Close, OtherLiveIsolated
  <2>3. \A o \in Dispatches \ {d} : o \in keep' <=> o \in keep
    BY <1>11 DEF Close
  <2> SUFFICES ASSUME NEW o \in Dispatches PROVE PurgeSees(o)'
    OBVIOUS
  <2>4. CASE d \notin keep'
    BY <2>1, <2>2, <2>4
  <2>5. CASE d \in keep'
    <3>1. PurgePending' => PurgePending
      BY <2>1, <2>3, <2>5
    <3> QED BY <2>1, <2>2, <3>1
  <2> QED BY <2>4, <2>5
<1>12. ASSUME NEW d \in Dispatches, MarkReturns(d) PROVE PurgeSeesInv'
  BY <1>12 DEF MarkReturns, Goto, Launch, Settle, files, histories
<1>13. ASSUME NEW d \in Dispatches, PurgeReturns(d) PROVE PurgeSeesInv'
  BY <1>13 DEF PurgeReturns, Goto, Launch, Settle, files, histories
<1>14. ASSUME NEW r \in Runs, Script(r) PROVE PurgeSeesInv'
  BY <1>14, ScriptStep
<1>15. CASE Restart
  BY <1>15 DEF Restart, files, histories
<1>16. CASE UNCHANGED vars
  BY <1>16 DEF vars, files, histories
<1>17. QED
  BY <1>1, <1>2, <1>3, <1>4, <1>5, <1>6, <1>7, <1>8, <1>9, <1>10,
     <1>11, <1>12, <1>13, <1>14, <1>15, <1>16 DEF Next, Script

(* A mishap is not forgotten. *)
LEMMA MishapStays == ASSUME [Next]_vars, ~mishap' PROVE ~mishap
<1>1. ASSUME NEW d \in Dispatches, Place(d) PROVE ~mishap
  BY <1>1, Zenon DEF Place, histories
<1>2. ASSUME NEW d \in Dispatches, Stage(d) PROVE ~mishap
  BY <1>2, Zenon DEF Stage, histories
<1>3. ASSUME NEW d \in Dispatches, MintReturns(d) PROVE ~mishap
  BY <1>3, Zenon DEF MintReturns, histories
<1>4. ASSUME NEW d \in Dispatches, DispatchFails(d) PROVE ~mishap
  BY <1>4, Zenon DEF DispatchFails, histories
<1>5. ASSUME NEW d \in Dispatches, Bind(d) PROVE ~mishap
  BY <1>5, Zenon DEF Bind, histories
<1>6. ASSUME NEW d \in Dispatches, Await(d) PROVE ~mishap
  BY <1>6, Zenon DEF Await, histories
<1>7. ASSUME NEW d \in Dispatches, AgentStarts(d) PROVE ~mishap
  BY <1>7, Zenon DEF AgentStarts, histories
<1>8. ASSUME NEW d \in Dispatches, WrapperExits(d) PROVE ~mishap
  BY <1>8, Zenon DEF WrapperExits, histories
<1>9. ASSUME NEW d \in Dispatches, AgentFinishes(d) PROVE ~mishap
  BY <1>9, Zenon DEF AgentFinishes, histories
<1>10. ASSUME NEW d \in Dispatches, WorkerRelease(d) PROVE ~mishap
  BY <1>10, Zenon DEF WorkerRelease, histories
<1>11. ASSUME NEW d \in Dispatches, Close(d) PROVE ~mishap
  BY <1>11, Zenon DEF Close, histories
<1>12. ASSUME NEW d \in Dispatches, MarkReturns(d) PROVE ~mishap
  BY <1>12, Zenon DEF MarkReturns, histories
<1>13. ASSUME NEW d \in Dispatches, PurgeReturns(d) PROVE ~mishap
  BY <1>13, Zenon DEF PurgeReturns, histories
<1>14. ASSUME NEW r \in Runs, Script(r) PROVE ~mishap
  BY <1>14, ScriptStep
<1>15. CASE Restart
  BY <1>15 DEF Restart
<1>16. CASE UNCHANGED vars
  BY <1>16 DEF vars, histories
<1>17. QED
  BY <1>1, <1>2, <1>3, <1>4, <1>5, <1>6, <1>7, <1>8, <1>9, <1>10,
     <1>11, <1>12, <1>13, <1>14, <1>15, <1>16 DEF Next, Script

(* Releases come one by one. *)
LEMMA CalmStep ==
  ASSUME TypeOK, StageInv, RunInv, \A d \in Dispatches : CalmOf(d), ~mishap', [Next]_vars
  PROVE  (\A o \in Dispatches : CalmOf(o))'
<1> USE DEF TypeOK, StageInv, OnRecord, CalmOf, Releasing, Bound, Running
<1>1. ASSUME NEW d \in Dispatches, Place(d) PROVE (\A o \in Dispatches : CalmOf(o))'
  BY <1>1 DEF Place, Goto, Launch, files, histories
<1>2. ASSUME NEW d \in Dispatches, Stage(d) PROVE (\A o \in Dispatches : CalmOf(o))'
  BY <1>2 DEF Stage, Goto, Launch, files, histories
<1>3. ASSUME NEW d \in Dispatches, MintReturns(d) PROVE (\A o \in Dispatches : CalmOf(o))'
  BY <1>3 DEF MintReturns, Goto, Launch, files, histories
<1>4. ASSUME NEW d \in Dispatches, DispatchFails(d) PROVE (\A o \in Dispatches : CalmOf(o))'
  BY <1>4 DEF DispatchFails
<1>5. ASSUME NEW d \in Dispatches, Bind(d) PROVE (\A o \in Dispatches : CalmOf(o))'
  BY <1>5 DEF Bind, Goto, files, histories
<1>6. ASSUME NEW d \in Dispatches, Await(d) PROVE (\A o \in Dispatches : CalmOf(o))'
  BY <1>6 DEF Await, files, histories
<1>7. ASSUME NEW d \in Dispatches, AgentStarts(d) PROVE (\A o \in Dispatches : CalmOf(o))'
  BY <1>7 DEF AgentStarts, Launch, files, histories
<1>8. ASSUME NEW d \in Dispatches, WrapperExits(d) PROVE (\A o \in Dispatches : CalmOf(o))'
  BY <1>8 DEF WrapperExits, Launch, files, histories
<1>9. ASSUME NEW d \in Dispatches, AgentFinishes(d) PROVE (\A o \in Dispatches : CalmOf(o))'
  BY <1>9 DEF AgentFinishes, files, histories
<1>10. ASSUME NEW d \in Dispatches, WorkerRelease(d) PROVE (\A o \in Dispatches : CalmOf(o))'
  BY <1>10 DEF WorkerRelease
<1>11. ASSUME NEW d \in Dispatches, Close(d) PROVE (\A o \in Dispatches : CalmOf(o))'
  <2>1. /\ pc[d] = "bound" /\ pc' = [pc EXCEPT ![d] = "marking"] /\ row' = row /\ purged' = purged
        /\ agent' = agent \/ agent' = [agent EXCEPT ![d] = "gone"]
        /\ \A o \in Dispatches : ~Releasing(o)
    BY <1>11 DEF Close, Goto
  <2>2. agent[d] # "seeding"
    BY <2>1
  <2> QED BY <2>1, <2>2
<1>12. ASSUME NEW d \in Dispatches, MarkReturns(d) PROVE (\A o \in Dispatches : CalmOf(o))'
  <2>1. \/ pc' = [pc EXCEPT ![d] = "purging"] /\ row' = row /\ purged' = purged
        \/ \E ok \in BOOLEAN : Settle(d, ok)
    BY <1>12 DEF MarkReturns, Goto
  <2>2. agent' = agent /\ pc[d] = "marking"
    BY <1>12 DEF MarkReturns
  <2>3. CASE pc' = [pc EXCEPT ![d] = "purging"] /\ row' = row /\ purged' = purged
    BY <2>2, <2>3
  <2>4. CASE \E ok \in BOOLEAN : Settle(d, ok)
    BY <2>2, <2>4 DEF Settle, Goto
  <2> QED BY <2>1, <2>3, <2>4
<1>13. ASSUME NEW d \in Dispatches, PurgeReturns(d) PROVE (\A o \in Dispatches : CalmOf(o))'
  BY <1>13 DEF PurgeReturns, Goto, Launch, Settle, files, histories
<1>14. ASSUME NEW r \in Runs, Script(r) PROVE (\A o \in Dispatches : CalmOf(o))'
  BY <1>14, ScriptStep
<1>15. CASE Restart
  BY <1>15 DEF Restart
<1>16. CASE UNCHANGED vars
  BY <1>16 DEF vars, files, histories
<1>17. QED
  BY <1>1, <1>2, <1>3, <1>4, <1>5, <1>6, <1>7, <1>8, <1>9, <1>10,
     <1>11, <1>12, <1>13, <1>14, <1>15, <1>16 DEF Next, Script

LEMMA CalmInvStep ==
  ASSUME TypeOK, StageInv, RunInv, CalmInv, [Next]_vars
  PROVE  CalmInv'
<1> SUFFICES ASSUME ~mishap' PROVE \A d \in Dispatches : CalmOf(d)'
  BY DEF CalmInv
<1>1. \A d \in Dispatches : CalmOf(d)
  BY MishapStays DEF CalmInv
<1> QED BY <1>1, CalmStep

(* A step that settles no release, and neither brings nor takes the credential. *)
Quiet ==
  /\ keep' = keep
  /\ \A d \in Dispatches :
       /\ Unfinished(d) => Unfinished(d)'
       /\ Releasing(d)' => Releasing(d)
       /\ Again(d)' => Again(d)

LEMMA QuietNeeds == ASSUME Needs, Quiet, auth' => auth PROVE Needs'
<1>2. \A d \in Dispatches : NeededBeside(d) => NeededBeside(d)'
  BY DEF NeededBeside, Quiet
<1>3. auth' => \E d \in Dispatches : Unfinished(d)'
  BY DEF Needs, Quiet
<1>4. ASSUME NEW d \in Dispatches, (Releasing(d)' /\ d \in keep') \/ Again(d)'
      PROVE  NeededBeside(d)'
  BY <1>2, <1>4 DEF Needs, Quiet
<1> QED BY <1>3, <1>4 DEF Needs

(* What the steps before a release do. *)
LEMMA QuietSteps ==
  ASSUME TypeOK, \A o \in Dispatches : CalmOf(o), NEW d \in Dispatches,
         \/ Place(d) \/ Stage(d) \/ MintReturns(d) \/ Bind(d) \/ Await(d) \/ AgentStarts(d)
         \/ WrapperExits(d) \/ AgentFinishes(d)
  PROVE  Quiet /\ auth' = auth
<1>1. /\ keep' = keep /\ purged' = purged /\ auth' = auth
      /\ pc' = pc \/ \E s \in {"placed", "minting", "waiting", "bound"} :
                        /\ pc[d] \in {"none", "placed", "minting", "waiting"}
                        /\ pc' = [pc EXCEPT ![d] = s]
      /\ helper' = helper \/ \E k \in {"mint", "wrapper"}, phase \in Phases :
                                helper' = [helper EXCEPT ![<<k, d>>] = phase]
  <2>1. CASE Place(d)
    BY <2>1 DEF Place, Goto, Launch, files, histories, Phases, Bound
  <2>2. CASE Stage(d)
    BY <2>2 DEF Stage, Goto, Launch, files, histories, Phases, Bound
  <2>3. CASE MintReturns(d)
    BY <2>3 DEF MintReturns, Goto, Launch, files, histories, Phases, Bound
  <2>4. CASE Bind(d)
    BY <2>4 DEF Bind, Goto, files, histories, Phases, Bound
  <2>5. CASE Await(d)
    BY <2>5 DEF Await, files, histories, Phases, Bound
  <2>6. CASE AgentStarts(d)
    BY <2>6 DEF AgentStarts, Launch, files, histories, Phases, Bound
  <2>7. CASE WrapperExits(d)
    BY <2>7 DEF WrapperExits, Launch, files, histories, Phases, Bound
  <2>8. CASE AgentFinishes(d)
    BY <2>8 DEF AgentFinishes, files, histories, Phases, Bound
  <2> QED BY <2>1, <2>2, <2>3, <2>4, <2>5, <2>6, <2>7, <2>8
<1>2. \A o \in Dispatches : helper'[<<"release", o>>] = helper[<<"release", o>>]
  BY <1>1 DEF TypeOK, Runs
<1>3. \A o \in Dispatches : Unfinished(o) => Unfinished(o)'
  BY <1>1 DEF TypeOK, Unfinished, CalmOf, Bound
<1>4. \A o \in Dispatches : (Releasing(o)' => Releasing(o)) /\ (pc'[o] = "purging" => pc[o] = "purging")
  BY <1>1 DEF TypeOK, Releasing, Bound
<1> QED BY <1>1, <1>2, <1>3, <1>4 DEF Quiet, Again

(* A release that settles, or that begins to purge, leaves what the others need. *)
LEMMA SettleNeeds ==
  ASSUME TypeOK, Needs, NEW d \in Dispatches, CalmOf(d), Releasing(d), keep' = keep, auth' => auth,
         \A o \in Dispatches \ {d} : pc'[o] = pc[o] /\ (o \in purged' <=> o \in purged),
         \/ pc'[d] = "purging" /\ d \notin keep /\ helper'[<<"release", d>>] # "done"
         \/ pc'[d] = Bound /\ (d \notin purged' \/ (auth => NeededBeside(d)))
  PROVE  Needs'
<1>1. \A o \in Dispatches \ {d} : ~Releasing(o) /\ ~Releasing(o)'
  BY DEF CalmOf, Releasing
<1>2. \A o \in Dispatches \ {d} : Unfinished(o) => Unfinished(o)'
  BY DEF Unfinished
<1>3. \A o \in Dispatches : ~((Releasing(o)' /\ o \in keep') \/ Again(o)')
  BY <1>1 DEF Releasing, Again, Bound
<1>4. auth' => \E o \in Dispatches : Unfinished(o)'
  <2>1. CASE pc'[d] = Bound /\ (auth => NeededBeside(d))
    BY <1>2, <2>1 DEF NeededBeside
  <2>2. CASE pc'[d] = "purging" \/ d \notin purged'
    BY <2>2 DEF Unfinished, Bound
  <2> QED BY <2>1, <2>2
<1> QED BY <1>3, <1>4 DEF Needs

(* A run of the script that does not bring the credential. *)
LEMMA ScriptQuiet ==
  ASSUME TypeOK, RunInv, NEW r \in Runs,
         ProcessMarkers(r) \/ InstallStaged(r) \/ PurgeAllCaps(r) \/ RemoveAuth(r) \/ HelperFails(r)
  PROVE  Quiet /\ (auth' => auth)
<1>1. pc' = pc /\ keep' = keep /\ purged' = purged
  BY ScriptStep DEF Script
<1>2. \A o \in Dispatches : (Unfinished(o) => Unfinished(o)') /\ (Releasing(o)' => Releasing(o))
  BY <1>1 DEF Unfinished, Releasing
<1>3. CASE RemoveAuth(r)
  <2>1. ~auth'
    BY <1>3 DEF RemoveAuth
  <2> QED BY <1>1, <1>2, <2>1 DEF Quiet, Again
<1>4. CASE ProcessMarkers(r) \/ InstallStaged(r) \/ PurgeAllCaps(r) \/ HelperFails(r)
  <2>1. auth' = auth
    BY <1>4 DEF ProcessMarkers, InstallStaged, PurgeAllCaps, HelperFails, files
  <2>2. \E phase \in Phases \ {"done"} : helper' = [helper EXCEPT ![r] = phase]
    BY <1>4 DEF ProcessMarkers, InstallStaged, PurgeAllCaps, HelperFails, Launch, Phases
  <2>3. \A o \in Dispatches : helper'[<<"release", o>>] = "done" => helper[<<"release", o>>] = "done"
    BY <2>2 DEF TypeOK, Runs
  <2> QED BY <1>1, <1>2, <2>1, <2>3 DEF Quiet, Again
<1> QED BY <1>3, <1>4

(* The credential comes with the seed of a dispatch that is not finished. *)
LEMMA SeedNeeds ==
  ASSUME TypeOK, RunInv, Needs, \A o \in Dispatches : CalmOf(o), NEW r \in Runs, SeedAuth(r)
  PROVE  Needs'
<1>1. /\ pc' = pc /\ keep' = keep /\ purged' = purged
  BY ScriptStep DEF Script
<1>2. PICK o \in Dispatches : \E k \in {"mint", "wrapper", "release"} : r = <<k, o>>
  BY DEF Runs
<1>3. helper[r] = "auth" /\ helper' = [helper EXCEPT ![r] = "done"]
  BY DEF SeedAuth, Launch
<1>4. pc[o] \in {"placed", "minting", "waiting", "marking"}
  <2>1. CASE r = <<"mint", o>>
    BY <1>3, <2>1 DEF RunInv, RunOf
  <2>2. CASE r = <<"wrapper", o>>
    BY <1>3, <2>2 DEF RunInv, RunOf, CalmOf
  <2>3. CASE r = <<"release", o>>
    BY <1>3, <2>3 DEF RunInv, RunOf
  <2> QED BY <1>2, <2>1, <2>2, <2>3
<1>5. Unfinished(o)'
  BY <1>1, <1>4 DEF Unfinished, Bound
<1>6. ASSUME NEW d \in Dispatches, (Releasing(d)' /\ d \in keep') \/ Again(d)'
      PROVE  NeededBeside(d)'
  <2>1. CASE Releasing(d)' /\ d \in keep'
    <3>1. Releasing(d) /\ d \in keep
      BY <1>1, <2>1 DEF Releasing
    <3> QED BY <1>1, <3>1 DEF Needs, NeededBeside, Unfinished
  <2>2. CASE Again(d)'
    <3>1. d # o
      BY <1>1, <1>4, <2>2 DEF Again
    <3> QED BY <1>5, <3>1 DEF NeededBeside
  <2> QED BY <1>6, <2>1, <2>2
<1> QED BY <1>5, <1>6 DEF Needs

(* The credential is there for somebody. *)
LEMMA NeedStep ==
  ASSUME TypeOK, StageInv, RunInv, CalmInv, NeedInv, [Next]_vars
  PROVE  NeedInv'
<1> SUFFICES ASSUME ~mishap' PROVE Needs'
  BY DEF NeedInv
<1>0. Needs /\ \A d \in Dispatches : CalmOf(d)
  BY MishapStays DEF NeedInv, CalmInv
<1>1. ASSUME NEW d \in Dispatches,
             \/ Place(d) \/ Stage(d) \/ MintReturns(d) \/ Bind(d) \/ Await(d) \/ AgentStarts(d)
             \/ WrapperExits(d) \/ AgentFinishes(d)
      PROVE  Needs'
  <2>1. Quiet /\ auth' = auth
    BY <1>0, <1>1, QuietSteps
  <2>2. auth' => auth
    BY <2>1
  <2> QED BY <1>0, <2>1, <2>2, QuietNeeds
<1>2. ASSUME NEW d \in Dispatches, DispatchFails(d) \/ WorkerRelease(d) PROVE Needs'
  BY <1>2 DEF DispatchFails, WorkerRelease
<1>3. ASSUME NEW d \in Dispatches, Close(d) PROVE Needs'
  <2>1. /\ pc[d] = "bound" /\ pc' = [pc EXCEPT ![d] = "marking"] /\ purged' = purged
        /\ ~mishap' => \A o \in Dispatches : ~Releasing(o)
    BY <1>3, Zenon DEF Close, Goto, Bound
  <2>2. pc'[d] = "marking" /\ \A o \in Dispatches \ {d} : pc'[o] = pc[o] /\ ~Releasing(o)'
    BY <2>1 DEF TypeOK, Releasing
  <2>3. d \in keep' => \E o \in Dispatches \ {d} : row[o] = "running"
    BY <1>3 DEF Close, OtherLiveIsolated
  <2>4. \A o \in Dispatches : ~Again(o)'
    BY <2>2 DEF Again, Releasing
  <2>5. Unfinished(d)'
    BY <2>2 DEF Unfinished, Bound
  <2>6. d \in keep' => NeededBeside(d)'
    <3>1. \A o \in Dispatches \ {d} : row[o] = "running" => Unfinished(o)'
      BY <1>0, <2>1, <2>2 DEF StageInv, OnRecord, CalmOf, Unfinished, Bound
    <3> QED BY <2>3, <3>1 DEF NeededBeside
  <2> QED BY <2>2, <2>4, <2>5, <2>6 DEF Needs
<1>4. ASSUME NEW d \in Dispatches, MarkReturns(d) PROVE Needs'
  <2>1. /\ keep' = keep /\ auth' = auth /\ pc[d] = "marking"
        /\ \/ d \in keep /\ \E ok \in BOOLEAN : Settle(d, ok)
           \/ /\ d \notin keep /\ Goto(d, "purging") /\ purged' = purged
              /\ Launch(<<"release", d>>, "markers of purge")
    BY <1>4 DEF MarkReturns, files
  <2>2. Releasing(d) /\ (auth' => auth)
    BY <2>1 DEF Releasing
  <2>3. CASE d \in keep /\ \E ok \in BOOLEAN : Settle(d, ok)
    <3>1. /\ pc' = [pc EXCEPT ![d] = "bound"]
          /\ purged' = purged \cup {d} \/ purged' = purged \ {d}
      BY <2>3 DEF Settle, Goto, Bound
    <3>2. NeededBeside(d)
      BY <1>0, <2>2, <2>3 DEF Needs
    <3>3. /\ pc'[d] = Bound
          /\ \A o \in Dispatches \ {d} : pc'[o] = pc[o] /\ (o \in purged' <=> o \in purged)
      BY <3>1 DEF TypeOK, Bound
    <3> QED BY <1>0, <2>1, <2>2, <3>2, <3>3, SettleNeeds
  <2>4. CASE /\ d \notin keep /\ Goto(d, "purging") /\ purged' = purged
             /\ Launch(<<"release", d>>, "markers of purge")
    <3>1. /\ pc'[d] = "purging" /\ helper'[<<"release", d>>] # "done"
          /\ \A o \in Dispatches \ {d} : pc'[o] = pc[o] /\ (o \in purged' <=> o \in purged)
      BY <2>4 DEF TypeOK, Runs, Goto, Launch
    <3> QED BY <1>0, <2>1, <2>2, <2>4, <3>1, SettleNeeds
  <2> QED BY <2>1, <2>3, <2>4
<1>5. ASSUME NEW d \in Dispatches, PurgeReturns(d) PROVE Needs'
  <2>1. /\ keep' = keep /\ auth' = auth /\ pc[d] = "purging"
        /\ pc' = [pc EXCEPT ![d] = "bound"]
        /\ \/ purged' = purged \ {d}
           \/ purged' = purged \cup {d} /\ helper[<<"release", d>>] = "done"
    BY <1>5 DEF PurgeReturns, Settle, Goto, Bound, files
  <2>2. Releasing(d) /\ (auth' => auth)
    BY <2>1 DEF Releasing
  <2>3. /\ pc'[d] = Bound
        /\ \A o \in Dispatches \ {d} : pc'[o] = pc[o] /\ (o \in purged' <=> o \in purged)
    BY <2>1 DEF TypeOK, Bound
  <2>4. d \notin purged' \/ (auth => NeededBeside(d))
    BY <1>0, <2>1 DEF Needs, Again
  <2> QED BY <1>0, <2>1, <2>2, <2>3, <2>4, SettleNeeds
<1>6. ASSUME NEW r \in Runs, SeedAuth(r) PROVE Needs'
  BY <1>0, <1>6, SeedNeeds
<1>7. ASSUME NEW r \in Runs, ProcessMarkers(r) \/ InstallStaged(r) \/ PurgeAllCaps(r)
                             \/ RemoveAuth(r) \/ HelperFails(r)
      PROVE  Needs'
  BY <1>0, <1>7, ScriptQuiet, QuietNeeds
<1>8. CASE Restart
  BY <1>8 DEF Restart
<1>9. CASE UNCHANGED vars
  <2>1. /\ pc' = pc /\ keep' = keep /\ purged' = purged /\ helper' = helper /\ auth' = auth
    BY <1>9 DEF vars, files, histories
  <2>2. Quiet /\ (auth' => auth)
    BY <2>1 DEF Quiet, Unfinished, Releasing, Again
  <2> QED BY <1>0, <2>2, QuietNeeds
<1> QED BY <1>1, <1>2, <1>3, <1>4, <1>5, <1>6, <1>7, <1>8, <1>9 DEF Next

(* The invariant the other theorems rest on: a capability goes from the stage to
   the installed ones at most once, and never back after its release. *)
THEOREM CapsInvariant == Spec => []CapsInv
<1>1. Init => CapsInv
  <2> SUFFICES ASSUME Init PROVE CapsInv
    OBVIOUS
  <2>1. TypeOK
    <3>1. auth \in BOOLEAN /\ mishap \in BOOLEAN
      BY Zenon DEF Init
    <3>2. helper \in [Runs -> Phases]
      BY DEF Init, Phases
    <3>3. restarts \in 0..MaxRestarts
      BY CapsAssumption DEF Init
    <3>4. QED
      BY <3>1, <3>2, <3>3 DEF Init, TypeOK, Status
  <2>2. StageInv /\ PurgeInv /\ CurrentIsInstalled
    BY DEF Init, StageInv, PurgeInv, PurgeOf, CurrentIsInstalled,
           OnRecord, Bound, Runs
  <2>3. RunInv
    BY DEF Init, RunInv, RunOf, OnRecord, Bound, Runs
  <2>4. PurgeSeesInv
    BY DEF Init, PurgeSeesInv, PurgeSees
  <2>5. CalmInv
    BY DEF Init, CalmInv, CalmOf, Releasing
  <2>6. NeedInv
    <3>1. ~auth /\ pc = [d \in Dispatches |-> "none"]
      BY DEF Init
    <3> QED BY <3>1 DEF NeedInv, Needs, Releasing, Again
  <2>7. QED
    BY <2>1, <2>2, <2>3, <2>4, <2>5, <2>6 DEF CapsInv
<1>2. CapsInv /\ [Next]_vars => CapsInv'
  BY TypeStep, StageStep, PurgeStep, CurrentStep, RunStep, SeesStep, CalmInvStep, NeedStep
     DEF CapsInv
<1>3. QED
  BY <1>1, <1>2, PTL DEF Spec

(* Every variable of WorkerCaps stays in its type. *)
THEOREM CapsTypeCorrect == Spec => []TypeOK
<1>1. CapsInv => TypeOK
  BY DEF CapsInv
<1>2. QED
  BY <1>1, CapsInvariant, PTL

(* Whatever runs of orca-seed-worker-creds interleave, a dispatch whose release
   reported a clean purge does not get its capability back. *)
THEOREM CapsPurgedStaysPurged == Spec => []PurgedStaysPurged
<1>1. CapsInv => PurgedStaysPurged
  BY CapsAssumption DEF CapsInv, TypeOK, PurgeInv, PurgeOf, CurrentIsInstalled,
     PurgedStaysPurged
<1>2. QED
  BY <1>1, CapsInvariant, PTL

(* remove_one_cap and purge_all_caps never leave a current-cap.json whose
   capability they removed. *)
THEOREM CapsCurrentIsInstalled == Spec => []CurrentIsInstalled
<1>1. CapsInv => CurrentIsInstalled
  BY DEF CapsInv
<1>2. QED
  BY <1>1, CapsInvariant, PTL

(* A release that purges everything takes the credential and the capability of no
   running worker that the registry lists as running and that was on record when the
   purge was decided (executeReleaseWorker counts the other live isolated ones). *)
THEOREM CapsLiveKeepsCapability == Spec => LiveKeepsCapability
<1>1. CapsInv /\ [Next]_vars => [\A d \in Dispatches : Live(d) /\ row[d] = "running" => Keeps(d)]_vars
  <2> SUFFICES ASSUME CapsInv, [Next]_vars, NEW d \in Dispatches, Live(d), row[d] = "running"
               PROVE  Keeps(d)
    BY Zenon
  <2>0. /\ TypeOK /\ RunInv /\ PurgeSees(d)
        /\ d \notin unrecorded /\ pc[d] # "none"
    BY DEF CapsInv, PurgeSeesInv, Live, Bound
  <2>1. ~PurgePending /\ d \notin markers
    BY <2>0 DEF PurgeSees
  <2>2. ASSUME NEW r \in Runs, helper[r] \in {"wipe", "unauth"} PROVE FALSE
    <3>1. PICK o \in Dispatches : \E k \in {"mint", "wrapper", "release"} : r = <<k, o>>
      BY DEF Runs
    <3>2. RunOf(o)
      BY <2>0 DEF RunInv
    <3>3. Releasing(o) /\ o \notin keep
      BY <2>2, <3>1, <3>2 DEF RunOf, Releasing
    <3> QED BY <2>1, <3>3 DEF PurgePending
  <2>3. CASE \E r \in Runs : ProcessMarkers(r)
    <3>1. auth' = auth /\ caps' = caps \ markers
      BY <2>3 DEF ProcessMarkers, RemoveCaps
    <3> QED BY <2>1, <3>1 DEF Keeps
  <2>4. CASE \E r \in Runs : PurgeAllCaps(r) \/ RemoveAuth(r)
    BY <2>2, <2>4 DEF PurgeAllCaps, RemoveAuth
  <2>5. CASE \E r \in Runs : InstallStaged(r)
    <3>1. auth' = auth /\ caps \subseteq caps'
      BY <2>5 DEF InstallStaged
    <3> QED BY <3>1 DEF Keeps
  <2>6. CASE \E r \in Runs : SeedAuth(r)
    <3>1. auth' = TRUE /\ caps' = caps
      BY <2>6 DEF SeedAuth
    <3> QED BY <3>1 DEF Keeps
  <2>7. CASE \/ \E o \in Dispatches :
                  \/ Place(o) \/ Stage(o) \/ MintReturns(o) \/ DispatchFails(o) \/ Bind(o) \/ Await(o)
                  \/ AgentStarts(o) \/ WrapperExits(o) \/ AgentFinishes(o) \/ WorkerRelease(o)
                  \/ Close(o) \/ MarkReturns(o) \/ PurgeReturns(o)
             \/ \E r \in Runs : HelperFails(r)
             \/ Restart \/ UNCHANGED vars
    <3>1. auth' = auth /\ caps' = caps
      BY <2>7 DEF Place, Stage, MintReturns, DispatchFails, Bind, Await, AgentStarts, WrapperExits,
         AgentFinishes, WorkerRelease, Close, MarkReturns, PurgeReturns, HelperFails, Restart,
         vars, files
    <3> QED BY <3>1 DEF Keeps
  <2> QED BY <2>3, <2>4, <2>5, <2>6, <2>7, Zenon DEF Next
<1> QED BY <1>1, CapsInvariant, PTL DEF Spec, LiveKeepsCapability

(* Without mishaps, executeReleaseWorker of the last dispatch takes the shared
   credential along: a release spares it only for a dispatch that is not released yet. *)
THEOREM CapsLastReleaseTakesCredential == Spec => []LastReleaseTakesCredential
<1>1. CapsInv => LastReleaseTakesCredential
  <2> SUFFICES ASSUME NeedInv, ~mishap, auth,
                      \A d \in {o \in Dispatches : pc[o] # "none"} : pc[d] = Bound /\ d \in purged
               PROVE  FALSE
    BY DEF CapsInv, LastReleaseTakesCredential
  <2>1. \E d \in Dispatches : Unfinished(d)
    BY DEF NeedInv, Needs
  <2> QED BY <2>1 DEF Unfinished
<1>2. QED
  BY <1>1, CapsInvariant, PTL
=============================================================================
