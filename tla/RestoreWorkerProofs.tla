------------------------ MODULE RestoreWorkerProofs ------------------------
(***************************************************************************)
(* Proofs about RestoreWorker, for every set of files and archives and     *)
(* every number of runs and faults.                                        *)
(***************************************************************************)
EXTENDS RestoreWorker, TLAPS

(* The folder _clone_live_tree starts from, and the first world.           *)
LEMMA EmptyIsWorld == EmptyDir \in World /\ OldWorld \in World
BY DEF World, Content, OldWorld, EmptyDir

(* What a start that Docker refuses leads to, on each path.                *)
LEMMA RefusedResult ==
  ASSUME TypeOK, PathInv, StartRefused
  PROVE  /\ pc = "start" /\ doorman = "up"
         /\ UNCHANGED <<live, stage, rollback, marker, mc, doorman, todo, target,
                        runs, faults>>
         /\ \/ /\ mode = "apply" /\ mode' = "rollback"
               /\ pc' = "w_rolling_back" /\ UNCHANGED <<exit, returned>>
            \/ /\ mode = "rollback" /\ mode' = "rollback"
               /\ pc' = "w_rollback_failed" /\ UNCHANGED <<exit, returned>>
            \/ /\ mode \in {"abort", "recover", "reopen"} /\ mode' = mode
               /\ pc' = "idle" /\ exit' = "failed" /\ returned' = NoArchive
BY DEF TypeOK, PathInv, StartRefused, Handled, EndRun, RollbackReady, disk,
       docker, CleanupPcs, Modes

-----------------------------------------------------------------------------
(* The steps that write the folders file by file keep them folders.        *)
LEMMA FolderSteps ==
  ASSUME TypeOK, SourceInv, PathInv
  PROVE  /\ Play => live' \in World
         /\ Kill \/ Raise => live' \in World
         /\ \A f \in Files : CloneEntry(f) => rollback' \in World
         /\ \A f \in Files : SyncEntry(f) => live' \in World
         /\ \A f \in Files : CleanRollbackEntry(f) => rollback' \in World
<1>1. Play => live' \in World
  BY DEF Play, TypeOK, World, Content
<1>2. Kill \/ Raise => live' \in World
  BY DEF Kill, Raise, InterruptedLive, TypeOK, World, Content
<1>3. ASSUME NEW f \in Files, CloneEntry(f) PROVE rollback' \in World
  <2>1. mode = "apply" /\ rollback \in World
    BY <1>3 DEF CloneEntry, TypeOK, PathInv, SourceInv, CleanupPcs, Modes
  <2>2. QED
    BY <1>3, <2>1 DEF CloneEntry, TypeOK, World
<1>4. ASSUME NEW f \in Files, SyncEntry(f) PROVE live' \in World
  <2>1. CASE mode = "apply"
    <3>1. stage \in Archives
      BY <1>4, <2>1 DEF SyncEntry, SourceInv
    <3>2. SyncSource[f] \in Content
      BY <2>1, <3>1 DEF SyncSource, Overlay, TypeOK, World, Content
    <3>3. QED
      BY <1>4, <3>2 DEF SyncEntry, TypeOK, World
  <2>2. CASE mode # "apply"
    <3>1. rollback \in World
      BY <1>4, <2>2 DEF SyncEntry, SourceInv, PathInv, TypeOK, Modes, CleanupPcs
    <3>2. QED
      BY <1>4, <2>2, <3>1 DEF SyncEntry, SyncSource, TypeOK, World
  <2>3. QED
    BY <2>1, <2>2
<1>5. ASSUME NEW f \in Files, CleanRollbackEntry(f) PROVE rollback' \in World
  BY <1>5 DEF CleanRollbackEntry, TypeOK, World, Content
<1>6. QED
  BY <1>1, <1>2, <1>3, <1>4, <1>5

(* Every step keeps the state well typed.                                  *)
LEMMA TypeStep ==
  ASSUME TypeOK, SourceInv, PathInv, [Next]_vars
  PROVE  TypeOK'
<1> USE DEF TypeOK, Phases, Pcs, Modes, CleanupPcs, RollbackPhases
<1>1. CASE Play
  <2>1. live' \in World
    BY <1>1, FolderSteps
  <2>2. QED
    BY <1>1, <2>1 DEF Play, docker, control
<1>2. ASSUME NEW a \in Archives, Launch(a) PROVE TypeOK'
  BY <1>2, RestoreAssumption DEF Launch, docker, disk
<1>3. CASE AdminStart
  BY <1>3 DEF AdminStart, control, disk
<1>4. CASE RecoverNothing \/ RecoverInterrupted \/ RecoverManual
  BY <1>4 DEF RecoverNothing, RecoverInterrupted, RecoverManual, Goto,
              EndRun, disk, docker
<1>5. CASE Extract
  BY <1>5 DEF Extract, Goto, docker, SourceInv, PathInv
<1>6. CASE Stop \/ Engage \/ CloneDir \/ EndClone \/ EndSync
  BY <1>6, EmptyIsWorld DEF Stop, Engage, CloneDir, EndClone, EndSync, Goto,
                            disk, docker
<1>7. CASE WriteStaged \/ WriteStopping \/ WriteStopped \/ WriteRollbackReady
           \/ WriteApplied \/ WriteStarting \/ WriteRollingBack
  BY <1>7 DEF WriteStaged, WriteStopping, WriteStopped, WriteRollbackReady,
              WriteApplied, WriteStarting, WriteRollingBack, WriteState,
              Goto, docker
<1>8. CASE WriteApplying \/ WriteStarted \/ WriteRollbackFailed
  BY <1>8 DEF WriteApplying, WriteStarted, WriteRollbackFailed, Goto, EndRun,
              docker, Touched
<1>9. ASSUME NEW f \in Files, CloneEntry(f) PROVE TypeOK'
  <2>1. rollback' \in World
    BY <1>9, FolderSteps
  <2>2. QED
    BY <1>9, <2>1 DEF CloneEntry, docker
<1>10. ASSUME NEW f \in Files, SyncEntry(f) PROVE TypeOK'
  <2>1. live' \in World
    BY <1>10, FolderSteps
  <2>2. QED
    BY <1>10, <2>1 DEF SyncEntry, docker
<1>11. CASE Release \/ Start \/ Await
  BY <1>11, RestoreAssumption DEF Release, Start, Await, Goto, disk, docker
<1>12. ASSUME NEW f \in Files, CleanRollbackEntry(f) PROVE TypeOK'
  <2>1. rollback' \in World
    BY <1>12, FolderSteps
  <2>2. QED
    BY <1>12, <2>1 DEF CleanRollbackEntry, docker, control
<1>13. CASE CleanStage \/ CleanRollback \/ CleanMarker
  BY <1>13 DEF CleanStage, CleanRollback, CleanMarker, Goto, EndRun, docker
<1>14. CASE Kill
  BY <1>14, FolderSteps, RestoreAssumption
     DEF Kill, Interruptible, InterruptedDocker, EndRun, docker
<1>15. CASE Raise
  <2>1. /\ pc' \in Pcs /\ mode' \in Modes
        /\ exit' \in {"none", "ok", "cancelled", "failed", "killed"}
        /\ returned' \in Archives \cup {NoArchive}
    BY <1>15 DEF Raise, Handled, EndRun
  <2>2. QED
    BY <1>15, <2>1, FolderSteps, RestoreAssumption
       DEF Raise, Interruptible, InterruptedDocker, AfterException, docker
<1>16. CASE UNCHANGED vars
  BY <1>16 DEF vars, disk, docker, control
<1>r. CASE StartRefused
  BY <1>r, RefusedResult, RestoreAssumption
<1>17. QED
  BY <1>1, <1>2, <1>3, <1>4, <1>5, <1>6, <1>7, <1>8, <1>9, <1>10, <1>11, <1>12,
     <1>13, <1>14, <1>15, <1>16, <1>r DEF Next, WorkerStep, Environment

(* The code paths, and the folders they read, step by step.                *)
LEMMA ControlStep ==
  ASSUME TypeOK, SourceInv, PathInv, [Next]_vars
  PROVE  PathInv' /\ SourceInv'
<1> USE DEF PathInv, SourceInv, CleanupPcs, RollbackReady
<1> NoDir \notin World /\ EmptyDir \in World
  BY EmptyIsWorld, RestoreAssumption
<1>1. CASE Play \/ AdminStart \/ UNCHANGED vars
  BY <1>1 DEF Play, AdminStart, vars, control, docker, disk
<1>2. ASSUME NEW a \in Archives, Launch(a) PROVE PathInv' /\ SourceInv'
  BY <1>2 DEF Launch, disk, docker
<1>3. CASE RecoverNothing \/ RecoverManual
  BY <1>3 DEF RecoverNothing, RecoverManual, Goto, EndRun, disk, docker, TypeOK,
              Modes
<1>4. CASE RecoverInterrupted
  BY <1>4 DEF RecoverInterrupted, RecoveryMode, disk, docker
<1>5. CASE Extract
  BY <1>5 DEF Extract, Goto, docker
<1>6. CASE Stop \/ Engage \/ CloneDir \/ EndClone \/ EndSync
  BY <1>6 DEF Stop, Engage, CloneDir, EndClone, EndSync, Goto, disk, docker
<1>7. CASE WriteStaged \/ WriteStopping \/ WriteStopped \/ WriteRollbackReady
           \/ WriteApplied \/ WriteStarting \/ WriteRollingBack
  BY <1>7 DEF WriteStaged, WriteStopping, WriteStopped, WriteRollbackReady,
              WriteApplied, WriteStarting, WriteRollingBack, WriteState,
              Goto, docker
<1>8. CASE WriteApplying \/ WriteStarted \/ WriteRollbackFailed
  BY <1>8 DEF WriteApplying, WriteStarted, WriteRollbackFailed, Goto, EndRun,
              docker
<1>9. ASSUME NEW f \in Files, CloneEntry(f) PROVE PathInv' /\ SourceInv'
  <2>1. rollback' \in World
    BY <1>9, FolderSteps
  <2>2. QED
    BY <1>9, <2>1 DEF CloneEntry, docker
<1>10. ASSUME NEW f \in Files, SyncEntry(f) PROVE PathInv' /\ SourceInv'
  BY <1>10 DEF SyncEntry, docker
<1>11. CASE Release \/ Start \/ Await
  BY <1>11 DEF Release, Start, Await, Goto, disk, docker
<1>12. ASSUME NEW f \in Files, CleanRollbackEntry(f)
       PROVE  PathInv' /\ SourceInv'
  <2>1. rollback' \in World
    BY <1>12, FolderSteps
  <2>2. QED
    BY <1>12, <2>1 DEF CleanRollbackEntry, docker, control
<1>13. CASE CleanStage \/ CleanRollback \/ CleanMarker
  BY <1>13 DEF CleanStage, CleanRollback, CleanMarker, Goto, EndRun, docker
<1>14. CASE Kill
  BY <1>14 DEF Kill, EndRun
<1>15. CASE Raise
  BY <1>15 DEF Raise, Handled, EndRun, AfterException, TypeOK, Modes
<1>r. CASE StartRefused
  BY <1>r, RefusedResult
<1>16. QED
  BY <1>1, <1>2, <1>3, <1>4, <1>5, <1>6, <1>7, <1>8, <1>9, <1>10, <1>11, <1>12,
     <1>13, <1>14, <1>15, <1>r DEF Next, WorkerStep, Environment

(* Every reachable state of the worker is well typed: in particular the    *)
(* folders that restore_worker.py opens exist when it opens them.          *)
THEOREM TypeCorrect == Spec => [](TypeOK /\ SourceInv /\ PathInv)
<1>1. Init => TypeOK /\ SourceInv /\ PathInv
  BY EmptyIsWorld, RestoreAssumption
     DEF Init, TypeOK, SourceInv, PathInv, Phases, Pcs, Modes, CleanupPcs,
         RollbackReady
<1>2. TypeOK /\ SourceInv /\ PathInv /\ [Next]_vars
        => (TypeOK /\ SourceInv /\ PathInv)'
  BY TypeStep, ControlStep
<1>3. QED
  BY <1>1, <1>2, PTL DEF Spec

-----------------------------------------------------------------------------
(* The marker outlives every stop of the server, step by step.             *)
LEMMA ServerStep ==
  ASSUME TypeOK, SourceInv, PathInv, ServerInv, [Next]_vars
  PROVE  ServerInv'
<1> USE DEF ServerInv, CleanupPcs, UnderWayPcs
<1>1. CASE Play \/ AdminStart \/ UNCHANGED vars
  BY <1>1 DEF Play, AdminStart, vars, control, docker, disk
<1>2. ASSUME NEW a \in Archives, Launch(a) PROVE ServerInv'
  BY <1>2 DEF Launch, disk, docker
<1>3. CASE RecoverNothing \/ RecoverManual
  BY <1>3 DEF RecoverNothing, RecoverManual, RecoveryMode, Goto, EndRun, disk,
              docker
<1>4. CASE RecoverInterrupted
  BY <1>4 DEF RecoverInterrupted, RecoveryMode, RollbackPhases, disk, docker
<1>5. CASE Extract
  BY <1>5 DEF Extract, Goto, docker
<1>6. CASE Stop \/ Engage \/ CloneDir \/ EndClone \/ EndSync
  BY <1>6 DEF Stop, Engage, CloneDir, EndClone, EndSync, Goto, disk, docker
<1>7. CASE WriteStaged \/ WriteStopping \/ WriteStopped \/ WriteRollbackReady
           \/ WriteApplied \/ WriteStarting \/ WriteRollingBack
  BY <1>7 DEF WriteStaged, WriteStopping, WriteStopped, WriteRollbackReady,
              WriteApplied, WriteStarting, WriteRollingBack, WriteState,
              Goto, docker
<1>8. CASE WriteApplying \/ WriteStarted \/ WriteRollbackFailed
  BY <1>8 DEF WriteApplying, WriteStarted, WriteRollbackFailed, Goto, EndRun,
              docker
<1>9. ASSUME NEW f \in Files, CloneEntry(f) \/ SyncEntry(f)
      PROVE  ServerInv'
  BY <1>9 DEF CloneEntry, SyncEntry, docker
<1>10. CASE Release \/ Start \/ Await
  BY <1>10 DEF Release, Start, Await, Goto, disk, docker
<1>11. ASSUME NEW f \in Files, CleanRollbackEntry(f) PROVE ServerInv'
  BY <1>11 DEF CleanRollbackEntry, docker, control
<1>12. CASE CleanStage \/ CleanRollback \/ CleanMarker
  BY <1>12 DEF CleanStage, CleanRollback, CleanMarker, Goto, EndRun, docker
<1>13. CASE Kill
  BY <1>13 DEF Kill, EndRun, InterruptedDocker, docker
<1>14. CASE Raise
  <2>1. /\ marker' = marker
        /\ rollback' \in {rollback, NoDir}
        /\ pc # "await" => mc' = mc
    BY <1>14 DEF Raise, AfterException, InterruptedDocker, docker
  <2>2. \/ pc' = "idle"
        \/ pc' \in {"w_rolling_back", "release"} /\ pc \in UnderWayPcs
        \/ pc' = "clean_stage" /\ pc = "w_stopping"
        \/ /\ pc' = "w_rollback_failed"
           /\ pc \in CleanupPcs \cup UnderWayPcs \cup {"idle"}
    BY <1>14 DEF Raise, Handled, EndRun, PathInv, RollbackReady
  <2>3. pc # "idle"
    BY <1>14 DEF Raise, Interruptible
  <2>4. pc = "await" => marker.phase \notin {"none", "started"}
    OBVIOUS
  <2>5. QED
    BY <2>1, <2>2, <2>3, <2>4
<1>r. CASE StartRefused
  BY <1>r, RefusedResult
<1>15. QED
  BY <1>1, <1>2, <1>3, <1>4, <1>5, <1>6, <1>7, <1>8, <1>9, <1>10, <1>11, <1>12,
     <1>13, <1>14, <1>r DEF Next, WorkerStep, Environment

(* The worker knows whether it stopped the server: ServerInv on every run, *)
(* for every handler of restore_worker.py.                                 *)
THEOREM ServerCorrect == Spec => []ServerInv
<1>1. Init => ServerInv
  BY DEF Init, ServerInv, CleanupPcs, UnderWayPcs
<1>2. TypeOK /\ SourceInv /\ PathInv /\ ServerInv /\ [Next]_vars => ServerInv'
  BY ServerStep
<1>3. QED
  BY <1>1, <1>2, TypeCorrect, PTL DEF Spec

(* However often the worker is killed or fails, with or without an admin   *)
(* starting the server meanwhile: a stopped server leaves a marker.        *)
THEOREM StoppedIsMarked == Spec => []StoppedServerLeavesMarker
<1>1. ServerInv => StoppedServerLeavesMarker
  BY DEF ServerInv, StoppedServerLeavesMarker
<1>2. QED
  BY <1>1, ServerCorrect, PTL

(* Docker gives the address to one container at a time.                    *)
OneAddress == ~(mc = "running" /\ doorman = "up")

LEMMA AddressKept == Spec => []OneAddress
<1>1. Init => OneAddress
  BY DEF Init, OneAddress
<1>2. OneAddress /\ [Next]_vars => OneAddress'
  <2> SUFFICES ASSUME OneAddress, [Next]_vars PROVE OneAddress'
    OBVIOUS
  <2> USE DEF OneAddress
  <2>1. CASE UNCHANGED docker
    BY <2>1 DEF docker
  <2>2. CASE Stop \/ Engage \/ Release \/ Start \/ AdminStart
    BY <2>2 DEF Stop, Engage, Release, Start, AdminStart
  <2>3. CASE Kill \/ Raise
    BY <2>3 DEF Kill, Raise, InterruptedDocker
  <2>4. CASE WorkerStep /\ ~Stop /\ ~Engage /\ ~Release /\ ~Start
    <3>1. UNCHANGED docker
      BY <2>4 DEF WorkerStep, RecoverNothing, RecoverInterrupted, RecoverManual,
         Extract, WriteStaged, WriteStopping, WriteStopped, WriteRollbackReady,
         WriteApplied, WriteStarting, WriteRollingBack, WriteState, CloneDir,
         CloneEntry, EndClone, WriteApplying, SyncEntry, EndSync, StartRefused,
         Await, WriteStarted, WriteRollbackFailed, CleanStage,
         CleanRollbackEntry, CleanRollback, CleanMarker
    <3>2. QED
      BY <2>1, <3>1
  <2>5. CASE Play \/ \E a \in Archives : Launch(a)
    BY <2>1, <2>5 DEF Play, Launch
  <2>6. QED
    BY <2>1, <2>2, <2>3, <2>4, <2>5 DEF Next, Environment, vars
<1>3. QED
  BY <1>1, <1>2, PTL DEF Spec

(* How a run can end otherwise than killed or failed: by removing the      *)
(* marker, or by failing to, once the restoration is committed.            *)
LEMMA GoodEnds ==
  ASSUME TypeOK, PathInv, [Next]_vars, pc' = "idle", pc # "idle",
         exit' \in {"ok", "cancelled"}
  PROVE  pc \in CleanupPcs /\ UNCHANGED docker
<1>1. CASE CleanMarker
  BY <1>1 DEF CleanMarker, CleanupPcs
<1>2. CASE Raise
  <2>1. mode = "commit"
    BY <1>2 DEF Raise, Handled, EndRun
  <2>2. pc \in CleanupPcs
    BY <2>1 DEF PathInv
  <2>3. QED
    BY <1>2, <2>2 DEF Raise, InterruptedDocker, CleanupPcs, docker
<1>3. CASE RecoverManual \/ WriteRollbackFailed \/ Kill \/ StartRefused
  BY <1>3, RefusedResult
     DEF RecoverManual, WriteRollbackFailed, Kill, EndRun
<1>4. CASE WorkerStep /\ ~CleanMarker /\ ~RecoverManual
           /\ ~WriteRollbackFailed /\ ~StartRefused
  BY <1>4 DEF WorkerStep, RecoverNothing, RecoverInterrupted, Extract,
     WriteStaged, WriteStopping, WriteStopped, WriteRollbackReady, Stop, Engage,
     WriteApplied, WriteStarting, WriteRollingBack, WriteState, CloneDir,
     CloneEntry, EndClone, WriteApplying, SyncEntry, EndSync, Release, Start,
     Await, WriteStarted, CleanStage, CleanRollbackEntry, CleanRollback, Goto,
     control
<1>5. CASE Environment \/ UNCHANGED vars
  BY <1>5 DEF Environment, Play, AdminStart, Launch, vars, control
<1>6. QED
  BY <1>1, <1>2, <1>3, <1>4, <1>5 DEF Next

(* However many runs fail, are killed or miss a doorman that holds the     *)
(* address: a run that ends well leaves Minecraft running and the post     *)
(* free (DoormanAwareController, restore_transaction).                     *)
THEOREM EndsOpenHolds == Spec => EndsOpen
<1>1. TypeOK /\ PathInv /\ ServerInv /\ OneAddress /\ [Next]_vars
        => [pc # "idle" /\ pc' = "idle" /\ exit' \in {"ok", "cancelled"} =>
              mc' = "running" /\ doorman' = "down"]_vars
  <2> SUFFICES ASSUME TypeOK, PathInv, ServerInv, OneAddress, [Next]_vars,
                      pc # "idle", pc' = "idle", exit' \in {"ok", "cancelled"}
               PROVE  mc' = "running" /\ doorman' = "down"
    OBVIOUS
  <2>1. pc \in CleanupPcs /\ UNCHANGED docker
    BY GoodEnds
  <2>2. QED
    BY <2>1 DEF ServerInv, OneAddress, TypeOK, docker
<1>2. QED
  BY <1>1, TypeCorrect, ServerCorrect, AddressKept, PTL DEF Spec, EndsOpen

-----------------------------------------------------------------------------
(* Files cut short.  The rollback copy never holds one; the data folder    *)
(* holds one only while that copy is there and the marker sends the next   *)
(* run back to it, and no path leaves the copying before all are replaced. *)
Whole(w) == \A f \in Files : w[f] # Torn

WholeInv ==
  /\ rollback # NoDir => Whole(rollback)
  /\ ~Whole(live) =>
       /\ rollback # NoDir /\ marker.phase \in RollbackPhases
       /\ \/ pc \in {"idle", "recover"}
          \/ /\ mode \in {"recover", "rollback"}
             /\ pc \in {"stop", "engage", "sync", "w_rolling_back",
                       "w_rollback_failed"}
  /\ pc = "sync" \/ (pc \in {"stop", "engage"} /\ mode # "apply") =>
       marker.phase \in RollbackPhases
  /\ pc = "sync" => \A f \in Files \ todo : live[f] # Torn

LEMMA WholeStep ==
  ASSUME TypeOK, SourceInv, PathInv, ServerInv, WholeInv, [Next]_vars
  PROVE  WholeInv'
<1> USE DEF WholeInv, Whole
<1>0. /\ NoDir \notin World /\ EmptyDir \in World /\ Whole(EmptyDir)
      /\ Torn # Absent /\ Torn \notin Archives /\ Torn \notin Played
  BY EmptyIsWorld, RestoreAssumption, WorldAssumption DEF EmptyDir
<1>1. CASE AdminStart \/ UNCHANGED vars
  BY <1>1 DEF AdminStart, vars, control, docker, disk
<1>2. CASE Play
  <2>1. PICK f \in Files, c \in Played : live' = [live EXCEPT ![f] = c]
    BY <1>2 DEF Play
  <2>2. \A g \in Files : live'[g] = live[g] \/ live'[g] # Torn
    BY <1>0, <2>1 DEF TypeOK, World
  <2>3. UNCHANGED <<rollback, marker, pc, mode, todo>>
    BY <1>2 DEF Play, control
  <2>4. QED
    BY <2>2, <2>3
<1>3. ASSUME NEW a \in Archives, Launch(a) PROVE WholeInv'
  BY <1>3 DEF Launch, disk
<1>4. CASE RecoverNothing \/ RecoverManual
  BY <1>4 DEF RecoverNothing, RecoverManual, RecoveryMode, Goto, EndRun, disk, RollbackPhases
<1>5. CASE RecoverInterrupted
  <2>1. /\ UNCHANGED <<live, rollback, marker>> /\ mode' = RecoveryMode
        /\ pc' \in {"clean_stage", "stop", "release"} /\ (pc' = "stop" <=> RecoveryMode = "recover")
    BY <1>5 DEF RecoverInterrupted, disk
  <2>2. RecoveryMode = "recover" => rollback # NoDir /\ marker.phase \in RollbackPhases
    BY DEF RecoveryMode, ServerInv
  <2>3. ~Whole(live) => RecoveryMode = "recover"
    BY DEF RecoveryMode, RollbackPhases
  <2>4. QED
    BY <2>1, <2>2, <2>3
<1>6. CASE Extract \/ Release \/ Start \/ Await
  BY <1>6 DEF Extract, Release, Start, Await, Goto, disk
<1>7. CASE Stop \/ Engage
  <2>1. /\ UNCHANGED <<live, rollback, marker, mode>>
        /\ \/ pc = "stop" /\ pc' = "engage"
           \/ pc = "engage" /\ mode = "apply" /\ pc' = "w_stopped"
           \/ pc = "engage" /\ mode # "apply" /\ pc' = "sync" /\ todo' = Files
    BY <1>7 DEF Stop, Engage, Goto, disk
  <2>2. QED
    BY <2>1
<1>8. CASE CloneDir \/ EndClone
  BY <1>0, <1>8 DEF CloneDir, EndClone, Goto, disk
<1>9. CASE EndSync
  BY <1>9 DEF EndSync, disk
<1>10. CASE WriteStaged \/ WriteStopping \/ WriteStopped \/ WriteRollbackReady
            \/ WriteApplied \/ WriteStarting
  BY <1>10 DEF WriteStaged, WriteStopping, WriteStopped, WriteRollbackReady,
               WriteApplied, WriteStarting, WriteState, Goto, PathInv, CleanupPcs, TypeOK, Modes
<1>11. CASE WriteRollingBack \/ WriteRollbackFailed
  BY <1>11 DEF WriteRollingBack, WriteRollbackFailed, WriteState, Goto, EndRun, RollbackPhases
<1>12. CASE WriteApplying \/ WriteStarted
  BY <1>12 DEF WriteApplying, WriteStarted, Goto, RollbackPhases, TypeOK
<1>13. ASSUME NEW f \in Files, CloneEntry(f) PROVE WholeInv'
  <2>1. Whole(live) /\ rollback \in World
    BY <1>13 DEF CloneEntry, TypeOK, PathInv, SourceInv, CleanupPcs, Modes
  <2>2. Whole(rollback') /\ UNCHANGED <<live, marker, pc, mode>> /\ pc = "clone"
    BY <1>0, <1>13, <2>1 DEF CloneEntry, TypeOK, World
  <2>3. QED
    BY <2>1, <2>2
<1>14. ASSUME NEW f \in Files, SyncEntry(f) PROVE WholeInv'
  <2>1. /\ UNCHANGED <<rollback, marker, pc, mode>> /\ pc = "sync"
        /\ live' = [live EXCEPT ![f] = SyncSource[f]] /\ todo' = todo \ {f}
    BY <1>14 DEF SyncEntry
  <2>2. SyncSource[f] # Torn
    <3>1. CASE mode = "apply"
      <4>1. stage \in Archives /\ Whole(live)
        BY <2>1, <3>1 DEF SourceInv
      <4>2. QED
        BY <1>0, <3>1, <4>1 DEF SyncSource, Overlay
    <3>2. CASE mode # "apply"
      <4>1. rollback # NoDir
        BY <2>1, <3>2 DEF SourceInv, PathInv, TypeOK, Modes, CleanupPcs
      <4>2. QED
        BY <3>2, <4>1 DEF SyncSource
    <3>3. QED
      BY <3>1, <3>2
  <2>3. live'[f] # Torn /\ \A g \in Files \ {f} : live'[g] = live[g]
    BY <2>1, <2>2 DEF TypeOK, World
  <2>4. QED
    BY <2>1, <2>3
<1>15. ASSUME NEW f \in Files, CleanRollbackEntry(f) PROVE WholeInv'
  <2>1. /\ UNCHANGED <<live, marker, pc, mode, todo>> /\ pc = "clean_rollback" /\ rollback # NoDir
        /\ rollback' = [rollback EXCEPT ![f] = Absent]
    BY <1>15 DEF CleanRollbackEntry, control
  <2>2. Whole(rollback')
    BY <1>0, <2>1 DEF TypeOK, World
  <2>3. QED
    BY <2>1, <2>2
<1>16. CASE CleanStage \/ CleanRollback \/ CleanMarker
  BY <1>16 DEF CleanStage, CleanRollback, CleanMarker, Goto, EndRun
<1>17. CASE Kill \/ Raise
  <2>1. UNCHANGED <<marker, todo>> /\ InterruptedLive /\ pc # "idle"
    BY <1>17 DEF Kill, Raise, Interruptible
  <2>2. rollback' = rollback \/ (pc = "clone" /\ rollback' = NoDir)
    BY <1>17 DEF Kill, Raise, AfterException
  <2>3. ~Whole(live') => /\ ~Whole(live) \/ pc = "sync"
                         /\ rollback' # NoDir /\ marker.phase \in RollbackPhases
    <3>1. CASE live' = live
      BY <2>2, <3>1
    <3>2. CASE pc = "sync"
      <4>1. rollback # NoDir
        BY <3>2 DEF SourceInv, PathInv, TypeOK, Modes, CleanupPcs, RollbackReady
      <4>2. QED
        BY <2>2, <3>2, <4>1
    <3>3. QED
      BY <2>1, <3>1, <3>2 DEF InterruptedLive
  <2>4. \/ pc' = "idle"
        \/ pc' = "w_rolling_back" /\ mode' = "rollback"
        \/ pc' \in {"clean_stage", "release"} /\ pc \notin {"sync", "recover"} /\ mode = "apply"
        \/ pc' = "w_rollback_failed" /\ mode' = "rollback"
    BY <1>17 DEF Kill, Raise, Handled, EndRun
  <2>5. QED
    BY <2>1, <2>2, <2>3, <2>4
<1>r. CASE StartRefused
  BY <1>r, RefusedResult
<1>18. QED
  BY <1>1, <1>2, <1>3, <1>4, <1>5, <1>6, <1>7, <1>8, <1>9, <1>10, <1>11, <1>12,
     <1>13, <1>14, <1>15, <1>16, <1>17, <1>r DEF Next, WorkerStep, Environment

LEMMA WholeKept == Spec => []WholeInv
<1>1. Init => WholeInv
  BY WorldAssumption DEF Init, WholeInv, Whole, OldWorld
<1>2. TypeOK /\ SourceInv /\ PathInv /\ ServerInv /\ WholeInv /\ [Next]_vars => WholeInv'
  BY WholeStep
<1>3. QED
  BY <1>1, <1>2, TypeCorrect, ServerCorrect, PTL DEF Spec

(* Whatever is interrupted, clean-ups after a roll back included, and      *)
(* whoever starts the server meanwhile: the worker starts Minecraft on     *)
(* whole files only.                                                       *)
THEOREM StartsWhole == Spec => StartsWholeFiles
<1>1. WholeInv => [Start => \A f \in Files : live[f] # Torn]_vars
  BY DEF WholeInv, Whole, Start, Goto
<1>2. QED
  BY <1>1, WholeKept, PTL DEF StartsWholeFiles

(* A rollback copy that the marker asks for is missing only behind the     *)
(* clean-up that removed it, and that runs once Minecraft is healthy.      *)
ManualPhases == {"applying", "rolling_back", "rollback_failed"}

LostInv ==
  /\ marker.phase \in ManualPhases /\ rollback = NoDir =>
       /\ mc = "running"
       /\ pc \in CleanupPcs \cup {"idle", "recover", "w_rollback_failed"}
  /\ pc = "w_rollback_failed" /\ rollback = NoDir => mc = "running"
  /\ mode \in {"recover", "rollback"} /\ pc \in {"release", "start", "await"} =>
       rollback # NoDir
  /\ mode = "apply" /\ pc = "clone" => marker.phase \notin ManualPhases
  /\ mode = "apply" /\ pc = "clone_dir" => marker.phase \notin ManualPhases

LEMMA LostStep ==
  ASSUME TypeOK, SourceInv, PathInv, ServerInv, LostInv, [Next]_vars
  PROVE  LostInv'
<1> USE DEF LostInv, CleanupPcs, ManualPhases
<1>m. mode \in Modes
  BY DEF TypeOK
<1>0. NoDir \notin World /\ EmptyDir \in World
  BY EmptyIsWorld, RestoreAssumption
<1>1. CASE Play \/ AdminStart \/ UNCHANGED vars
  BY <1>1 DEF Play, AdminStart, vars, control, docker, disk
<1>2. ASSUME NEW a \in Archives, Launch(a) PROVE LostInv'
  BY <1>2 DEF Launch, disk, docker
<1>3. CASE RecoverNothing \/ RecoverManual
  BY <1>3 DEF RecoverNothing, RecoverManual, RecoveryMode, Goto, EndRun, disk,
              docker
<1>4. CASE RecoverInterrupted
  BY <1>4 DEF RecoverInterrupted, RecoveryMode, RollbackPhases, disk, docker
<1>5. CASE Extract \/ Stop \/ Engage \/ EndClone \/ EndSync
  BY <1>5, <1>m DEF Extract, Stop, Engage, EndClone, EndSync, Goto, disk, docker,
                    SourceInv, PathInv, Modes
<1>6. CASE CloneDir
  BY <1>6, <1>0 DEF CloneDir, Goto, docker
<1>7. CASE WriteStaged \/ WriteStopping \/ WriteStopped \/ WriteRollbackReady
           \/ WriteApplied \/ WriteStarting
  BY <1>7, <1>m DEF WriteStaged, WriteStopping, WriteStopped, WriteRollbackReady,
                    WriteApplied, WriteStarting, WriteState, Goto, docker,
                    PathInv, SourceInv, RollbackReady, Modes
<1>8. CASE WriteApplying \/ WriteStarted \/ WriteRollingBack
           \/ WriteRollbackFailed
  BY <1>8, <1>m DEF WriteApplying, WriteStarted, WriteRollingBack, WriteState,
                    WriteRollbackFailed, Goto, EndRun, docker, PathInv,
                    SourceInv, RollbackReady, Modes
<1>9. ASSUME NEW f \in Files, CloneEntry(f) PROVE LostInv'
  <2>1. rollback' \in World
    BY <1>9, FolderSteps
  <2>2. QED
    BY <1>9, <1>0, <2>1 DEF CloneEntry, docker
<1>10. ASSUME NEW f \in Files, SyncEntry(f) PROVE LostInv'
  BY <1>10 DEF SyncEntry, docker
<1>11. CASE Release \/ Start \/ Await
  BY <1>11 DEF Release, Start, Await, Goto, disk, docker
<1>12. ASSUME NEW f \in Files, CleanRollbackEntry(f) PROVE LostInv'
  <2>1. rollback' \in World
    BY <1>12, FolderSteps
  <2>2. QED
    BY <1>12, <1>0, <2>1 DEF CleanRollbackEntry, docker, control
<1>13. CASE CleanStage \/ CleanRollback \/ CleanMarker
  BY <1>13 DEF CleanStage, CleanRollback, CleanMarker, Goto, EndRun, docker,
               ServerInv
<1>14. CASE Kill
  BY <1>14 DEF Kill, EndRun, InterruptedDocker, Interruptible
<1>15. CASE Raise
  <2>1. /\ marker' = marker
        /\ rollback' = rollback \/ (pc = "clone" /\ rollback' = NoDir)
        /\ mc' = mc \/ pc = "await"
    BY <1>15 DEF Raise, AfterException, InterruptedDocker
  <2>2. \/ pc' = "idle"
        \/ /\ mode = "apply" /\ RollbackReady
           /\ pc' = "w_rolling_back" /\ mode' = "rollback"
        \/ /\ mode = "apply" /\ mode' = "abort"
           /\ pc' \in {"clean_stage", "release"}
           /\ pc \in {"w_stopping", "stop", "engage", "w_stopped", "clone_dir",
                      "clone"}
           /\ pc' = "clean_stage" => pc = "w_stopping"
        \/ mode = "rollback" /\ mode' = mode /\ pc' = "w_rollback_failed"
    BY <1>15 DEF Raise, Handled, EndRun
  <2>3. pc # "idle"
    BY <1>15 DEF Raise, Interruptible
  <2>4. pc = "clone" => mode = "apply"
    BY <1>m DEF PathInv, Modes
  <2>5. CASE pc' = "idle"
    <3>1. pc # "clone"
      BY <1>15, <2>4, <2>5 DEF Raise, Handled, EndRun, RollbackReady
    <3>2. QED
      BY <2>1, <2>3, <2>5, <3>1
  <2>6. CASE mode = "apply" /\ mode' \in {"rollback", "abort"}
    BY <2>1, <2>2, <2>6 DEF SourceInv, RollbackReady
  <2>7. CASE mode = "rollback" /\ mode' = mode /\ pc' = "w_rollback_failed"
    <3>1. rollback = NoDir => mc = "running" /\ pc # "await"
      BY <2>3, <2>7 DEF SourceInv, PathInv, ServerInv
    <3>2. QED
      BY <2>1, <2>4, <2>7, <3>1
  <2>8. QED
    BY <2>2, <2>5, <2>6, <2>7
<1>r. CASE StartRefused
  BY <1>r, RefusedResult DEF SourceInv, RollbackReady
<1>16. QED
  BY <1>1, <1>2, <1>3, <1>4, <1>5, <1>6, <1>7, <1>8, <1>9, <1>10, <1>11, <1>12,
     <1>13, <1>14, <1>15, <1>r DEF Next, WorkerStep, Environment

(* Whatever is interrupted, on however many runs: where the worker asks    *)
(* for a manual intervention, Minecraft runs on whole files                *)
(* (_recover_interrupted_transaction, _cleanup_transaction).               *)
THEOREM ManualServesWholeHolds == Spec => []ManualServesWhole
<1>1. Init => LostInv
  BY DEF Init, LostInv, ManualPhases
<1>2. TypeOK /\ SourceInv /\ PathInv /\ ServerInv /\ LostInv /\ [Next]_vars
        => LostInv'
  BY LostStep
<1>3. TypeOK /\ ServerInv /\ WholeInv /\ LostInv => ManualServesWhole
  <2> SUFFICES ASSUME TypeOK, ServerInv, WholeInv, LostInv,
                      RecoveryMode = "manual"
               PROVE  mc = "running" /\ Whole(live)
    BY DEF ManualServesWhole, Whole
  <2>1. rollback = NoDir /\ marker.phase \in ManualPhases
    BY DEF RecoveryMode, TypeOK, Phases, RollbackPhases, ManualPhases, ServerInv
  <2>2. QED
    BY <2>1 DEF WholeInv, LostInv
<1>4. QED
  BY <1>1, <1>2, <1>3, TypeCorrect, ServerCorrect, WholeKept, PTL DEF Spec

-----------------------------------------------------------------------------
(* Files are copied with the server stopped: it is stopped before the      *)
(* first of these statements, and none of them is reached in another way.  *)
CopyingPcs == {"engage", "w_stopped", "clone_dir", "clone", "w_rollback_ready",
               "w_applying", "sync"}

CopyInv == pc \in CopyingPcs => mc = "stopped"

LEMMA CopyStep ==
  ASSUME ~AdminMayStart, CopyInv, [Next]_vars
  PROVE  CopyInv'
<1> USE DEF CopyInv, CopyingPcs
<1>1. CASE UNCHANGED vars \/ AdminStart
  BY <1>1 DEF vars, docker, control, AdminStart
<1>2. CASE Play \/ \E a \in Archives : Launch(a)
  BY <1>2 DEF Play, Launch, docker, control
<1>3. CASE RecoverNothing \/ RecoverInterrupted \/ RecoverManual \/ Extract
  BY <1>3 DEF RecoverNothing, RecoverInterrupted, RecoverManual, Extract, Goto,
              EndRun, docker
<1>4. CASE WriteStaged \/ WriteStopping \/ WriteStopped \/ WriteRollbackReady
           \/ WriteApplied \/ WriteStarting \/ WriteRollingBack
  BY <1>4 DEF WriteStaged, WriteStopping, WriteStopped, WriteRollbackReady,
              WriteApplied, WriteStarting, WriteRollingBack, WriteState, Goto,
              docker
<1>5. CASE WriteApplying \/ WriteStarted \/ WriteRollbackFailed
  BY <1>5 DEF WriteApplying, WriteStarted, WriteRollbackFailed, Goto, EndRun,
              docker
<1>6. CASE Stop \/ Engage \/ CloneDir \/ EndClone \/ EndSync
  BY <1>6 DEF Stop, Engage, CloneDir, EndClone, EndSync, Goto, docker
<1>7. CASE \E f \in Files :
             CloneEntry(f) \/ SyncEntry(f) \/ CleanRollbackEntry(f)
  BY <1>7 DEF CloneEntry, SyncEntry, CleanRollbackEntry, docker, control
<1>8. CASE Release \/ Start \/ Await
  BY <1>8 DEF Release, Start, Await, Goto, docker
<1>9. CASE CleanStage \/ CleanRollback \/ CleanMarker
  BY <1>9 DEF CleanStage, CleanRollback, CleanMarker, Goto, EndRun, docker
<1>10. CASE Kill \/ Raise
  BY <1>10 DEF Kill, Raise, EndRun, Handled
<1>r. CASE StartRefused
  BY <1>r DEF StartRefused, Handled, EndRun, docker
<1>11. QED
  BY <1>1, <1>2, <1>3, <1>4, <1>5, <1>6, <1>7, <1>8, <1>9, <1>10, <1>r
     DEF Next, WorkerStep, Environment

(* Files are cloned and replaced with the server stopped, on the nominal,  *)
(* rollback and recovery paths, clean-ups cut short included, as long as   *)
(* only the worker starts it.                                              *)
THEOREM StoppedWhileCopyingHolds ==
  ASSUME ~AdminMayStart
  PROVE  Spec => []StoppedWhileCopying
<1>1. Init => CopyInv
  BY DEF Init, CopyInv, CopyingPcs
<1>2. CopyInv /\ [Next]_vars => CopyInv'
  BY CopyStep
<1>3. CopyInv => StoppedWhileCopying
  BY DEF CopyInv, CopyingPcs, StoppedWhileCopying
<1>4. QED
  BY <1>1, <1>2, <1>3, PTL DEF Spec

-----------------------------------------------------------------------------
(* Atomicity.  From here on the clean-up that follows a roll back is not   *)
(* interrupted.                                                            *)
LEMMA PhaseStep ==
  ASSUME CleanupCompletes, TypeOK, SourceInv, PathInv, ServerInv, PhaseInv,
         [Next]_vars
  PROVE  PhaseInv'
<1> USE DEF PhaseInv, PathInv, CleanupPcs, RollbackPhases, PreparePhases
<1> mode \in Modes
  BY DEF TypeOK
<1> USE DEF Modes
<1> NoDir \notin World /\ EmptyDir \in World
  BY EmptyIsWorld, RestoreAssumption
<1>1. CASE Play \/ AdminStart \/ UNCHANGED vars
  BY <1>1 DEF Play, AdminStart, vars, control, docker, disk
<1>2. ASSUME NEW a \in Archives, Launch(a) PROVE PhaseInv'
  BY <1>2 DEF Launch, disk, docker
<1>3. CASE RecoverNothing \/ RecoverManual
  BY <1>3 DEF RecoverNothing, RecoverManual, RecoveryMode, Goto, EndRun, disk,
              docker
<1>4. CASE RecoverInterrupted
  <2>1. marker.phase = "none" => rollback = NoDir
    BY DEF ServerInv
  <2>2. QED
    BY <1>4, <2>1 DEF RecoverInterrupted, RecoveryMode, disk, docker
<1>5. CASE Extract
  BY <1>5 DEF Extract, Goto, docker
<1>6. CASE Stop \/ Engage \/ CloneDir \/ EndClone \/ EndSync
  BY <1>6 DEF Stop, Engage, CloneDir, EndClone, EndSync, Goto, disk, docker
<1>7. CASE WriteStaged \/ WriteStopping \/ WriteStopped \/ WriteRollbackReady
           \/ WriteApplied \/ WriteStarting \/ WriteRollingBack
  BY <1>7 DEF WriteStaged, WriteStopping, WriteStopped, WriteRollbackReady,
              WriteApplied, WriteStarting, WriteRollingBack, WriteState,
              Goto, docker, SourceInv, RollbackReady
<1>8. CASE WriteApplying \/ WriteStarted
  BY <1>8 DEF WriteApplying, WriteStarted, Goto, docker, SourceInv,
              RollbackReady
<1>9. ASSUME NEW f \in Files, CloneEntry(f) PROVE PhaseInv'
  <2>1. rollback' \in World
    BY <1>9, FolderSteps
  <2>2. QED
    BY <1>9, <2>1 DEF CloneEntry, docker
<1>10. ASSUME NEW f \in Files, SyncEntry(f) PROVE PhaseInv'
  BY <1>10 DEF SyncEntry, docker
<1>11. CASE Release \/ Start \/ Await
  BY <1>11 DEF Release, Start, Await, Goto, disk, docker
<1>12. ASSUME NEW f \in Files, CleanRollbackEntry(f) PROVE PhaseInv'
  BY <1>12 DEF CleanRollbackEntry, docker, control
<1>13. CASE CleanStage \/ CleanRollback
  BY <1>13 DEF CleanStage, CleanRollback, Goto, docker
<1>14. CASE CleanMarker
  BY <1>14 DEF CleanMarker, EndRun, docker
<1>15. CASE WriteRollbackFailed
  BY <1>15 DEF WriteRollbackFailed, EndRun, docker
<1>16. CASE Kill
  BY <1>16 DEF Kill, Interruptible, EndRun
<1>17. CASE Raise
  <2>1. /\ marker' = marker
        /\ pc # "clone" => rollback' = rollback
        /\ pc \in CleanupPcs => mode \notin {"rollback", "recover"}
    BY <1>17 DEF Raise, Interruptible, AfterException
  <2>2. CASE mode = "apply"
    BY <1>17, <2>1, <2>2 DEF Raise, Interruptible, Handled, EndRun, SourceInv,
                             RollbackReady
  <2>3. CASE mode = "rollback"
    BY <1>17, <2>1, <2>3 DEF Raise, Interruptible, Handled, EndRun, SourceInv
  <2>4. CASE mode \in {"commit", "abort", "recover", "reopen", "leftover"}
    BY <1>17, <2>1, <2>4 DEF Raise, Interruptible, Handled, EndRun
  <2>5. QED
    BY <2>2, <2>3, <2>4
<1>r. CASE StartRefused
  BY <1>r, RefusedResult DEF SourceInv, RollbackReady
<1>18. QED
  BY <1>1, <1>2, <1>3, <1>4, <1>5, <1>6, <1>7, <1>8, <1>9, <1>10, <1>11, <1>12,
     <1>13, <1>14, <1>15, <1>16, <1>17, <1>r DEF Next, WorkerStep, Environment

LEMMA PhaseKept ==
  ASSUME CleanupCompletes
  PROVE  Spec => []PhaseInv
<1>1. Init => PhaseInv
  BY DEF Init, PhaseInv, RollbackPhases, CleanupPcs
<1>2. TypeOK /\ SourceInv /\ PathInv /\ ServerInv /\ PhaseInv /\ [Next]_vars
        => PhaseInv'
  BY PhaseStep
<1>3. QED
  BY <1>1, <1>2, TypeCorrect, ServerCorrect, PTL DEF Spec

(* The contents of the folders: from here on only the worker starts the    *)
(* server.                                                                 *)

(* _sync_tree only touches the root entries the archive holds, and what it *)
(* puts there does not depend on what was there.                           *)
LEMMA OverlayTouches ==
  ASSUME NEW w \in World, NEW v \in World, NEW a \in Archives, NEW f \in Files
  PROVE  /\ f \notin Touched(a) => Overlay(w, a)[f] = w[f]
         /\ f \in Touched(a) => Overlay(w, a)[f] = Overlay(v, a)[f]
BY WorldAssumption DEF Overlay, Touched

(* What each folder holds at each statement (FolderInv), step by step: the *)
(* rollback copy stays exact until the clean-up that may remove it.        *)
LEMMA FolderStep ==
  ASSUME CleanupCompletes, ~AdminMayStart, TypeOK, SourceInv, PathInv,
         ServerInv, PhaseInv, FolderInv, [Next]_vars
  PROVE  FolderInv'
<1> USE DEF PathInv, CleanupPcs
<1> mode \in Modes
  BY DEF TypeOK
<1> USE DEF Modes
<1>1. CASE Play
  <2>1. live' \in World /\ live \in World /\ mc = "running"
    BY <1>1, FolderSteps DEF Play, TypeOK
  <2>2. \A f \in Files : live'[f] = live[f] \/ live'[f] \in Played
    BY <1>1 DEF Play, TypeOK, World
  <2>3. UNCHANGED <<stage, rollback, marker, mc, pc, mode, todo, target>>
    BY <1>1 DEF Play, docker, control
  <2>4. ASSUME NEW w, PlayedOver(w, live) PROVE PlayedOver(w, live')
    BY <2>2, <2>4 DEF PlayedOver
  <2>5. QED
    BY <2>1, <2>3, <2>4 DEF FolderInv
<1>2. CASE UNCHANGED vars
  BY <1>2 DEF vars, control, docker, disk, FolderInv
<1>3. CASE AdminStart
  BY <1>3 DEF AdminStart
<1>4. ASSUME NEW a \in Archives, Launch(a) PROVE FolderInv'
  BY <1>4 DEF Launch, FolderInv
<1>5. CASE RecoverNothing \/ RecoverManual
  BY <1>5 DEF RecoverNothing, RecoverManual, Goto, EndRun, FolderInv
<1>6. CASE RecoverInterrupted
  BY <1>6 DEF RecoverInterrupted, FolderInv
<1>7. CASE Extract \/ WriteStaged \/ WriteStopping
  BY <1>7 DEF Extract, WriteStaged, WriteStopping, WriteState, Goto, FolderInv
<1>8. CASE Stop \/ Engage
  <2>1. CASE Stop
    BY <2>1 DEF Stop, Goto, FolderInv, disk
  <2>2. CASE Engage
    <3>1. todo' = (IF mode = "apply" THEN {} ELSE Files) /\ mc' = mc
      BY <2>2 DEF Engage
    <3>2. QED
      BY <2>2, <3>1 DEF Engage, FolderInv, disk
  <2>3. QED
    BY <1>8, <2>1, <2>2
<1>9. CASE WriteStopped
  BY <1>9 DEF WriteStopped, WriteState, Goto, docker, FolderInv
<1>10. CASE CloneDir
  <2>1. \A f \in Files \ todo' : rollback'[f] = live'[f]
    BY <1>10 DEF CloneDir, EmptyDir
  <2>2. QED
    BY <1>10, <2>1 DEF CloneDir, Goto, docker, FolderInv
<1>11. ASSUME NEW f \in Files, CloneEntry(f) PROVE FolderInv'
  <2>1. mode = "apply" /\ pc = "clone" /\ rollback \in World
    BY <1>11 DEF CloneEntry, SourceInv, TypeOK
  <2>2. \A g \in Files \ todo' : rollback'[g] = live'[g]
    BY <1>11, <2>1 DEF CloneEntry, FolderInv, World
  <2>3. QED
    BY <1>11, <2>1, <2>2 DEF CloneEntry, docker, FolderInv
<1>12. CASE EndClone
  <2>1. mode = "apply" /\ pc = "clone" /\ rollback \in World /\ live \in World
    BY <1>12 DEF EndClone, Goto, SourceInv, TypeOK
  <2>2. \A g \in Files : rollback[g] = live[g]
    BY <1>12, <2>1 DEF EndClone, FolderInv
  <2>3. rollback = live
    BY <2>1, <2>2 DEF World
  <2>4. QED
    BY <1>12, <2>1, <2>3 DEF EndClone, Goto, disk, docker, FolderInv
<1>13. CASE WriteRollbackReady
  BY <1>13 DEF WriteRollbackReady, WriteState, Goto, docker, FolderInv
<1>14. CASE WriteApplying
  <2>1. /\ mode = "apply" /\ rollback \in World /\ rollback = live
        /\ stage = target /\ target \in Archives
    BY <1>14 DEF WriteApplying, Goto, SourceInv, TypeOK, FolderInv, RollbackReady
  <2>2. \A f \in Files \ todo' : live'[f] = Overlay(rollback', target')[f]
    BY <1>14, <2>1, OverlayTouches DEF WriteApplying
  <2>3. QED
    BY <1>14, <2>1, <2>2 DEF WriteApplying, Goto, docker, FolderInv
<1>15. ASSUME NEW f \in Files, SyncEntry(f) PROVE FolderInv'
  <2>1. pc = "sync" /\ rollback \in World /\ live \in World
    BY <1>15 DEF SyncEntry, SourceInv, TypeOK, RollbackReady
  <2>2. /\ UNCHANGED <<stage, rollback, marker, mc, pc, mode, target>>
        /\ todo' \subseteq todo
    BY <1>15 DEF SyncEntry, docker
  <2>3. CASE mode = "apply"
    <3>1. stage = target /\ target \in Archives
      BY <2>1, <2>3 DEF SourceInv
    <3>2. SyncSource[f] = Overlay(live, target)[f]
      BY <2>3, <3>1 DEF SyncSource
    <3>3. f \in Touched(target) => SyncSource[f] = Overlay(rollback, target)[f]
      BY <2>1, <3>1, <3>2, OverlayTouches
    <3>4. todo \subseteq Touched(target)
      BY <2>1, <2>3, <3>1 DEF FolderInv
    <3>5. \A g \in Files \ todo' : live'[g] = Overlay(rollback', target')[g]
      BY <1>15, <2>1, <2>2, <2>3, <3>3, <3>4 DEF SyncEntry, FolderInv, World
    <3>6. QED
      BY <2>1, <2>2, <2>3, <3>4, <3>5 DEF FolderInv
  <2>4. CASE mode # "apply"
    <3>1. mode \in {"recover", "rollback"}
      BY <2>1, <2>4
    <3>2. \A g \in Files \ todo' : live'[g] = rollback'[g]
      BY <1>15, <2>1, <2>2, <2>4, <3>1 DEF SyncEntry, SyncSource, FolderInv, World
    <3>3. QED
      BY <2>1, <2>2, <3>1, <3>2 DEF FolderInv
  <2>5. QED
    BY <2>3, <2>4
<1>16. CASE EndSync
  BY <1>16 DEF EndSync, disk, docker, FolderInv, PlayedOver
<1>17. CASE WriteApplied \/ WriteStarting
  BY <1>17 DEF WriteApplied, WriteStarting, WriteState, Goto, docker, FolderInv
<1>18. CASE Release \/ Start \/ Await
  BY <1>18 DEF Release, Start, Await, Goto, disk, docker, FolderInv
<1>19. CASE WriteStarted
  BY <1>19 DEF WriteStarted, Goto, docker, FolderInv
<1>20. CASE WriteRollingBack \/ WriteRollbackFailed
  BY <1>20 DEF WriteRollingBack, WriteRollbackFailed, WriteState, Goto, EndRun,
               docker, FolderInv
<1>21. CASE CleanStage \/ CleanRollback \/ CleanMarker
            \/ \E f \in Files : CleanRollbackEntry(f)
  BY <1>21 DEF CleanStage, CleanRollback, CleanMarker, CleanRollbackEntry, Goto,
               EndRun, control, docker, FolderInv
<1>22. CASE Kill
  BY <1>22 DEF Kill, EndRun, FolderInv
<1>23. CASE Raise
  <2>1. /\ marker' = marker
        /\ pc # "clone" => rollback' = rollback
        /\ pc # "sync" => live' = live
        /\ pc # "await" => mc' = mc
    BY <1>23 DEF Raise, Interruptible, AfterException, InterruptedLive,
                 InterruptedDocker, docker
  <2>2. CASE mode = "apply"
    BY <1>23, <2>1, <2>2 DEF Raise, Handled, EndRun, SourceInv, RollbackReady,
                             FolderInv, PhaseInv
  <2>3. CASE mode = "rollback"
    BY <1>23, <2>1, <2>3 DEF Raise, Interruptible, Handled, EndRun, FolderInv,
                             PhaseInv
  <2>4. CASE mode \in {"commit", "abort", "recover", "reopen", "leftover"}
    BY <1>23, <2>1, <2>4 DEF Raise, Interruptible, Handled, EndRun, FolderInv
  <2>5. QED
    BY <2>2, <2>3, <2>4
<1>r. CASE StartRefused
  BY <1>r, RefusedResult DEF FolderInv, PhaseInv
<1>24. QED
  BY <1>1, <1>2, <1>3, <1>4, <1>5, <1>6, <1>7, <1>8, <1>9, <1>10, <1>11, <1>12,
     <1>13, <1>14, <1>15, <1>16, <1>17, <1>18, <1>19, <1>20, <1>21, <1>22, <1>23, <1>r
     DEF Next, WorkerStep, Environment


(* The inductive invariant of the transaction, on every run.               *)
THEOREM TransactionCorrect ==
  ASSUME CleanupCompletes, ~AdminMayStart
  PROVE  Spec => []TransactionInv
<1>1. Init => FolderInv
  BY DEF Init, FolderInv
<1>2. /\ TypeOK /\ SourceInv /\ PathInv /\ ServerInv /\ PhaseInv /\ FolderInv
      /\ [Next]_vars
      => FolderInv'
  BY FolderStep
<1>3. QED
  BY <1>1, <1>2, TypeCorrect, ServerCorrect, PhaseKept, PTL
     DEF Spec, TransactionInv

-----------------------------------------------------------------------------
(* Refinement: every step of the worker is a step of AtomicWorld or leaves *)
(* the committed world alone.                                              *)
LEMMA AtomicSame ==
  /\ Atomic!World = World
  /\ Atomic!OldWorld = OldWorld
  /\ \A w, v : Atomic!PlayedOver(w, v) = PlayedOver(w, v)
  /\ \A w, a : Atomic!Overlay(w, a) = Overlay(w, a)
BY DEF Atomic!World, Atomic!Content, Atomic!OldWorld, Atomic!PlayedOver,
       Atomic!Overlay, Atomic!Touched, World, Content, OldWorld, PlayedOver,
       Overlay, Touched

(* Each action, mapped to AtomicWorld: a play, a restoration or a stutter. *)
LEMMA AtomicStep ==
  ASSUME CleanupCompletes, ~AdminMayStart, TypeOK, SourceInv, PathInv,
         ServerInv, PhaseInv, FolderInv, TypeOK', [Next]_vars
  PROVE  [Atomic!Next]_CommittedWorld
<1> DEFINE Window == /\ rollback # NoDir
                     /\ marker.phase \in RollbackPhases
                     /\ pc \notin CleanupPcs
<1> USE DEF PathInv, CleanupPcs, RollbackPhases, PreparePhases
<1>a. /\ live \in World /\ live' \in World
      /\ rollback \in World \cup {NoDir}
  BY DEF TypeOK
<1> mode \in Modes
  BY DEF TypeOK
<1> USE DEF Modes
<1>b. CommittedWorld = IF Window THEN rollback ELSE live
  BY DEF CommittedWorld
<1>c. CommittedWorld' = IF Window' THEN rollback' ELSE live'
  BY DEF CommittedWorld
<1> HIDE DEF Window
<1>d. (Window <=> Window') /\ rollback' = rollback /\ live' = live
        => CommittedWorld' = CommittedWorld
  BY <1>b, <1>c
<1>e. Window /\ Window' /\ rollback' = rollback => CommittedWorld' = CommittedWorld
  BY <1>b, <1>c
<1>f. ~Window /\ ~Window' /\ live' = live => CommittedWorld' = CommittedWorld
  BY <1>b, <1>c
<1>1. CASE Play
  <2>1. PlayedOver(live, live') /\ rollback' = rollback
    BY <1>1 DEF Play, PlayedOver, TypeOK, World
  <2>2. Window' <=> Window
    BY <1>1 DEF Play, control, Window
  <2>3. CASE Window
    BY <1>e, <2>1, <2>2, <2>3
  <2>4. CASE ~Window
    BY <1>a, <1>b, <1>c, <2>1, <2>2, <2>4, AtomicSame
       DEF Atomic!Next, Atomic!Play
  <2>5. QED
    BY <2>3, <2>4
<1>2. CASE UNCHANGED vars
  BY <1>2, <1>d DEF vars, control, docker, disk, Window
<1>3. CASE AdminStart
  BY <1>3 DEF AdminStart
<1>4. ASSUME NEW a \in Archives, Launch(a) PROVE UNCHANGED CommittedWorld
  BY <1>4, <1>d DEF Launch, disk, Window
<1>5. CASE RecoverNothing \/ RecoverManual
  BY <1>5, <1>d DEF RecoverNothing, RecoverManual, Goto, EndRun, disk, Window
<1>6. CASE RecoverInterrupted
  BY <1>6, <1>d DEF RecoverInterrupted, RecoveryMode, disk, Window
<1>7. CASE Extract \/ Stop \/ Engage \/ EndClone \/ EndSync \/ Release \/ Start
  BY <1>7, <1>d DEF Extract, Stop, Engage, EndClone, EndSync, Release, Start,
                    Goto, disk, Window
<1>8. CASE WriteStaged \/ WriteStopping \/ WriteStopped
  BY <1>8, <1>f DEF WriteStaged, WriteStopping, WriteStopped, WriteState, Goto,
                    ServerInv, PhaseInv, Window
<1>9. CASE CloneDir \/ \E f \in Files : CloneEntry(f)
  BY <1>9, <1>f DEF CloneDir, CloneEntry, Goto, PhaseInv, Window
<1>10. CASE WriteRollbackReady
  <2>1. rollback = live /\ rollback' = rollback /\ live' = live
    BY <1>10 DEF WriteRollbackReady, WriteState, Goto, FolderInv
  <2>2. QED
    BY <1>b, <1>c, <2>1
<1>11. CASE WriteApplying \/ WriteApplied \/ WriteStarting
  BY <1>11, <1>d DEF WriteApplying, WriteApplied, WriteStarting, WriteState, Goto,
                     PhaseInv, Window
<1>12. ASSUME NEW f \in Files, SyncEntry(f) PROVE UNCHANGED CommittedWorld
  BY <1>12, <1>e DEF SyncEntry, PhaseInv, Window
<1>13. CASE Await
  <2>1. rollback' = rollback /\ live' = live /\ marker' = marker
    BY <1>13 DEF Await, disk
  <2>2. CASE mode \in {"apply", "abort", "reopen"}
    BY <1>13, <1>d, <2>1, <2>2 DEF Await, PhaseInv, Window
  <2>3. CASE mode \in {"recover", "rollback"}
    <3>1. Window /\ ~Window' /\ PlayedOver(rollback, live)
      BY <1>13, <2>3 DEF Await, PhaseInv, FolderInv, Window
    <3>2. QED
      BY <1>a, <1>b, <1>c, <2>1, <3>1, AtomicSame
         DEF Atomic!Next, Atomic!Play
  <2>4. QED
    BY <1>13, <2>2, <2>3 DEF Await
<1>14. CASE WriteStarted
  <2>1. /\ Window /\ ~Window' /\ live' = live /\ target \in Archives
        /\ PlayedOver(Overlay(rollback, target), live)
    BY <1>14 DEF WriteStarted, Goto, PhaseInv, FolderInv, SourceInv, Window
  <2>2. Atomic!Restore(target)
    BY <1>a, <1>b, <1>c, <2>1, AtomicSame DEF Atomic!Restore
  <2>3. QED
    BY <2>1, <2>2 DEF Atomic!Next
<1>15. CASE WriteRollingBack \/ WriteRollbackFailed
  <2>1. /\ rollback' = rollback /\ live' = live /\ mode = "rollback"
        /\ pc \in {"w_rolling_back", "w_rollback_failed"}
    BY <1>15 DEF WriteRollingBack, WriteRollbackFailed, WriteState, Goto
  <2>2. CASE rollback = live
    BY <1>b, <1>c, <2>1, <2>2
  <2>3. CASE marker.phase \in RollbackPhases
    <3>1. Window /\ Window'
      BY <1>15, <2>1, <2>3 DEF WriteRollingBack, WriteRollbackFailed, WriteState,
                               Goto, EndRun, PhaseInv, Window
    <3>2. QED
      BY <1>e, <2>1, <3>1
  <2>4. QED
    BY <2>1, <2>2, <2>3 DEF FolderInv
<1>16. CASE CleanStage \/ CleanRollback \/ CleanMarker
            \/ \E f \in Files : CleanRollbackEntry(f)
  BY <1>16, <1>f DEF CleanStage, CleanRollback, CleanMarker, CleanRollbackEntry,
                     Goto, EndRun, control, Window
<1>17. CASE Kill
  <2>1. rollback' = rollback /\ marker' = marker /\ pc' = "idle"
    BY <1>17 DEF Kill, EndRun
  <2>2. CASE pc = "sync"
    BY <1>e, <2>1, <2>2 DEF PhaseInv, Window
  <2>3. CASE pc # "sync"
    <3>1. live' = live
      BY <1>17, <2>3 DEF Kill, InterruptedLive
    <3>2. Window <=> Window'
      BY <1>17, <2>1 DEF Kill, Interruptible, PhaseInv, Window
    <3>3. QED
      BY <1>d, <2>1, <3>1, <3>2
  <2>4. QED
    BY <2>2, <2>3
<1>18. CASE Raise
  <2>1. marker' = marker /\ (pc # "clone" => rollback' = rollback)
    BY <1>18 DEF Raise, AfterException
  <2>2. pc \in CleanupPcs => marker.phase \notin RollbackPhases /\ mode # "rollback"
    BY <1>18 DEF Raise, Interruptible, PhaseInv
  <2>3. pc' \in CleanupPcs => pc = "w_stopping"
    BY <1>18 DEF Raise, Handled, EndRun
  <2>4. CASE pc = "sync"
    BY <1>e, <2>1, <2>3, <2>4 DEF PhaseInv, Window
  <2>5. CASE pc = "clone"
    <3>1. ~Window /\ ~Window'
      BY <2>1, <2>5 DEF PhaseInv, Window
    <3>2. QED
      BY <1>18, <1>f, <2>5, <3>1 DEF Raise, InterruptedLive
  <2>6. CASE pc \notin {"sync", "clone"}
    <3>1. live' = live
      BY <1>18, <2>6 DEF Raise, InterruptedLive
    <3>2. Window <=> Window'
      BY <2>1, <2>2, <2>3, <2>6 DEF PhaseInv, Window
    <3>3. QED
      BY <1>d, <2>1, <2>6, <3>1, <3>2
  <2>7. QED
    BY <2>4, <2>5, <2>6
<1>r. CASE StartRefused
  BY <1>r, <1>d, RefusedResult DEF PhaseInv, Window
<1>19. QED
  BY <1>1, <1>2, <1>3, <1>4, <1>5, <1>6, <1>7, <1>8, <1>9, <1>10, <1>11, <1>12,
     <1>13, <1>14, <1>15, <1>16, <1>17, <1>18, <1>r DEF Next, WorkerStep, Environment

(* A restoration is atomic across any number of runs, kills and failures.  *)
THEOREM AtomicRestoreHolds ==
  ASSUME CleanupCompletes, ~AdminMayStart
  PROVE  Spec => AtomicRestore
<1>1. Init => Atomic!Init
  BY AtomicSame DEF Init, Atomic!Init, CommittedWorld
<1>2. TypeOK /\ SourceInv /\ PathInv /\ ServerInv /\ TransactionInv /\ TypeOK'
        /\ [Next]_vars => [Atomic!Next]_CommittedWorld
  BY AtomicStep DEF TransactionInv
<1>3. QED
  BY <1>1, <1>2, TypeCorrect, ServerCorrect, TransactionCorrect, PTL
     DEF Spec, AtomicRestore, Atomic!Spec

-----------------------------------------------------------------------------
(***************************************************************************)
(* The worker as the other parts see it: RestoreSeen, the component that   *)
(* Coordination composes with them, is implemented by restore_worker.py.   *)
(* `mixed' records whether the last _sync_tree to begin has not ended.  In *)
(* w_rollback_failed only the marker is left to be written, and the run    *)
(* counts as over.                                                         *)
(***************************************************************************)
VARIABLE mixed

SeenWorker ==
  CASE pc \in {"idle", "w_rollback_failed"} -> "off"
    [] pc \in {"recover", "extract", "w_staged", "w_stopping"} -> "prep"
    [] pc \in {"stop", "w_rolling_back"} -> "stop"
    [] pc = "engage" -> "engage"
    [] pc \in {"w_stopped", "clone_dir", "clone", "w_rollback_ready",
               "w_applying"} -> "copy"
    [] pc = "sync" -> "replacing"
    [] pc \in {"w_applied", "w_starting", "release"} -> "release"
    [] pc = "start" -> "start"
    [] pc \in CleanupPcs /\ (\/ mode = "leftover"
                             \/ mode = "abort" /\ marker.phase = "staged")
         -> "prep"
    [] OTHER -> "await"

SeenUndoing ==
  /\ SeenWorker \notin {"off", "prep"}
  /\ mode \in {"recover", "rollback", "abort", "reopen"}

SeenExit ==
  IF pc # "w_rollback_failed" /\ exit \in {"none", "ok"} THEN exit ELSE "failed"

SeenDoorman == IF doorman = "up" THEN "restore" ELSE "down"

SeenWorld == IF mixed THEN "mixed" ELSE "whole"

Seen == INSTANCE RestoreSeen WITH
          WorkerDies <- TRUE, doorman <- SeenDoorman, worker <- SeenWorker,
          undoing <- SeenUndoing, workerExit <- SeenExit, world <- SeenWorld

Recording ==
  mixed' = IF pc' = "sync" THEN TRUE
           ELSE IF pc = "sync" /\ pc' \in {"w_applied", "release"} THEN FALSE
           ELSE mixed

recordedVars == <<vars, mixed>>

RecordedSpec ==
  Init /\ mixed = FALSE /\ [][Next /\ Recording]_recordedVars

LEMMA RecordedRuns == RecordedSpec => Spec
<1>1. [Next /\ Recording]_recordedVars => [Next]_vars
  BY DEF recordedVars
<1>2. QED
  BY <1>1, PTL DEF RecordedSpec, Spec

(* Files are cut short, and a rollback copy is owed, only while the world  *)
(* is recorded as mixed; then the only way on is to put the copy back.     *)
(* The marker tells an abort before the stop of the server from a later    *)
(* one.                                                                    *)
RecordInv ==
  /\ mixed \in BOOLEAN
  /\ pc = "sync" => mixed
  /\ mixed =>
       /\ rollback # NoDir /\ marker.phase \in RollbackPhases
       /\ \/ pc \in {"idle", "recover", "sync"}
          \/ /\ mode \in {"recover", "rollback"}
             /\ pc \in {"w_rolling_back", "w_rollback_failed", "stop",
                        "engage"}
  /\ ~mixed => Whole(live)
  /\ mode = "apply" =>
       /\ pc = "w_stopping" => marker.phase = "staged"
       /\ pc \in {"stop", "engage", "w_stopped", "clone_dir", "clone"} =>
            marker.phase # "staged"
  /\ mode = "abort" /\ pc \in {"release", "start", "await"} =>
       marker.phase # "staged"

(* What is recorded by a step.                                             *)
LEMMA RecordingResult ==
  ASSUME RecordInv, Recording
  PROVE  /\ mixed' \in BOOLEAN
         /\ pc' = "sync" => mixed'
         /\ pc' = pc \/ (pc # "sync" /\ pc' # "sync") => mixed' = mixed
         /\ pc = "sync" /\ pc' \notin {"w_applied", "release"} => mixed'
         /\ pc = "sync" /\ pc' \in {"w_applied", "release"} => ~mixed'
<1> USE DEF RecordInv
<1>1. CASE pc' = "sync"
  BY <1>1 DEF Recording
<1>2. CASE pc' # "sync" /\ pc = "sync" /\ pc' \in {"w_applied", "release"}
  BY <1>2 DEF Recording
<1>3. CASE pc' # "sync" /\ ~(pc = "sync" /\ pc' \in {"w_applied", "release"})
  BY <1>3 DEF Recording
<1>4. QED
  BY <1>1, <1>2, <1>3

LEMMA RecordStep ==
  ASSUME TypeOK, SourceInv, PathInv, ServerInv, WholeInv, RecordInv,
         [Next /\ Recording]_recordedVars
  PROVE  RecordInv'
<1> USE DEF RecordInv, CleanupPcs
<1>1. CASE UNCHANGED recordedVars
  BY <1>1 DEF recordedVars, vars, control, docker, disk, Whole
<1> SUFFICES ASSUME Next, Recording PROVE RecordInv'
  BY <1>1
<1>a. /\ mixed' \in BOOLEAN
      /\ pc' = "sync" => mixed'
      /\ pc # "sync" /\ pc' # "sync" => mixed' = mixed
      /\ pc = "sync" /\ pc' \in {"idle", "w_rolling_back", "w_rollback_failed"}
           => mixed'
      /\ pc = "sync" /\ pc' \in {"w_applied", "release"} => ~mixed'
  BY RecordingResult
<1>b. live' = live /\ Whole(live) => Whole(live')
  BY DEF Whole
<1>c. mode \in Modes
  BY DEF TypeOK
<1>2. CASE Play
  <2>1. UNCHANGED <<rollback, marker, pc, mode>>
    BY <1>2 DEF Play, control
  <2>2. Whole(live) => Whole(live')
    BY <1>2, WorldAssumption DEF Play, Whole, TypeOK, World
  <2>3. QED
    BY <1>a, <2>1, <2>2
<1>3. CASE AdminStart
  BY <1>3, <1>a, <1>b DEF AdminStart, control, disk
<1>4. ASSUME NEW a \in Archives, Launch(a) PROVE RecordInv'
  BY <1>4, <1>a, <1>b DEF Launch, disk
<1>5. CASE RecoverNothing \/ RecoverManual
  BY <1>5, <1>a, <1>b
     DEF RecoverNothing, RecoverManual, Goto, EndRun, disk, RecoveryMode
<1>6. CASE RecoverInterrupted
  BY <1>6, <1>a, <1>b DEF RecoverInterrupted, RecoveryMode, RollbackPhases, disk
<1>7. CASE Extract \/ CloneDir \/ EndClone \/ EndSync
  <2>1. CASE EndSync
    <3>1. Whole(live)
      BY <2>1 DEF EndSync, WholeInv, Whole
    <3>2. QED
      BY <2>1, <3>1, <1>a, <1>b DEF EndSync, disk, PathInv
  <2>2. CASE Extract \/ CloneDir \/ EndClone
    BY <2>2, <1>a, <1>b DEF Extract, CloneDir, EndClone, Goto, disk, PathInv
  <2>3. QED
    BY <1>7, <2>1, <2>2
<1>8. CASE Stop
  BY <1>8, <1>a, <1>b DEF Stop, Goto, disk, PathInv
<1>9. CASE Engage
  BY <1>9, <1>a, <1>b, <1>c
     DEF Engage, disk, PathInv, SourceInv, WholeInv, Modes
<1>10. CASE WriteStaged \/ WriteStopping \/ WriteStopped \/ WriteRollbackReady
            \/ WriteApplied \/ WriteStarting
  <2>1. /\ ~mixed /\ mode = "apply" /\ pc # "sync"
        /\ UNCHANGED <<live, rollback, mode>>
    BY <1>10, <1>c
       DEF WriteStaged, WriteStopping, WriteStopped, WriteRollbackReady,
           WriteApplied, WriteStarting, WriteState, Goto, PathInv, Modes
  <2>2. /\ pc' # "sync"
        /\ pc' = "w_stopping" => marker'.phase = "staged"
        /\ pc' \in {"stop", "engage", "w_stopped", "clone_dir", "clone"} =>
             marker'.phase # "staged"
    BY <1>10 DEF WriteStaged, WriteStopping, WriteStopped, WriteRollbackReady,
                 WriteApplied, WriteStarting, WriteState, Goto
  <2>3. QED
    BY <1>a, <1>b, <2>1, <2>2
<1>11. CASE WriteApplying
  <2>1. /\ mode = "apply" /\ mode' = mode /\ rollback' = rollback
        /\ pc' = "sync" /\ rollback # NoDir
    BY <1>11, <1>c
       DEF WriteApplying, Goto, PathInv, SourceInv, RollbackReady, Modes
  <2>2. marker'.phase \in RollbackPhases
    BY <1>11 DEF WriteApplying, RollbackPhases
  <2>3. QED
    BY <1>a, <2>1, <2>2
<1>12. CASE WriteStarted \/ WriteRollingBack \/ WriteRollbackFailed
  <2>1. UNCHANGED <<live, rollback>> /\ pc # "sync" /\ pc' # "sync"
    BY <1>12
       DEF WriteStarted, WriteRollingBack, WriteRollbackFailed, WriteState,
                 Goto, EndRun
  <2>2. /\ mode' \notin {"apply", "abort"}
        /\ \/ ~mixed
           \/ /\ mode' \in {"recover", "rollback"} /\ pc' \in {"stop", "idle"}
              /\ marker'.phase \in RollbackPhases
    BY <1>12
       DEF WriteStarted, WriteRollingBack, WriteRollbackFailed, WriteState,
                 Goto, EndRun, PathInv, RollbackPhases
  <2>3. QED
    BY <1>a, <1>b, <2>1, <2>2
<1>13. ASSUME NEW f \in Files, CloneEntry(f) PROVE RecordInv'
  BY <1>13, <1>a, <1>b DEF CloneEntry
<1>14. ASSUME NEW f \in Files, SyncEntry(f) PROVE RecordInv'
  BY <1>14, <1>a DEF SyncEntry
<1>15. CASE Release \/ Start \/ Await
  BY <1>15, <1>a, <1>b DEF Release, Start, Await, Goto, disk
<1>16. ASSUME NEW f \in Files, CleanRollbackEntry(f) PROVE RecordInv'
  BY <1>16, <1>a, <1>b DEF CleanRollbackEntry, control
<1>17. CASE CleanStage \/ CleanRollback \/ CleanMarker
  BY <1>17, <1>a, <1>b DEF CleanStage, CleanRollback, CleanMarker, Goto, EndRun
<1>18. CASE Kill \/ Raise
  <2>1. /\ marker' = marker
        /\ pc # "clone" => rollback' = rollback
        /\ pc # "sync" => live' = live
    BY <1>18 DEF Kill, Raise, AfterException, InterruptedLive
  <2>2. CASE pc' = "idle"
    BY <1>a, <1>b, <2>1, <2>2
  <2>3. CASE pc' # "idle"
    <3>1. Raise
      BY <1>18, <2>3 DEF Kill, EndRun
    <3>2. \/ /\ mode = "apply" /\ RollbackReady
             /\ pc' = "w_rolling_back" /\ mode' = "rollback"
          \/ /\ mode = "apply" /\ mode' = "abort"
             /\ pc = "w_stopping" /\ pc' = "clean_stage"
          \/ /\ mode = "apply" /\ mode' = "abort"
             /\ pc \in {"stop", "engage", "w_stopped", "clone_dir", "clone"}
             /\ pc' = "release"
          \/ mode = "rollback" /\ mode' = mode /\ pc' = "w_rollback_failed"
      BY <2>3, <3>1 DEF Raise, Handled, EndRun
    <3>3. QED
      BY <1>a, <1>b, <2>1, <3>2 DEF RollbackReady
  <2>4. QED
    BY <2>2, <2>3
<1>r. CASE StartRefused
  BY <1>r, <1>a, <1>b, RefusedResult
<1>19. QED
  BY <1>2, <1>3, <1>4, <1>5, <1>6, <1>7, <1>8, <1>9, <1>10, <1>11, <1>12,
     <1>13, <1>14, <1>15, <1>16, <1>17, <1>18, <1>r DEF Next, WorkerStep, Environment

LEMMA RecordKept == RecordedSpec => []RecordInv
<1>1. Init /\ mixed = FALSE => RecordInv
  BY WorldAssumption DEF Init, RecordInv, Whole, OldWorld
<1>2. TypeOK /\ SourceInv /\ PathInv /\ ServerInv /\ WholeInv /\ RecordInv
        /\ [Next /\ Recording]_recordedVars => RecordInv'
  BY RecordStep
<1>3. QED
  BY <1>1, <1>2, RecordedRuns, TypeCorrect, ServerCorrect, WholeKept, PTL
     DEF RecordedSpec

(* Every statement of the worker, every kill and every exception is a step *)
(* of RestoreSeen, or is not seen.                                         *)
LEMMA SeenStep ==
  ASSUME TypeOK, PathInv, ServerInv, RecordInv,
         [Next /\ Recording]_recordedVars
  PROVE  [Seen!SeenNext]_(Seen!seenVars)
<1>s. ASSUME UNCHANGED <<mc, doorman, mixed, SeenWorker, SeenUndoing, SeenExit>>
      PROVE  UNCHANGED Seen!seenVars
  BY <1>s DEF Seen!seenVars, Seen!workerState, SeenDoorman, SeenWorld
<1>1. CASE UNCHANGED recordedVars
  BY <1>1, <1>s DEF recordedVars, vars, control, docker, disk, SeenWorker,
                    SeenUndoing, SeenExit
<1> SUFFICES ASSUME Next, Recording PROVE [Seen!SeenNext]_(Seen!seenVars)
  BY <1>1
<1>m. /\ mixed \in BOOLEAN /\ mixed' \in BOOLEAN
      /\ pc' = "sync" => mixed'
      /\ pc' = pc \/ (pc # "sync" /\ pc' # "sync") => mixed' = mixed
      /\ pc = "sync" /\ pc' \notin {"w_applied", "release"} => mixed'
      /\ pc = "sync" /\ pc' \in {"w_applied", "release"} => ~mixed'
  BY RecordingResult DEF RecordInv
<1>w. /\ mixed => SeenWorld = "mixed"
      /\ ~mixed => SeenWorld = "whole"
      /\ mixed' => SeenWorld' = "mixed"
      /\ ~mixed' => SeenWorld' = "whole"
  BY DEF SeenWorld
<1>u. /\ /\ SeenWorker \notin {"off", "prep"}
         /\ mode \in {"recover", "rollback", "abort", "reopen"}
         => SeenUndoing = TRUE
      /\ \/ SeenWorker \in {"off", "prep"}
         \/ mode \notin {"recover", "rollback", "abort", "reopen"}
         => SeenUndoing = FALSE
  BY DEF SeenUndoing
<1>v. /\ /\ SeenWorker' \notin {"off", "prep"}
         /\ mode' \in {"recover", "rollback", "abort", "reopen"}
         => SeenUndoing' = TRUE
      /\ \/ SeenWorker' \in {"off", "prep"}
         \/ mode' \notin {"recover", "rollback", "abort", "reopen"}
         => SeenUndoing' = FALSE
  BY DEF SeenUndoing
<1>e. /\ SeenWorker \notin {"off", "prep"} /\ SeenWorker' \notin {"off", "prep"}
           /\ mode' = mode => SeenUndoing' = SeenUndoing
      /\ mixed' = mixed => SeenWorld' = SeenWorld
  BY DEF SeenUndoing, SeenWorld
<1>x. /\ pc # "w_rollback_failed" /\ exit \in {"none", "ok"} => SeenExit = exit
      /\ pc = "w_rollback_failed" \/ exit \notin {"none", "ok"} =>
           SeenExit = "failed"
      /\ pc' # "w_rollback_failed" /\ exit' \in {"none", "ok"} =>
           SeenExit' = exit'
      /\ pc' = "w_rollback_failed" \/ exit' \notin {"none", "ok"} =>
           SeenExit' = "failed"
  BY DEF SeenExit
<1>d. /\ doorman' = doorman => SeenDoorman' = SeenDoorman
      /\ doorman = "down" => SeenDoorman = "down"
      /\ doorman' = "down" => SeenDoorman' = "down"
      /\ doorman' = "up" => SeenDoorman' = "restore"
      /\ doorman = "up" => SeenDoorman = "restore"
  BY DEF SeenDoorman
<1>t. mode \in Modes /\ doorman \in {"up", "down"}
  BY DEF TypeOK
<1> USE DEF CleanupPcs
<1>2. CASE Play
  BY <1>2, <1>s, <1>m
     DEF Play, control, docker, SeenWorker, SeenUndoing, SeenExit
<1>3. CASE AdminStart
  <2>1. /\ SeenDoorman = "down" /\ mc' = "running" /\ SeenDoorman' = SeenDoorman
        /\ SeenWorker' = SeenWorker /\ SeenUndoing' = SeenUndoing
        /\ SeenExit' = SeenExit /\ SeenWorld' = SeenWorld
    BY <1>3, <1>m, <1>d DEF AdminStart, control, disk, SeenWorker, SeenUndoing,
                            SeenExit, SeenWorld
  <2>2. QED
    BY <2>1 DEF Seen!SeenNext, Seen!StartedByHand, Seen!workerState
<1>4. ASSUME NEW a \in Archives, Launch(a) PROVE Seen!WorkerLaunched
  <2>1. SeenWorker = "off" /\ SeenWorker' = "prep"
    BY <1>4 DEF Launch, SeenWorker
  <2>2. SeenWorld' = SeenWorld
    BY <1>4, <1>m DEF Launch, SeenWorld
  <2>3. QED
    BY <1>4, <1>d, <1>u, <1>v, <1>x, <2>1, <2>2
       DEF Launch, docker, Seen!WorkerLaunched
<1>5. CASE RecoverNothing \/ Extract \/ WriteStaged
  <2>1. SeenWorker = "prep" /\ SeenWorker' = "prep"
    BY <1>5
       DEF RecoverNothing, Extract, WriteStaged, WriteState, Goto, SeenWorker
  <2>2. QED
    BY <1>5, <2>1, <1>s, <1>m, <1>u, <1>v
       DEF RecoverNothing, Extract, WriteStaged, WriteState, Goto, docker, SeenExit
<1>6. CASE RecoverInterrupted
  <2>1. /\ pc = "recover" /\ SeenWorker = "prep" /\ mixed' = mixed
        /\ UNCHANGED <<mc, doorman, exit>>
        /\ pc' \in {"clean_stage", "stop", "release"}
    BY <1>6, <1>m DEF RecoverInterrupted, docker, SeenWorker
  <2>2. SeenWorld' = SeenWorld /\ SeenExit' = SeenExit
    BY <2>1 DEF SeenWorld, SeenExit
  <2>3. CASE RecoveryMode = "leftover"
    <3>1. SeenWorker' = "prep"
      BY <1>6, <2>3 DEF RecoverInterrupted, SeenWorker
    <3>2. QED
      BY <2>1, <2>2, <3>1, <1>s, <1>u, <1>v
  <2>4. CASE RecoveryMode = "recover"
    <3>1. SeenWorker' = "stop" /\ mode' = "recover"
      BY <1>6, <2>4 DEF RecoverInterrupted, SeenWorker
    <3>2. QED
      BY <2>1, <2>2, <3>1, <1>v, <1>d
         DEF Seen!WorkerBegins, Seen!WorkerStep, Seen!SeenNext
  <2>5. CASE RecoveryMode = "reopen"
    <3>1. SeenWorker' = "release" /\ mode' = "reopen"
      BY <1>6, <2>5 DEF RecoverInterrupted, SeenWorker
    <3>2. SeenWorld = "whole"
      BY <2>1, <2>5, <1>w DEF RecoveryMode, RecordInv, RollbackPhases
    <3>3. QED
      BY <2>1, <2>2, <3>1, <3>2, <1>v, <1>d
         DEF Seen!WorkerBegins, Seen!WorkerStep, Seen!SeenNext
  <2>6. QED
    BY <1>6, <2>3, <2>4, <2>5 DEF RecoverInterrupted
<1>7. CASE RecoverManual
  <2>1. SeenWorker = "prep" /\ SeenWorker' = "off"
    BY <1>7 DEF RecoverManual, EndRun, SeenWorker
  <2>2. SeenWorld' = SeenWorld /\ SeenExit' = "failed"
    BY <1>7, <1>m, <1>x DEF RecoverManual, EndRun, SeenWorld
  <2>3. QED
    BY <1>7, <1>d, <1>u, <1>v, <2>1, <2>2
       DEF RecoverManual, docker, Seen!WorkerGivesUp, Seen!WorkerStep, Seen!SeenNext
<1>8. CASE WriteStopping
  <2>1. SeenWorker = "prep" /\ SeenWorker' = "stop" /\ ~mixed /\ mixed' = mixed
    BY <1>8, <1>m DEF WriteStopping, WriteState, Goto, SeenWorker, RecordInv
  <2>2. mode' = "apply" /\ UNCHANGED <<mc, doorman, SeenExit, SeenWorld>>
    BY <1>8, <1>t, <2>1
       DEF WriteStopping, WriteState, Goto, docker, PathInv, Modes, SeenExit, SeenWorld
  <2>3. QED
    BY <1>d, <1>v, <1>w, <2>1, <2>2
       DEF Seen!WorkerBegins, Seen!WorkerStep, Seen!SeenNext
<1>9. CASE Stop
  <2>1. /\ SeenWorker = "stop" /\ SeenWorker' = "engage" /\ mc' = "stopped"
        /\ UNCHANGED <<doorman, mixed, mode, SeenExit>>
    BY <1>9, <1>m DEF Stop, Goto, SeenWorker, SeenExit
  <2>2. QED
    BY <1>d, <1>e, <2>1
       DEF Seen!WorkerStop, Seen!WorkerStep, Seen!SeenNext
<1>10. CASE Engage
  <2>1. /\ SeenWorker = "engage" /\ UNCHANGED <<mc, mode, SeenExit>>
    BY <1>10 DEF Engage, SeenWorker, SeenExit
  <2>2. \/ SeenDoorman' = SeenDoorman
        \/ SeenDoorman = "down" /\ mc = "stopped" /\ SeenDoorman' = "restore"
    BY <1>10, <1>d, <1>t DEF Engage
  <2>3. CASE mode = "apply"
    <3>1. SeenWorker' = "copy" /\ mixed' = mixed
      BY <1>10, <2>3, <1>m DEF Engage, SeenWorker
    <3>2. QED
      BY <2>1, <2>2, <2>3, <3>1, <1>u, <1>v, <1>w, <1>m
         DEF Seen!WorkerEngage, Seen!WorkerStep, Seen!SeenNext
  <2>4. CASE mode # "apply"
    <3>1. SeenWorker' = "replacing" /\ mixed' /\ mode \in {"recover", "rollback"}
      BY <1>10, <2>4, <1>m, <1>t DEF Engage, SeenWorker, PathInv, Modes
    <3>2. QED
      BY <2>1, <2>2, <3>1, <1>u, <1>v, <1>w
         DEF Seen!WorkerEngage, Seen!WorkerStep, Seen!SeenNext
  <2>5. QED
    BY <2>3, <2>4
<1>11. CASE WriteStopped \/ CloneDir \/ EndClone \/ WriteRollbackReady
  <2>1. SeenWorker = "copy" /\ SeenWorker' = "copy"
    BY <1>11
       DEF WriteStopped, WriteRollbackReady, CloneDir, EndClone, WriteState,
                 Goto, SeenWorker
  <2>2. UNCHANGED <<mc, doorman, mixed, mode, SeenExit>>
    BY <1>11, <1>m DEF WriteStopped, WriteRollbackReady, CloneDir, EndClone,
                       WriteState, Goto, docker, SeenExit
  <2>3. QED
    BY <2>1, <2>2, <1>s DEF SeenUndoing
<1>12. ASSUME NEW f \in Files, CloneEntry(f) \/ SyncEntry(f)
       PROVE  UNCHANGED Seen!seenVars
  <2>1. UNCHANGED <<mc, doorman, mixed, mode, pc, exit, marker>>
    BY <1>12, <1>m DEF CloneEntry, SyncEntry, docker, RecordInv
  <2>2. QED
    BY <2>1, <1>s DEF SeenWorker, SeenUndoing, SeenExit
<1>13. CASE WriteApplying
  <2>1. SeenWorker = "copy" /\ SeenWorker' = "replacing" /\ mixed'
    BY <1>13, <1>m DEF WriteApplying, Goto, SeenWorker
  <2>2. UNCHANGED <<mc, doorman, mode, SeenExit>>
    BY <1>13 DEF WriteApplying, Goto, docker, SeenExit
  <2>3. QED
    BY <1>d, <1>e, <1>w, <2>1, <2>2
       DEF Seen!WorkerCopied, Seen!WorkerStep, Seen!SeenNext
<1>14. CASE EndSync
  <2>1. SeenWorker = "replacing" /\ SeenWorker' = "release" /\ ~mixed'
    BY <1>14, <1>m DEF EndSync, SeenWorker
  <2>2. UNCHANGED <<mc, doorman, mode, SeenExit>>
    BY <1>14 DEF EndSync, docker, SeenExit
  <2>3. QED
    BY <1>d, <1>e, <1>w, <2>1, <2>2
       DEF Seen!WorkerReplaced, Seen!WorkerStep, Seen!SeenNext
<1>15. CASE WriteApplied \/ WriteStarting
  <2>1. SeenWorker = "release" /\ SeenWorker' = "release"
    BY <1>15 DEF WriteApplied, WriteStarting, WriteState, Goto, SeenWorker
  <2>2. UNCHANGED <<mc, doorman, mixed, mode, SeenExit>>
    BY <1>15, <1>m
       DEF WriteApplied, WriteStarting, WriteState, Goto, docker, SeenExit
  <2>3. QED
    BY <2>1, <2>2, <1>s DEF SeenUndoing
<1>16. CASE Release
  <2>1. /\ SeenWorker = "release" /\ SeenWorker' = "start"
        /\ doorman' = "down" \/ doorman' = doorman
        /\ UNCHANGED <<mc, mixed, mode, SeenExit>>
    BY <1>16, <1>m DEF Release, Goto, SeenWorker, SeenExit
  <2>2. QED
    BY <1>d, <1>e, <2>1 DEF Seen!WorkerRelease, Seen!WorkerStep, Seen!SeenNext
<1>17. CASE Start
  <2>1. /\ SeenWorker = "start" /\ SeenWorker' = "await" /\ mc' = "running"
        /\ doorman = "down" /\ UNCHANGED <<doorman, mixed, mode, SeenExit>>
    BY <1>17, <1>m DEF Start, Goto, SeenWorker, SeenExit
  <2>2. QED
    BY <1>d, <1>e, <2>1 DEF Seen!WorkerStart, Seen!WorkerStep, Seen!SeenNext
<1>18. CASE Await
  <2>1. SeenWorker = "await" /\ SeenWorker' = "await"
    BY <1>18, <1>t DEF Await, disk, SeenWorker, RecordInv, PathInv, Modes
  <2>2. UNCHANGED <<mc, doorman, mixed, mode, SeenExit>>
    BY <1>18, <1>m DEF Await, docker, SeenExit
  <2>3. QED
    BY <2>1, <2>2, <1>s, <1>e
<1>19. CASE WriteStarted
  <2>1. mode = "apply" /\ mode' = "commit"
    BY <1>19, <1>t DEF WriteStarted, Goto, PathInv, Modes
  <2>2. SeenWorker = "await" /\ SeenWorker' = "await"
    BY <1>19, <2>1 DEF WriteStarted, Goto, SeenWorker
  <2>3. UNCHANGED <<mc, doorman, mixed, SeenExit>>
    BY <1>19, <1>m DEF WriteStarted, Goto, docker, SeenExit
  <2>4. QED
    BY <2>1, <2>2, <2>3, <1>s, <1>u, <1>v
<1>20. CASE WriteRollingBack
  <2>1. SeenWorker = "stop" /\ SeenWorker' = "stop"
    BY <1>20 DEF WriteRollingBack, WriteState, Goto, SeenWorker
  <2>2. UNCHANGED <<mc, doorman, mixed, mode, SeenExit>>
    BY <1>20, <1>m DEF WriteRollingBack, WriteState, Goto, docker, SeenExit
  <2>3. QED
    BY <2>1, <2>2, <1>s, <1>e
<1>21. CASE WriteRollbackFailed
  <2>1. /\ SeenWorker = "off" /\ SeenWorker' = "off"
        /\ SeenExit = "failed" /\ SeenExit' = "failed"
    BY <1>21 DEF WriteRollbackFailed, EndRun, SeenWorker, SeenExit
  <2>2. UNCHANGED <<mc, doorman, mixed>>
    BY <1>21, <1>m DEF WriteRollbackFailed, EndRun, docker
  <2>3. QED
    BY <2>1, <2>2, <1>s, <1>u, <1>v
<1>22. CASE CleanStage \/ CleanRollback \/ \E f \in Files : CleanRollbackEntry(f)
  <2>1. /\ pc \in CleanupPcs /\ pc' \in CleanupPcs
        /\ UNCHANGED <<mc, doorman, mode, marker, exit>>
    BY <1>22
       DEF CleanStage, CleanRollback, CleanRollbackEntry, Goto, docker, control
  <2>2. UNCHANGED <<mixed, SeenWorker, SeenExit>>
    BY <1>m, <2>1 DEF SeenWorker, SeenExit
  <2>3. QED
    BY <2>1, <2>2, <1>s DEF SeenUndoing
<1>23. CASE CleanMarker
  <2>1. /\ SeenWorker' = "off" /\ pc' = "idle" /\ pc = "clean_marker"
        /\ UNCHANGED <<mc, doorman, mixed>> /\ ~mixed /\ mc = "running"
    BY <1>23, <1>m
       DEF CleanMarker, EndRun, docker, SeenWorker, RecordInv, ServerInv
  <2>2. /\ mode \in {"commit", "leftover"} => SeenExit' = "ok"
        /\ mode \notin {"commit", "leftover"} => SeenExit' = "failed"
    BY <1>23, <1>x DEF CleanMarker, EndRun
  <2>3. mode \in Modes \ {"apply"}
    BY <1>t, <2>1 DEF PathInv
  <2>4. CASE SeenWorker = "prep"
    BY <2>1, <2>2, <2>4, <1>u, <1>v, <1>w, <1>d, <1>e
       DEF Seen!WorkerGivesUp, Seen!WorkerStep, Seen!SeenNext
  <2>5. CASE SeenWorker # "prep"
    <3>1. SeenWorker = "await" /\ mode # "leftover"
      BY <2>1, <2>5 DEF SeenWorker
    <3>2. SeenUndoing' = FALSE /\ SeenExit' = (IF SeenUndoing THEN "failed" ELSE "ok")
      BY <2>1, <2>2, <2>3, <3>1, <1>u, <1>v DEF Modes
    <3>3. QED
      BY <2>1, <3>1, <3>2, <1>d, <1>e
         DEF Seen!WorkerEnds, Seen!WorkerStep, Seen!SeenNext
  <2>6. QED
    BY <2>4, <2>5
<1>24. CASE Kill
  <2>1. /\ pc # "idle" /\ pc' = "idle" /\ exit' = "killed" /\ mode' = mode
        /\ mixed' = mixed /\ doorman' = doorman
        /\ mc' = mc \/ (pc = "await" /\ mc' = "stopped")
    BY <1>24, <1>m DEF Kill, Interruptible, EndRun, InterruptedDocker, RecordInv
  <2>2. SeenWorker' = "off" /\ SeenExit' = "failed" /\ SeenUndoing' = FALSE
    BY <2>1, <1>v, <1>x DEF SeenWorker
  <2>3. CASE pc = "w_rollback_failed"
    BY <2>1, <2>2, <2>3, <1>s, <1>u, <1>x DEF SeenWorker
  <2>4. CASE pc # "w_rollback_failed"
    <3>1. SeenWorker # "off" /\ (pc = "await" => SeenWorker = "await")
      BY <2>1, <2>4 DEF SeenWorker
    <3>2. QED
      BY <2>1, <2>2, <3>1, <1>d, <1>e
         DEF Seen!WorkerKilled, Seen!MinecraftMayStop, Seen!WorkerStep, Seen!SeenNext
  <2>5. QED
    BY <2>3, <2>4
<1>25. CASE Raise
  <2>1. /\ pc # "idle" /\ Handled /\ doorman' = doorman /\ marker' = marker
        /\ mc' = mc \/ (pc = "await" /\ mc' = "stopped")
    BY <1>25 DEF Raise, Interruptible, InterruptedDocker
  <2>2. /\ pc = "await" => SeenWorker = "await"
        /\ pc' \in {"idle", "w_rollback_failed"} => SeenWorker' = "off"
    BY DEF SeenWorker
  <2>3. CASE /\ mode = "apply" /\ pc \in {"recover", "extract", "w_staged"}
             /\ EndRun("failed", NoArchive) /\ UNCHANGED mode
    <3>1. SeenWorker = "prep" /\ SeenExit' = "failed" /\ mixed' = mixed
      BY <2>3, <1>x, <1>m DEF SeenWorker, EndRun
    <3>2. QED
      BY <2>1, <2>2, <2>3, <3>1, <1>u, <1>v, <1>d, <1>e
         DEF EndRun, Seen!WorkerGivesUp, Seen!WorkerStep, Seen!SeenNext
  <2>4. CASE /\ mode = "apply" /\ RollbackReady
             /\ pc' = "w_rolling_back" /\ mode' = "rollback"
             /\ UNCHANGED <<exit, returned>>
    <3>1. /\ SeenWorker \notin {"off", "prep", "stop", "engage"}
          /\ SeenWorker' = "stop" /\ SeenExit' = SeenExit
      BY <2>4 DEF SeenWorker, SeenExit, RollbackReady
    <3>2. mixed' = mixed
      BY <2>4, <1>m DEF RecordInv
    <3>3. QED
      BY <2>1, <2>2, <2>4, <3>1, <3>2, <1>u, <1>v, <1>d, <1>e
         DEF Seen!WorkerRaises, Seen!MinecraftMayStop, Seen!WorkerStep, Seen!SeenNext
  <2>5. CASE /\ mode = "apply" /\ mode' = "abort"
             /\ pc = "w_stopping" /\ pc' = "clean_stage"
             /\ UNCHANGED <<exit, returned>>
    <3>1. SeenWorker = "prep" /\ SeenWorker' = "prep" /\ SeenExit' = SeenExit
      BY <2>1, <2>5 DEF SeenWorker, SeenExit, RecordInv
    <3>2. QED
      BY <2>1, <2>5, <3>1, <1>m, <1>s, <1>u, <1>v
  <2>6. CASE /\ mode = "apply" /\ mode' = "abort" /\ pc' = "release"
             /\ pc \in {"stop", "engage", "w_stopped", "clone_dir", "clone"}
             /\ UNCHANGED <<exit, returned>>
    <3>1. /\ SeenWorker \in {"stop", "engage", "copy"}
          /\ SeenWorker' = "release" /\ SeenExit' = SeenExit /\ mixed' = mixed
      BY <2>6, <1>m DEF SeenWorker, SeenExit
    <3>2. QED
      BY <2>1, <2>2, <2>6, <3>1, <1>u, <1>v, <1>d, <1>e
         DEF Seen!WorkerRaises, Seen!MinecraftMayStop, Seen!WorkerStep, Seen!SeenNext
  <2>7. CASE /\ mode = "commit"
             /\ EndRun("ok", target) /\ UNCHANGED mode
    <3>1. pc \in CleanupPcs /\ SeenWorker = "await" /\ mc' = mc /\ mc = "running"
      BY <2>1, <2>7 DEF PathInv, ServerInv, SeenWorker
    <3>2. /\ SeenExit' = "ok" /\ mixed' = mixed
          /\ SeenUndoing = FALSE /\ SeenUndoing' = FALSE
      BY <2>7, <3>1, <1>m, <1>x, <1>u, <1>v DEF EndRun
    <3>3. QED
      BY <2>1, <2>2, <2>7, <3>1, <3>2, <1>d, <1>e
         DEF EndRun, Seen!WorkerEnds, Seen!WorkerStep, Seen!SeenNext
  <2>8. CASE /\ mode = "rollback" /\ pc # "w_rollback_failed"
             /\ pc' = "w_rollback_failed" /\ UNCHANGED <<mode, exit, returned>>
    <3>1. /\ SeenWorker \notin {"off", "prep"}
          /\ SeenExit' = "failed" /\ mixed' = mixed
      BY <2>1, <2>8, <1>m, <1>x DEF SeenWorker, PathInv, RecordInv
    <3>2. QED
      BY <2>1, <2>2, <2>8, <3>1, <1>u, <1>v, <1>d, <1>e
         DEF Seen!WorkerRaises, Seen!MinecraftMayStop, Seen!WorkerStep, Seen!SeenNext
  <2>9. CASE /\ mode \in {"abort", "recover", "reopen", "leftover"}
                \/ pc = "w_rollback_failed"
             /\ EndRun("failed", NoArchive) /\ UNCHANGED mode
    <3>1. pc' = "idle" /\ SeenExit' = "failed" /\ mixed' = mixed
      BY <2>9, <1>x, <1>m DEF EndRun, RecordInv
    <3>2. CASE pc = "w_rollback_failed"
      BY <2>1, <2>2, <3>1, <3>2, <1>s, <1>u, <1>v, <1>x DEF SeenWorker
    <3>3. CASE pc # "w_rollback_failed" /\ SeenWorker = "prep"
      BY <2>1, <2>2, <3>1, <3>3, <1>u, <1>v, <1>d, <1>e
         DEF Seen!WorkerGivesUp, Seen!WorkerStep, Seen!SeenNext
    <3>4. CASE pc # "w_rollback_failed" /\ SeenWorker # "prep"
      <4>1. SeenWorker # "off" /\ mode \in {"abort", "recover", "reopen"}
        BY <2>1, <2>9, <3>4 DEF SeenWorker, PathInv
      <4>2. QED
        BY <2>1, <2>2, <3>1, <3>4, <4>1, <1>u, <1>v, <1>d, <1>e
           DEF Seen!WorkerRaises, Seen!MinecraftMayStop, Seen!WorkerStep, Seen!SeenNext
    <3>5. QED
      BY <3>2, <3>3, <3>4
  <2>10. QED
    BY <2>1, <2>3, <2>4, <2>5, <2>6, <2>7, <2>8, <2>9 DEF Handled
<1>r. CASE StartRefused
  <2>1. /\ SeenWorker = "start" /\ UNCHANGED <<mc, doorman, marker>>
        /\ pc = "start" /\ pc' \notin {"sync", "start"} /\ mixed' = mixed
    BY <1>r, <1>m, RefusedResult DEF SeenWorker
  <2>2. CASE mode = "apply"
    <3>1. SeenWorker' = "stop" /\ mode' = "rollback" /\ SeenExit' = SeenExit
      BY <1>r, <2>2, RefusedResult DEF SeenWorker, SeenExit
    <3>2. QED
      BY <2>1, <2>2, <3>1, <1>u, <1>v, <1>d, <1>e
         DEF Seen!WorkerRaises, Seen!MinecraftMayStop, Seen!WorkerStep,
             Seen!SeenNext
  <2>3. CASE mode # "apply"
    <3>1. /\ SeenWorker' = "off" /\ mode' = mode /\ SeenExit' = "failed"
          /\ mode \in {"rollback", "abort", "recover", "reopen"}
      BY <1>r, <2>3, <1>x, RefusedResult DEF SeenWorker
    <3>2. QED
      BY <2>1, <3>1, <1>u, <1>v, <1>d, <1>e
         DEF Seen!WorkerRaises, Seen!MinecraftMayStop, Seen!WorkerStep,
             Seen!SeenNext
  <2>4. QED
    BY <2>2, <2>3
<1>26. QED
  BY <1>r, <1>2, <1>3, <1>4, <1>5, <1>6, <1>7, <1>8, <1>9, <1>10, <1>11, <1>12,
     <1>13, <1>14, <1>15, <1>16, <1>17, <1>18, <1>19, <1>20, <1>21, <1>22,
     <1>23, <1>24, <1>25
     DEF Next, WorkerStep, Environment, Seen!SeenNext

(* What Coordination assumes of the restore worker is what its code does:  *)
(* the order of its calls on the two containers, when the world on disk is *)
(* mixed, which exceptions are undone and with which exit code it ends,    *)
(* however many runs there are, wherever they are killed or fail, and with *)
(* an admin who starts the server meanwhile (restore_transaction,          *)
(* _recover_interrupted_transaction, DoormanAwareController, main).        *)
THEOREM WorkerAsSeen == RecordedSpec => Seen!SeenSpec
<1>1. Init /\ mixed = FALSE => Seen!SeenInit
  <2> SUFFICES ASSUME Init, mixed = FALSE PROVE Seen!SeenInit
    OBVIOUS
  <2>1. SeenWorker = "off" /\ SeenExit = "none" /\ SeenDoorman = "down"
        /\ SeenWorld = "whole"
    BY DEF Init, SeenWorker, SeenExit, SeenDoorman, SeenWorld
  <2>2. SeenUndoing = FALSE
    BY <2>1 DEF SeenUndoing
  <2>3. QED
    BY <2>1, <2>2 DEF Init, Seen!SeenInit
<1>2. TypeOK /\ PathInv /\ ServerInv /\ RecordInv
        /\ [Next /\ Recording]_recordedVars => [Seen!SeenNext]_(Seen!seenVars)
  BY SeenStep
<1>3. QED
  BY <1>1, <1>2, RecordedRuns, RecordKept, TypeCorrect, ServerCorrect, PTL
     DEF RecordedSpec, Seen!SeenSpec
=============================================================================
