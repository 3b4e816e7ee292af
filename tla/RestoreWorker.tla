--------------------------- MODULE RestoreWorker ---------------------------
(***************************************************************************)
(* app/restore_worker.py: the one-shot container that replaces the world   *)
(* by an archive, with a local rollback copy and a marker file that lets   *)
(* the next run finish or undo a transaction interrupted anywhere.         *)
(*                                                                         *)
(* `pc' is the statement the worker executes next, `mode' the code path    *)
(* it is on:                                                               *)
(*   apply     restore_transaction, up to the marker "started"             *)
(*   commit    its final clean-up                                          *)
(*   rollback  the except block once rollback_ready                        *)
(*   abort     the except block before rollback_ready                      *)
(*   recover   an earlier transaction undone from its rollback copy        *)
(*   reopen    an earlier transaction whose world needs no undoing         *)
(*   leftover  an earlier transaction that had only its clean-up left      *)
(***************************************************************************)
EXTENDS World, Naturals

CONSTANTS
  NoArchive, NoDir,
  MaxRuns,           \* bound: how many times mc-admin starts the worker
  MaxFaults,         \* bound: exceptions and kills, all runs together
  CleanupCompletes,  \* TRUE: the clean-up that follows a roll back is neither
                     \* killed nor fails
  AdminMayStart      \* TRUE: mc-admin's "start" may be used meanwhile

VARIABLES
  live,      \* the data folder
  stage,     \* .mc-restore-stage: NoDir, "partial" or the extracted archive
  rollback,  \* .mc-restore-rollback: NoDir or a folder
  marker,    \* .mc-restore-transaction.json; phase "none": no such file
  mc,        \* the minecraft container
  doorman,   \* the mc-doorman container, which holds the same address
  pc, mode,
  todo,      \* files the running clone or _sync_tree has not reached yet
  target,    \* the restore-target file of this run
  exit,      \* how the last run ended
  returned,  \* the archive the last run says it restored
  runs, faults

disk == <<live, stage, rollback, marker>>
docker == <<mc, doorman>>
control == <<pc, mode, todo, target, exit, returned>>
vars == <<disk, docker, control, runs, faults>>

ASSUME RestoreAssumption ==
  /\ NoArchive \notin Archives
  /\ NoDir \notin World
  /\ NoDir \notin Archives
  /\ MaxRuns \in Nat
  /\ MaxFaults \in Nat
  /\ CleanupCompletes \in BOOLEAN
  /\ AdminMayStart \in BOOLEAN

(* Phases from which an interrupted transaction is undone from rollback.   *)
RollbackPhases == {"rollback_ready", "applying", "applied", "starting",
                   "rolling_back", "rollback_failed"}

Phases == {"none", "staged", "stopping", "stopped", "started"}
            \cup RollbackPhases

CleanupPcs == {"clean_stage", "clean_rollback", "clean_marker"}

Pcs == {"idle", "recover", "extract", "w_staged", "w_stopping", "stop",
        "engage", "w_stopped", "clone_dir", "clone", "w_rollback_ready",
        "w_applying", "sync", "w_applied", "w_starting", "release", "start",
        "await", "w_started", "w_rolling_back", "w_rollback_failed"}
         \cup CleanupPcs

Modes == {"apply", "commit", "rollback", "abort", "recover", "reopen",
          "leftover"}

TypeOK ==
  /\ live \in World
  /\ stage \in Archives \cup {NoDir, "partial"}
  /\ rollback \in World \cup {NoDir}
  /\ marker \in [phase : Phases, target : Archives \cup {NoArchive}]
  /\ mc \in {"running", "stopped"}
  /\ doorman \in {"up", "down"}
  /\ pc \in Pcs
  /\ mode \in Modes
  /\ todo \subseteq Files
  /\ target \in Archives \cup {NoArchive}
  /\ exit \in {"none", "ok", "cancelled", "failed", "killed"}
  /\ returned \in Archives \cup {NoArchive}
  /\ runs \in 0..MaxRuns
  /\ faults \in 0..MaxFaults

Init ==
  /\ live = OldWorld
  /\ stage = NoDir
  /\ rollback = NoDir
  /\ marker = [phase |-> "none", target |-> NoArchive]
  /\ mc = "running"
  /\ doorman = "down"
  /\ pc = "idle" /\ mode = "apply" /\ todo = {}
  /\ target = NoArchive /\ exit = "none" /\ returned = NoArchive
  /\ runs = 0 /\ faults = 0

-----------------------------------------------------------------------------
(* The environment: Minecraft, and mc-admin starting the worker.           *)

Play ==
  /\ mc = "running"
  /\ \E f \in Files, c \in Played : live' = [live EXCEPT ![f] = c]
  /\ UNCHANGED <<stage, rollback, marker, docker, control, runs, faults>>

(* DockerRestore.restore: the target is written, then the one-shot started.*)
Launch(a) ==
  /\ pc = "idle" /\ runs < MaxRuns
  /\ pc' = "recover" /\ mode' = "apply" /\ target' = a
  /\ exit' = "none" /\ returned' = NoArchive
  /\ runs' = runs + 1
  /\ UNCHANGED <<disk, docker, todo, faults>>

(* ActionsMixin.start only looks at the doorman, then asks Docker.         *)
AdminStart ==
  /\ AdminMayStart
  /\ mc = "stopped" /\ doorman = "down"
  /\ mc' = "running"
  /\ UNCHANGED <<disk, doorman, control, runs, faults>>

-----------------------------------------------------------------------------
(* Helpers: moving on, and ending a run.                                   *)

Goto(at, next) == pc = at /\ pc' = next

WriteState(at, phase, next) ==
  /\ Goto(at, next)
  /\ marker' = [phase |-> phase, target |-> target]
  /\ UNCHANGED <<live, stage, rollback, docker, mode, todo, target, exit,
                 returned, runs, faults>>

(* main(): exit code 0 only when restore_transaction returns; returned is  *)
(* what it returns.                                                        *)
EndRun(how, archive) ==
  /\ pc' = "idle" /\ exit' = how /\ returned' = archive

-----------------------------------------------------------------------------
(* _recover_interrupted_transaction                                        *)

(* Mutant: "rolling_back" was forgotten in rollback_phases.                *)
RecoveryModeForgetsRollingBack ==
  IF marker.phase = "none" /\ rollback = NoDir THEN "apply"
  ELSE IF marker.phase = "started" THEN "leftover"
  ELSE IF rollback # NoDir
          /\ marker.phase \in (RollbackPhases \ {"rolling_back"}) \cup {"none"}
       THEN "recover"
  ELSE IF marker.phase \in {"staged", "stopping", "stopped", "rollback_ready",
                            "applied", "starting"}
       THEN "reopen"
  ELSE "manual"

(* Mutant: "applying" is taken for a phase whose world needs no undoing.   *)
RecoveryModeReopensApplying ==
  IF marker.phase = "none" /\ rollback = NoDir THEN "apply"
  ELSE IF marker.phase = "started" THEN "leftover"
  ELSE IF marker.phase \in {"staged", "stopping", "stopped", "applying"}
       THEN "reopen"
  ELSE IF rollback # NoDir THEN "recover"
  ELSE "manual"

(* Which of its branches the files on disk select.                         *)
RecoveryMode ==
  IF marker.phase = "none" /\ rollback = NoDir THEN "apply"
  ELSE IF marker.phase = "started" THEN "leftover"
  ELSE IF rollback # NoDir /\ (marker.phase \in RollbackPhases \cup {"none"})
       THEN "recover"
  ELSE IF marker.phase \in {"staged", "stopping", "stopped", "rollback_ready",
                            "applied", "starting"}
       THEN "reopen"
  ELSE "manual"

RecoverNothing ==
  /\ RecoveryMode = "apply"
  /\ Goto("recover", "extract")
  /\ stage' = NoDir
  /\ UNCHANGED <<live, rollback, marker, docker, mode, todo, target, exit,
                 returned, runs, faults>>

(* Mutant: a server found stopped before anything was replaced is left so. *)
RecoverWithoutStart ==
  /\ pc = "recover"
  /\ RecoveryMode \in {"leftover", "recover", "reopen"}
  /\ mode' = RecoveryMode
  /\ pc' = IF RecoveryMode = "recover" THEN "stop" ELSE "clean_stage"
  /\ UNCHANGED <<disk, docker, todo, target, exit, returned, runs, faults>>

RecoverInterrupted ==
  /\ pc = "recover"
  /\ RecoveryMode \in {"leftover", "recover", "reopen"}
  /\ mode' = RecoveryMode
  /\ pc' = CASE RecoveryMode = "leftover" -> "clean_stage"
             [] RecoveryMode = "recover"  -> "stop"
             [] RecoveryMode = "reopen"   -> "release"
  /\ UNCHANGED <<disk, docker, todo, target, exit, returned, runs, faults>>

RecoverManual ==
  /\ pc = "recover"
  /\ RecoveryMode = "manual"
  /\ EndRun("failed", NoArchive)
  /\ UNCHANGED <<disk, docker, mode, todo, target, runs, faults>>

-----------------------------------------------------------------------------
(* restore_transaction                                                     *)

(* Also _resolve_target_archive; both may raise, see Raise.                *)
Extract ==
  /\ Goto("extract", "w_staged")
  /\ stage' = target
  /\ UNCHANGED <<live, rollback, marker, docker, mode, todo, target, exit,
                 returned, runs, faults>>

WriteStaged   == WriteState("w_staged", "staged", "w_stopping")
WriteStopping == WriteState("w_stopping", "stopping", "stop")

(* Mutant: stopping Minecraft is best effort too.                          *)
StopBestEffort ==
  /\ Goto("stop", "engage")
  /\ mc' \in {mc, "stopped"}
  /\ UNCHANGED <<disk, doorman, mode, todo, target, exit, returned, runs,
                 faults>>

(* DoormanAwareController.stop: Minecraft first, then the doorman takes    *)
(* the post, best effort; Docker gives the address to one container only.  *)
Stop ==
  /\ Goto("stop", "engage")
  /\ mc' = "stopped"
  /\ UNCHANGED <<disk, doorman, mode, todo, target, exit, returned, runs,
                 faults>>

Engage ==
  /\ pc = "engage"
  /\ UNCHANGED doorman \/ (mc = "stopped" /\ doorman' = "up")
  /\ pc' = IF mode = "apply" THEN "w_stopped" ELSE "sync"
  /\ todo' = IF mode = "apply" THEN {} ELSE Files
  /\ UNCHANGED <<disk, mc, mode, target, exit, returned, runs, faults>>

WriteStopped == WriteState("w_stopped", "stopped", "clone_dir")

(* _clone_live_tree                                                        *)
CloneDir ==
  /\ Goto("clone_dir", "clone")
  /\ rollback' = EmptyDir
  /\ todo' = {f \in Files : live[f] # Absent}
  /\ UNCHANGED <<live, stage, marker, docker, mode, target, exit, returned,
                 runs, faults>>

CloneEntry(f) ==
  /\ pc = "clone"
  /\ f \in todo
  /\ rollback' = [rollback EXCEPT ![f] = live[f]]
  /\ todo' = todo \ {f}
  /\ UNCHANGED <<live, stage, marker, docker, pc, mode, target, exit,
                 returned, runs, faults>>

(* Mutant: the rollback copy is declared ready before it is complete.      *)
EndCloneEarly ==
  /\ Goto("clone", "w_rollback_ready")
  /\ UNCHANGED <<disk, docker, mode, todo, target, exit, returned, runs,
                 faults>>

EndClone ==
  /\ Goto("clone", "w_rollback_ready")
  /\ todo = {}
  /\ UNCHANGED <<disk, docker, mode, todo, target, exit, returned, runs,
                 faults>>

WriteRollbackReady == WriteState("w_rollback_ready", "rollback_ready",
                                 "w_applying")

WriteApplying ==
  /\ Goto("w_applying", "sync")
  /\ marker' = [phase |-> "applying", target |-> target]
  /\ todo' = Touched(stage)
  /\ UNCHANGED <<live, stage, rollback, docker, mode, target, exit, returned,
                 runs, faults>>

(* _sync_tree, from the stage while applying, else from the rollback copy. *)
SyncSource == IF mode = "apply" THEN Overlay(live, stage) ELSE rollback

SyncEntry(f) ==
  /\ pc = "sync"
  /\ f \in todo
  /\ live' = [live EXCEPT ![f] = SyncSource[f]]
  /\ todo' = todo \ {f}
  /\ UNCHANGED <<stage, rollback, marker, docker, pc, mode, target, exit,
                 returned, runs, faults>>

EndSync ==
  /\ pc = "sync" /\ todo = {}
  /\ pc' = IF mode = "apply" THEN "w_applied" ELSE "release"
  /\ UNCHANGED <<disk, docker, mode, todo, target, exit, returned, runs,
                 faults>>

WriteApplied  == WriteState("w_applied", "applied", "w_starting")
WriteStarting == WriteState("w_starting", "starting", "release")

(* DoormanAwareController.start: the post is released first.  An error of  *)
(* Docker is taken for the absence of a doorman, which may still be there. *)
Release ==
  /\ Goto("release", "start")
  /\ \/ doorman' = "down" /\ UNCHANGED faults
     \/ faults < MaxFaults /\ faults' = faults + 1 /\ UNCHANGED doorman
  /\ UNCHANGED <<disk, mc, mode, todo, target, exit, returned, runs>>

(* Docker refuses the start while the address is held: see StartRefused.   *)
Start ==
  /\ Goto("start", "await")
  /\ doorman = "down" /\ mc' = "running"
  /\ UNCHANGED <<disk, doorman, mode, todo, target, exit, returned, runs,
                 faults>>

(* Mutant: the health of the wrong container is awaited.                   *)
AwaitDoorman ==
  /\ pc = "await" /\ doorman = "up"
  /\ pc' = IF mode = "apply" THEN "w_started" ELSE "clean_stage"
  /\ UNCHANGED <<disk, docker, mode, todo, target, exit, returned, runs,
                 faults>>

(* DockerContainerController.start returns once Minecraft is healthy.      *)
Await ==
  /\ pc = "await" /\ mc = "running"
  /\ pc' = IF mode = "apply" THEN "w_started" ELSE "clean_stage"
  /\ UNCHANGED <<disk, docker, mode, todo, target, exit, returned, runs,
                 faults>>

WriteStarted ==
  /\ Goto("w_started", "clean_stage")
  /\ marker' = [phase |-> "started", target |-> target]
  /\ mode' = "commit"
  /\ UNCHANGED <<live, stage, rollback, docker, todo, target, exit, returned,
                 runs, faults>>

WriteRollingBack == WriteState("w_rolling_back", "rolling_back", "stop")

WriteRollbackFailed ==
  /\ pc = "w_rollback_failed"
  /\ marker' = [phase |-> "rollback_failed", target |-> target]
  /\ EndRun("failed", NoArchive)
  /\ UNCHANGED <<live, stage, rollback, docker, mode, todo, target, runs,
                 faults>>

-----------------------------------------------------------------------------
(* _cleanup_transaction: the stage, the rollback copy file by file, and    *)
(* last the marker.                                                        *)

CleanStage ==
  /\ Goto("clean_stage", "clean_rollback")
  /\ stage' = NoDir
  /\ UNCHANGED <<live, rollback, marker, docker, mode, todo, target, exit,
                 returned, runs, faults>>

CleanRollbackEntry(f) ==
  /\ pc = "clean_rollback"
  /\ rollback # NoDir /\ rollback[f] # Absent
  /\ rollback' = [rollback EXCEPT ![f] = Absent]
  /\ UNCHANGED <<live, stage, marker, docker, control, runs, faults>>

CleanRollback ==
  /\ Goto("clean_rollback", "clean_marker")
  /\ rollback \in {NoDir, EmptyDir}
  /\ rollback' = NoDir
  /\ UNCHANGED <<live, stage, marker, docker, mode, todo, target, exit,
                 returned, runs, faults>>

CleanMarker ==
  /\ pc = "clean_marker"
  /\ marker' = [phase |-> "none", target |-> NoArchive]
  /\ CASE mode = "commit"   -> EndRun("ok", target)
       [] mode = "leftover" -> EndRun("ok", marker.target)
       [] OTHER             -> EndRun("cancelled", NoArchive)
  /\ UNCHANGED <<live, stage, rollback, docker, mode, todo, target, runs,
                 faults>>

-----------------------------------------------------------------------------
(* Exceptions and kills.  An operation that is interrupted may have had    *)
(* part of its effect.                                                     *)

Interruptible ==
  /\ pc # "idle"
  /\ faults < MaxFaults
  /\ ~(CleanupCompletes /\ mode \in {"rollback", "recover"}
                        /\ pc \in CleanupPcs)

(* A call that Docker carried out and that raised nevertheless is handled  *)
(* like a failure of the next one.  Minecraft may stop while its health is *)
(* awaited.                                                                *)
InterruptedDocker ==
  /\ UNCHANGED mc \/ (pc = "await" /\ mc' = "stopped")
  /\ UNCHANGED doorman

InterruptedLive ==
  \/ UNCHANGED live
  \/ pc = "sync" /\ \E f \in todo : live' = [live EXCEPT ![f] = Torn]

Kill ==
  /\ Interruptible
  /\ faults' = faults + 1
  /\ InterruptedDocker
  /\ InterruptedLive
  /\ stage' = IF pc = "extract" THEN "partial" ELSE stage
  /\ EndRun("killed", NoArchive)
  /\ UNCHANGED <<rollback, marker, mode, todo, target, runs>>

(* The except clauses of the extraction and of the clone try to remove     *)
(* what they made.                                                         *)
AfterException ==
  /\ stage' \in (IF pc = "extract" THEN {NoDir, "partial"} ELSE {stage})
  /\ rollback' \in (IF pc = "clone" THEN {NoDir, rollback} ELSE {rollback})

RollbackReady == pc \in {"w_rollback_ready", "w_applying", "sync", "w_applied",
                         "w_starting", "release", "start", "await",
                         "w_started"}

(* Mutant: `stopped' is only set once controller.stop() has returned.      *)
HandledStoppedTooLate ==
  \/ /\ mode = "apply" /\ pc \in {"recover", "extract", "w_staged"}
     /\ EndRun("failed", NoArchive) /\ UNCHANGED mode
  \/ /\ mode = "apply" /\ pc \in {"w_stopping", "stop", "engage"}
     /\ mode' = "abort" /\ pc' = "clean_stage"
     /\ UNCHANGED <<exit, returned>>

(* Where an exception raised at pc is handled.                             *)
Handled ==
  \/ /\ mode = "apply" /\ pc \in {"recover", "extract", "w_staged"}
     /\ EndRun("failed", NoArchive) /\ UNCHANGED mode
  \/ /\ mode = "apply" /\ RollbackReady
     /\ pc' = "w_rolling_back" /\ mode' = "rollback"
     /\ UNCHANGED <<exit, returned>>
  \/ /\ mode = "apply"
     /\ pc \in {"w_stopping", "stop", "engage", "w_stopped", "clone_dir",
               "clone"}
     /\ mode' = "abort"
     /\ pc' = IF pc = "w_stopping" THEN "clean_stage" ELSE "release"
     /\ UNCHANGED <<exit, returned>>
  \/ /\ mode = "rollback" /\ pc # "w_rollback_failed"
     /\ pc' = "w_rollback_failed"
     /\ UNCHANGED <<mode, exit, returned>>
  \/ /\ mode = "commit"
     /\ EndRun("ok", target) /\ UNCHANGED mode
  \/ /\ mode \in {"abort", "recover", "reopen", "leftover"}
        \/ pc = "w_rollback_failed"
     /\ EndRun("failed", NoArchive) /\ UNCHANGED mode

Raise ==
  /\ Interruptible
  /\ faults' = faults + 1
  /\ InterruptedDocker
  /\ InterruptedLive
  /\ AfterException
  /\ Handled
  /\ UNCHANGED <<marker, todo, target, runs>>

(* "Address already in use": the doorman that was not seen holds it.       *)
StartRefused ==
  /\ pc = "start" /\ doorman = "up"
  /\ Handled
  /\ UNCHANGED <<disk, docker, todo, target, runs, faults>>

-----------------------------------------------------------------------------
WorkerStep ==
  \/ RecoverNothing \/ RecoverInterrupted \/ RecoverManual
  \/ Extract \/ WriteStaged \/ WriteStopping \/ Stop \/ Engage \/ WriteStopped
  \/ CloneDir \/ (\E f \in Files : CloneEntry(f)) \/ EndClone
  \/ WriteRollbackReady \/ WriteApplying
  \/ (\E f \in Files : SyncEntry(f)) \/ EndSync
  \/ WriteApplied \/ WriteStarting \/ Release \/ Start \/ StartRefused
  \/ Await \/ WriteStarted
  \/ WriteRollingBack \/ WriteRollbackFailed
  \/ CleanStage \/ (\E f \in Files : CleanRollbackEntry(f)) \/ CleanRollback
  \/ CleanMarker

Environment == Play \/ AdminStart \/ \E a \in Archives : Launch(a)

Next == WorkerStep \/ Kill \/ Raise \/ Environment

Spec == Init /\ [][Next]_vars

(* The worker is a running process: it keeps executing its next statement. *)
FairSpec == Spec /\ WF_vars(WorkerStep)

-----------------------------------------------------------------------------
(***************************************************************************)
(* Refinement mapping: the world the players own.  While the marker says   *)
(* that the data folder may be mixed, it is the rollback copy.             *)
(***************************************************************************)
CommittedWorld ==
  IF /\ rollback # NoDir
     /\ marker.phase \in RollbackPhases
     /\ pc \notin CleanupPcs
  THEN rollback ELSE live

Atomic == INSTANCE AtomicWorld WITH world <- CommittedWorld

(* A restoration is atomic: whatever is killed or fails, on however many   *)
(* runs, the world is played, replaced by an archive at the marker         *)
(* "started", or left exactly as it was (restore_transaction and its       *)
(* except blocks, _recover_interrupted_transaction).                       *)
AtomicRestore == Atomic!Spec

(* The recovery branch "intervention manuelle requise" can be reached (a   *)
(* clean-up cut short removed the rollback copy and left the marker), but  *)
(* never with a world to repair: Minecraft then runs, on files that no     *)
(* interrupted copy has cut short.                                         *)
ManualServesWhole ==
  pc = "recover" /\ RecoveryMode = "manual" =>
    mc = "running" /\ \A f \in Files : live[f] # Torn

(* The worker never starts Minecraft on a file cut short by an interrupted *)
(* _copy_file_in_place, even when rollback copies get lost.                *)
StartsWholeFiles ==
  [][Start => \A f \in Files : live[f] # Torn]_vars

(* Minecraft never runs while _clone_live_tree or _sync_tree reads or      *)
(* replaces its files.                                                     *)
StoppedWhileCopying == pc \in {"clone", "sync"} => mc = "stopped"

(* A server the worker leaves stopped, killed or failed wherever it was,   *)
(* always leaves a marker too: the next run knows it has to restart it.    *)
StoppedServerLeavesMarker == mc = "stopped" => marker.phase # "none"

(* A run that ends with its work done, or with an earlier run's undone,    *)
(* leaves Minecraft running on its address, also after a release that      *)
(* failed unseen (DoormanController.release, the except blocks and         *)
(* _recover_interrupted_transaction).                                      *)
EndsOpen ==
  [][pc # "idle" /\ pc' = "idle" /\ exit' \in {"ok", "cancelled"} =>
       mc' = "running" /\ doorman' = "down"]_vars

(* Exit code 0, which mc-admin reports as "le monde a ete restaure", means *)
(* that the archive this run was asked for is the one it restored.         *)
ExitZeroMeansTarget == exit = "ok" => returned = target

(* Every run of the one-shot container ends.                               *)
EveryRunEnds == (pc # "idle") ~> (pc = "idle")

-----------------------------------------------------------------------------
(* The inductive invariants behind the theorems.                           *)

(* Which statements each code path can be at.                              *)
PathInv ==
  /\ mode = "apply" => pc \notin CleanupPcs \cup {"w_rolling_back",
                                                  "w_rollback_failed"}
  /\ mode \in {"commit", "leftover"} => pc \in CleanupPcs \cup {"idle"}
  /\ mode \in {"abort", "reopen"} =>
        pc \in CleanupPcs \cup {"idle", "release", "start", "await"}
  /\ mode \in {"recover", "rollback"} =>
        pc \in CleanupPcs \cup {"idle", "stop", "engage", "sync", "release",
                                "start", "await"}
                \cup (IF mode = "rollback"
                      THEN {"w_rolling_back", "w_rollback_failed"} ELSE {})

(* A folder that is about to be read or written exists.                    *)
SourceInv ==
  /\ mode = "apply" =>
       /\ pc # "idle" => target \in Archives
       /\ pc \notin {"idle", "recover", "extract"} => stage = target
       /\ pc = "clone" \/ RollbackReady => rollback # NoDir
  /\ /\ mode \in {"recover", "rollback"}
     /\ pc \in {"w_rolling_back", "stop", "engage", "sync"}
     => rollback # NoDir

(* Phases in which the data folder is still untouched.                     *)
PreparePhases == {"staged", "stopping", "stopped"}

(* Statements executed with a transaction under way on disk.               *)
UnderWayPcs == {"w_stopping", "stop", "engage", "w_stopped", "clone_dir",
                "clone", "w_rollback_ready", "w_applying", "sync", "w_applied",
                "w_starting", "release", "start", "await", "w_started",
                "w_rolling_back"}

(* Where the marker, the rollback copy and the container stand at each     *)
(* statement: the marker is written before the server is stopped and       *)
(* removed after it was seen healthy, on every path.                       *)
ServerInv ==
  /\ marker.phase = "none" => rollback = NoDir
  /\ marker.phase \in {"none", "started"} => mc = "running"
  /\ pc \in CleanupPcs \cup {"w_stopping", "w_started"} => mc = "running"
  /\ pc \in {"extract", "w_staged"} => marker.phase = "none"
  /\ pc \in UnderWayPcs => marker.phase \notin {"none", "started"}
  /\ pc \in CleanupPcs \cup {"w_rollback_failed"} => marker.phase # "none"
  /\ pc = "clean_marker" => rollback = NoDir

PhaseInv ==
  /\ marker.phase \in RollbackPhases /\ pc \notin CleanupPcs =>
        rollback # NoDir
  /\ pc = "w_rollback_failed" => rollback # NoDir
  /\ mode = "apply" =>
       /\ pc \in {"w_stopping", "stop", "engage", "w_stopped", "clone_dir",
                  "clone", "w_rollback_ready"} =>
            marker.phase \in PreparePhases
       /\ pc \in {"w_applying", "sync", "w_applied", "w_starting", "release",
                  "start", "await", "w_started"} =>
            marker.phase \in RollbackPhases
  /\ /\ mode \in {"recover", "rollback"}
     /\ pc \in {"stop", "engage", "sync", "release", "start", "await"}
     => marker.phase \in RollbackPhases
  /\ mode \in {"abort", "reopen"} /\ pc # "idle" =>
        marker.phase \in PreparePhases
  /\ mode \in {"commit", "leftover"} /\ pc # "idle" => marker.phase = "started"

(* What the data folder holds, compared with the rollback copy.            *)
FolderInv ==
  /\ mode = "apply" =>
       /\ pc \in {"engage", "w_stopped", "clone_dir", "clone",
                  "w_rollback_ready", "w_applying", "sync"} => mc = "stopped"
       /\ pc = "clone" => \A f \in Files \ todo : rollback[f] = live[f]
       /\ pc \in {"w_rollback_ready", "w_applying"} => rollback = live
       /\ pc = "sync" =>
            /\ todo \subseteq Touched(target)
            /\ \A f \in Files \ todo : live[f] = Overlay(rollback, target)[f]
       /\ pc \in {"w_applied", "w_starting", "release", "start", "await",
                  "w_started"} =>
            PlayedOver(Overlay(rollback, target), live)
  /\ mode \in {"recover", "rollback"} =>
       /\ pc \in {"engage", "sync"} => mc = "stopped"
       /\ pc = "sync" => \A f \in Files \ todo : live[f] = rollback[f]
       /\ pc \in {"release", "start", "await"} => PlayedOver(rollback, live)
       /\ pc \in {"w_rolling_back", "w_rollback_failed"} =>
            \/ marker.phase \in RollbackPhases
            \/ rollback = live /\ mc = "stopped"

(* While the data folder may be mixed the rollback copy is complete, and   *)
(* the marker on disk says so: the invariant that makes a restoration      *)
(* atomic across kills and exceptions.                                     *)
TransactionInv == PhaseInv /\ FolderInv
=============================================================================
