---------------------------- MODULE Coordination ----------------------------
(***************************************************************************)
(* How mc-admin coordinates the operations that stop and start Minecraft:  *)
(* restoring a backup (BackupsMixin.restore_backup and                     *)
(* tick_pending_restore), closing and reopening the server for maintenance *)
(* (MaintenanceMixin), starting it by hand (ActionsMixin.start, restart)   *)
(* and backing up a profile.                                               *)
(*                                                                         *)
(* Web requests and background ticks are threads of one process.  Each     *)
(* checks the state of the others, then acts: a thread's variable names    *)
(* the call it makes next, so that any other thread may run in between.    *)
(* Only restore requests and profile backups share a lock                  *)
(* (_backup_restore_lock).  The restore worker is RestoreSeen.             *)
(***************************************************************************)
EXTENDS RestoreSeen

CONSTANTS
  Sequential,    \* TRUE: a request or maintenance tick starts only when no
                 \* other one is between its check and its last call
  ProxyFails,    \* TRUE: the Docker proxy may fail to answer is_running
  Starts         \* when start or restart may be asked for: "never", "always"
                 \* or "idle", that is, with no restoration under way

ASSUME CoordinationAssumption ==
  /\ {Sequential, ProxyFails, WorkerDies} \subseteq BOOLEAN
  /\ Starts \in {"never", "idle", "always"}

VARIABLES
  safety,          \* the safety backup container, or how it last ended
  profile,         \* the profile backup container runs
  op,              \* _restore_operation: its phase
  pendingRestore,  \* a restoration waits for its safety backup
  pendingMaint,    \* an announced closure; past its time it is "held" while
                   \* the players it waits for are on the server, or it cannot
                   \* be read that they are not or that nothing is restored
  late,            \* the deadline of the pending or running restoration passed
  enter, tick, reopen, start, request, backup, coord   \* the threads

containers == <<mc, doorman, safety, profile, workerState>>
memory == <<op, pendingRestore, pendingMaint, late>>
threads == <<enter, tick, reopen, start, request, backup, coord>>
coordinationVars == <<containers, memory, threads>>

CoordinationTypeOK ==
  /\ SeenTypeOK
  /\ safety \in {"none", "running", "ok", "failed"}
  /\ profile \in BOOLEAN
  /\ op \in {"none", "restore_running", "waiting_minecraft", "success",
            "failed"}
  /\ pendingRestore \in BOOLEAN
  /\ pendingMaint \in {"none", "announced", "due", "held"}
  /\ late \in BOOLEAN
  /\ enter \in {"idle", "schedule", "stop", "engage"}
  /\ tick \in {"idle", "arm", "cancel", "stop", "engage"}
  /\ reopen \in {"idle", "cancel", "release", "start"}
  /\ start \in {"idle", "start"}
  /\ request \in {"idle", "trigger", "set"}
  /\ backup \in {"idle", "trigger"}
  /\ coord \in {"idle", "launch", "set_op", "clear"}

CoordinationInit ==
  /\ SeenInit
  /\ safety = "none" /\ profile = FALSE
  /\ op = "none" /\ pendingRestore = FALSE /\ pendingMaint = "none"
  /\ late = FALSE
  /\ enter = "idle" /\ tick = "idle" /\ reopen = "idle" /\ start = "idle"
  /\ request = "idle" /\ backup = "idle" /\ coord = "idle"

-----------------------------------------------------------------------------
(* What a thread sees of the others when it checks.                        *)

(* Mutant: a result not yet dismissed blocks like a running one.          *)
OpOverOnlyDismissed == op = "none"

OpOver == op \in {"none", "success", "failed"}

(* _restore_in_progress; _restoring treats an unreadable state as TRUE.    *)
Restoring == pendingRestore \/ ~OpOver \/ worker # "off"

(* DockerDoorman.is_running answers FALSE when the proxy does not answer.  *)
DoormanSeenDown == doorman = "down" \/ ProxyFails

MayBegin ==
  Sequential => <<enter, tick, reopen, start, request>> =
                <<"idle", "idle", "idle", "idle", "idle">>

-----------------------------------------------------------------------------
(* enter_maintenance: close now, or announce a closure.                    *)

EnterCheck ==
  /\ enter = "idle" /\ MayBegin
  /\ ~Restoring
  /\ DoormanSeenDown
  /\ enter' \in {"schedule", "stop"}
  /\ UNCHANGED <<containers, memory, tick, reopen, start, request, backup,
                 coord>>

EnterSchedule ==
  /\ enter = "schedule"
  /\ enter' = "idle"
  /\ pendingMaint' = "announced"
  /\ UNCHANGED <<containers, op, pendingRestore, late, tick, reopen, start,
                 request, backup, coord>>

(* _engage_maintenance, called by thread `who': either call may fail (even *)
(* after Docker did what it was asked), and Docker gives the address to    *)
(* one container only.                                                     *)
StopServer(who, after) ==
  /\ who = "stop"
  /\ \/ mc' = "stopped" /\ after \in {"engage", "idle"}
     \/ mc' = mc /\ after = "idle"
  /\ UNCHANGED <<doorman, safety, profile, workerState, memory,
                 reopen, start, request, backup, coord>>

EngageDoorman(who, after) ==
  /\ who = "engage" /\ after = "idle"
  /\ \/ mc = "stopped" /\ doorman = "down" /\ doorman' = "maintenance"
     \/ doorman' = doorman
  /\ UNCHANGED <<mc, safety, profile, workerState, memory,
                 reopen, start, request, backup, coord>>

EnterStop   == StopServer(enter, enter') /\ UNCHANGED tick
EnterEngage == EngageDoorman(enter, enter') /\ UNCHANGED tick

(* cancel_pending_maintenance: "le serveur reste ouvert".                  *)
CancelMaintenance ==
  /\ pendingMaint # "none" /\ MayBegin
  /\ pendingMaint' = "none"
  /\ UNCHANGED <<containers, op, pendingRestore, late, threads>>

-----------------------------------------------------------------------------
(* tick_maintenance                                                        *)

(* _tick_scheduled_maintenance: an entry of the schedule is in its window. *)
TickScheduled ==
  /\ tick = "idle" /\ MayBegin
  /\ pendingMaint = "none"
  /\ DoormanSeenDown
  /\ ~Restoring
  /\ tick' = "arm"
  /\ UNCHANGED <<containers, memory, enter, reopen, start, request, backup,
                 coord>>

TickArm ==
  /\ tick = "arm"
  /\ tick' = "idle"
  /\ pendingMaint' = "announced"
  /\ UNCHANGED <<containers, op, pendingRestore, late, enter, reopen, start,
                 request, backup, coord>>

(* The closure is due and nothing holds it back, neither a restoration nor *)
(* the players it was to wait for: a tick that is held returns, and the    *)
(* announcement stays for the next one.                                    *)
TickDue ==
  /\ tick = "idle" /\ MayBegin
  /\ pendingMaint = "due"
  /\ ~Restoring
  /\ tick' = "cancel"
  /\ UNCHANGED <<containers, memory, enter, reopen, start, request, backup,
                 coord>>

(* The announcement is withdrawn, whoever else did so meanwhile; then the  *)
(* closure goes on, unless the doorman is unfit and it is called off.      *)
TickCancel ==
  /\ tick = "cancel"
  /\ pendingMaint' = "none"
  /\ tick' \in {"stop", "idle"}
  /\ UNCHANGED <<containers, op, pendingRestore, late, enter, reopen, start,
                 request, backup, coord>>

TickStop   == StopServer(tick, tick') /\ UNCHANGED enter
TickEngage == EngageDoorman(tick, tick') /\ UNCHANGED enter

-----------------------------------------------------------------------------
(* exit_maintenance, and start or restart (_refuse_if_maintenance).        *)

(* Mutant: no look at the restoration.                                    *)
ReopenCheckBlind ==
  /\ reopen = "idle" /\ MayBegin
  /\ reopen' = "cancel"
  /\ UNCHANGED <<containers, memory, enter, tick, start, request, backup,
                 coord>>

ReopenCheck ==
  /\ reopen = "idle" /\ MayBegin
  /\ ~Restoring
  /\ reopen' = "cancel"
  /\ UNCHANGED <<containers, memory, enter, tick, start, request, backup,
                 coord>>

ReopenCancel ==
  /\ reopen = "cancel" /\ reopen' = "release"
  /\ pendingMaint' = "none"
  /\ UNCHANGED <<containers, op, pendingRestore, late, enter, tick, start,
                 request, backup, coord>>

ReopenRelease ==
  /\ reopen = "release"
  /\ \/ doorman' = "down" /\ reopen' \in {"start", "idle"}
     \/ doorman' = doorman /\ reopen' = "idle"
  /\ UNCHANGED <<mc, safety, profile, workerState, memory,
                 enter, tick, start, request, backup, coord>>

DockerStart == mc' \in {mc} \cup (IF doorman = "down" THEN {"running"} ELSE {})

ReopenStart ==
  /\ reopen = "start" /\ reopen' = "idle"
  /\ DockerStart
  /\ UNCHANGED <<doorman, safety, profile, workerState, memory,
                 enter, tick, start, request, backup, coord>>

StartCheck ==
  /\ Starts = "always" \/ (Starts = "idle" /\ ~Restoring)
  /\ start = "idle" /\ MayBegin
  /\ DoormanSeenDown
  /\ start' = "start"
  /\ UNCHANGED <<containers, memory, enter, tick, reopen, request, backup,
                 coord>>

(* restart stops the server first, and may fail in between.                *)
StartServer ==
  /\ start = "start" /\ start' = "idle"
  /\ DockerStart \/ mc' = "stopped"
  /\ UNCHANGED <<doorman, safety, profile, workerState, memory,
                 enter, tick, reopen, request, backup, coord>>

-----------------------------------------------------------------------------
(* restore_backup and trigger_profile_backup, under _backup_restore_lock.  *)

(* Mutant: restore requests take no lock.                                 *)
LockFreeBackupsOnly == backup = "idle"

LockFree == request = "idle" /\ backup = "idle"

(* Mutant: the doorman is not asked for.                                  *)
RequestCheckIgnoresDoorman ==
  /\ LockFree /\ MayBegin
  /\ ~Restoring
  /\ pendingMaint = "none"
  /\ safety # "running" /\ ~profile
  /\ op' = "none"
  /\ request' = "trigger"
  /\ UNCHANGED <<containers, pendingRestore, pendingMaint, late, enter, tick,
                 reopen, start, backup, coord>>

(* _restore_preflight_issues: all clear.  A request that is refused only   *)
(* forgets the last result, as DismissResult does.                         *)
RequestCheck ==
  /\ LockFree /\ MayBegin
  /\ ~Restoring
  /\ DoormanSeenDown
  /\ pendingMaint = "none"
  /\ safety # "running" /\ ~profile
  /\ op' = "none"
  /\ request' = "trigger"
  /\ UNCHANGED <<containers, pendingRestore, pendingMaint, late, enter, tick,
                 reopen, start, backup, coord>>

RequestTrigger ==
  /\ request = "trigger"
  /\ \/ safety' = "running" /\ request' \in {"set", "idle"}
     \/ safety' = safety /\ request' = "idle"
  /\ UNCHANGED <<mc, doorman, profile, workerState, memory,
                 enter, tick, reopen, start, backup, coord>>

RequestSet ==
  /\ request = "set" /\ request' = "idle"
  /\ pendingRestore' = TRUE
  /\ late' = FALSE
  /\ UNCHANGED <<containers, op, pendingMaint, enter, tick, reopen, start,
                 backup, coord>>

BackupCheck ==
  /\ LockFree
  /\ ~Restoring
  /\ safety # "running"
  /\ backup' = "trigger"
  /\ UNCHANGED <<containers, memory, enter, tick, reopen, start, request,
                 coord>>

BackupTrigger ==
  /\ backup = "trigger" /\ backup' = "idle"
  /\ profile' = TRUE \/ UNCHANGED profile
  /\ UNCHANGED <<mc, doorman, safety, workerState, memory,
                 enter, tick, reopen, start, request, coord>>

-----------------------------------------------------------------------------
(* tick_pending_restore (RestoreCoordinator)                               *)

(* Mutant: no deadline for the safety backup.                             *)
CoordAbandonNoDeadline ==
  /\ coord = "idle" /\ pendingRestore
  /\ safety \in {"ok", "failed"}
  /\ pendingRestore' = FALSE
  /\ op' = "failed"
  /\ UNCHANGED <<containers, pendingMaint, late, threads>>

(* Deadline, failed safety backup, invalid safety archive or target.       *)
CoordAbandon ==
  /\ coord = "idle" /\ pendingRestore
  /\ late \/ safety \in {"ok", "failed"}
  /\ pendingRestore' = FALSE
  /\ op' = "failed"
  /\ UNCHANGED <<containers, pendingMaint, late, threads>>

CoordSafetyDone ==
  /\ coord = "idle" /\ pendingRestore
  /\ ~late /\ safety = "ok"
  /\ coord' = "launch"
  /\ UNCHANGED <<containers, memory, enter, tick, reopen, start, request,
                 backup>>

(* _start_restore_after_backup; an exception, even one raised after the    *)
(* container started, ends the wait and leaves no operation behind.        *)
CoordLaunch ==
  /\ coord = "launch"
  /\ WorkerLaunched \/ (coord' = "idle" /\ UNCHANGED seenVars)
  /\ \/ coord' = "set_op" /\ UNCHANGED pendingRestore
     \/ coord' = "idle" /\ pendingRestore' = FALSE
  /\ UNCHANGED <<safety, profile, op, pendingMaint, late, enter, tick, reopen,
                 start, request, backup>>

CoordSetOp ==
  /\ coord = "set_op" /\ coord' = "clear"
  /\ op' = "restore_running"
  /\ late' = FALSE
  /\ UNCHANGED <<containers, pendingRestore, pendingMaint, enter, tick, reopen,
                 start, request, backup>>

CoordClear ==
  /\ coord = "clear" /\ coord' = "idle"
  /\ pendingRestore' = FALSE
  /\ UNCHANGED <<containers, op, pendingMaint, late, enter, tick, reopen,
                 start, request, backup>>

(* _tick_restore_operation, phase restore_running.                         *)
CoordRunning ==
  /\ coord = "idle" /\ ~pendingRestore
  /\ op = "restore_running"
  /\ \/ /\ late \/ ProxyFails \/ (worker = "off" /\ workerExit # "ok")
        /\ op' = "failed" /\ UNCHANGED late
     \/ /\ ~late /\ worker = "off" /\ workerExit = "ok"
        /\ op' = "waiting_minecraft" /\ late' = FALSE

CoordWaiting ==
  /\ coord = "idle" /\ ~pendingRestore
  /\ op = "waiting_minecraft"
  /\ \/ late /\ op' = "failed"
     \/ ~late /\ mc = "running" /\ op' = "success"
  /\ UNCHANGED late

CoordOperation ==
  /\ CoordRunning \/ CoordWaiting
  /\ UNCHANGED <<containers, pendingRestore, pendingMaint, threads>>

(* dismiss_activity_result                                                 *)
DismissResult ==
  /\ op \in {"success", "failed"}
  /\ op' = "none"
  /\ UNCHANGED <<containers, pendingRestore, pendingMaint, late, threads>>

-----------------------------------------------------------------------------
(* The one-shot containers, as seen from outside.                          *)

others == <<memory, threads>>

SafetyEnds ==
  /\ safety = "running" /\ safety' \in {"ok", "failed"}
  /\ UNCHANGED <<mc, doorman, profile, workerState, others>>

ProfileEnds ==
  /\ profile /\ profile' = FALSE
  /\ UNCHANGED <<mc, doorman, safety, workerState, others>>

(* The restore worker goes on.                                             *)
Worker == WorkerStep /\ UNCHANGED <<safety, profile, others>>

-----------------------------------------------------------------------------
(* Time and crashes.                                                       *)

DeadlinePasses ==
  /\ pendingRestore \/ ~OpOver
  /\ ~late /\ late' = TRUE
  /\ UNCHANGED <<containers, op, pendingRestore, pendingMaint, threads>>

ClosureDue ==
  /\ pendingMaint = "announced" /\ pendingMaint' \in {"due", "held"}
  /\ UNCHANGED <<containers, op, pendingRestore, late, threads>>

(* Players come and leave, and Docker or the server stops and starts       *)
(* answering.                                                              *)
HoldChanges ==
  /\ \/ pendingMaint = "due" /\ pendingMaint' = "held"
     \/ pendingMaint = "held" /\ pendingMaint' = "due"
  /\ UNCHANGED <<containers, op, pendingRestore, late, threads>>

(* mc-admin restarts: threads end, what is only in memory is forgotten.    *)
AdminRestart ==
  /\ op' = "none" /\ pendingRestore' = FALSE /\ pendingMaint' = "none"
  /\ late' = FALSE
  /\ enter' = "idle" /\ tick' = "idle" /\ reopen' = "idle" /\ start' = "idle"
  /\ request' = "idle" /\ backup' = "idle" /\ coord' = "idle"
  /\ UNCHANGED containers

-----------------------------------------------------------------------------
(* What an administrator asks for, step by step: to close the server or to *)
(* reopen it, to start it, to restore an archive, to make a backup.        *)
CloseRequest == EnterCheck \/ EnterSchedule \/ EnterStop \/ EnterEngage
ReopenRequest ==
  \/ CancelMaintenance \/ ReopenCheck \/ ReopenCancel \/ ReopenRelease
  \/ ReopenStart
StartRequest == StartCheck \/ StartServer
RestoreRequest == RequestCheck \/ RequestTrigger \/ RequestSet
BackupRequest == BackupCheck \/ BackupTrigger

Requests ==
  \/ CloseRequest \/ ReopenRequest \/ StartRequest \/ RestoreRequest
  \/ BackupRequest \/ DismissResult

MaintenanceTick ==
  TickScheduled \/ TickArm \/ TickDue \/ TickCancel \/ TickStop \/ TickEngage

Coordinator ==
  \/ CoordAbandon \/ CoordSafetyDone \/ CoordLaunch \/ CoordSetOp
  \/ CoordClear \/ CoordOperation

Time == DeadlinePasses \/ ClosureDue \/ HoldChanges

CoordinationNext ==
  \/ Requests \/ MaintenanceTick \/ Coordinator \/ Worker
  \/ SafetyEnds \/ ProfileEnds \/ Time \/ AdminRestart

CoordinationSpec == CoordinationInit /\ [][CoordinationNext]_coordinationVars

(* Clocks advance, both background threads keep polling (their loops catch *)
(* every exception), a request that was begun goes on, and the worker,     *)
(* whose waits are all bounded, ends.                                      *)
CoordinationFairSpec ==
  /\ CoordinationSpec
  /\ WF_coordinationVars(DeadlinePasses) /\ WF_coordinationVars(ClosureDue)
  /\ WF_coordinationVars(Coordinator) /\ WF_coordinationVars(Worker)
  /\ WF_coordinationVars(TickDue)
  /\ WF_coordinationVars(TickArm \/ TickCancel \/ TickStop \/ TickEngage)
  /\ WF_coordinationVars(RequestTrigger \/ RequestSet)

-----------------------------------------------------------------------------
(* Maintenance and restoration exclude each other: a server closed for     *)
(* maintenance is never restored, hence never reopened behind the          *)
(* administrator's back (enter_maintenance, tick_maintenance and the       *)
(* restore preflight).                                                     *)
NoOverlap == doorman = "maintenance" => ~pendingRestore /\ worker = "off"

(* Minecraft never runs on a world that is half replaced.                  *)
NeverServesMixedWorld == ~(mc = "running" /\ world = "mixed")

(* No backup reads the world while the worker replaces it, whatever the    *)
(* order of requests, ticks, timeouts and restarts of mc-admin.            *)
NoBackupDuringReplacement ==
  worker = "replacing" => safety # "running" /\ ~profile

(* A restoration never stays in the way for ever: it starts or is          *)
(* abandoned, and its operation gets a result.                             *)
RestoreConcludes == Restoring ~> ~Restoring

(* A closure whose time has come is carried out, withdrawn or announced    *)
(* anew, even when a restoration held it back, provided that from some     *)
(* time on Docker answers and nobody it waits for is on the server         *)
(* (tick_maintenance: reported, never forgotten).                          *)
ClosureHappens ==
  <>[](pendingMaint # "held")
    => (pendingMaint = "due" ~> pendingMaint \notin {"due", "held"})

-----------------------------------------------------------------------------
(* The inductive invariants behind the theorems.                           *)

(* No restoration is waiting for its safety backup or being carried out.   *)
Quiet == ~pendingRestore /\ worker = "off"

(* From the moment a restore request has the lock to the end of the worker *)
(* no profile backup starts; the safety backup is over when the worker is  *)
(* launched, and no other can be asked for before it ends.                 *)
LockInv ==
  /\ request # "idle" => backup = "idle" /\ ~profile
  /\ ~Quiet => LockFree /\ ~profile
  /\ coord # "idle" => pendingRestore
  /\ coord = "launch" => safety = "ok"
  /\ worker # "off" => safety # "running"

(* Requests and ticks come one at a time, and began with no restoration    *)
(* under way: none can begin before they have made their last call.        *)
TurnInv ==
  /\ enter # "idle" => tick = "idle" /\ reopen = "idle" /\ start = "idle"
  /\ tick # "idle" => reopen = "idle" /\ start = "idle"
  /\ reopen # "idle" => start = "idle"
  /\ start # "idle" => request = "idle"
  /\ <<enter, tick, reopen>> # <<"idle", "idle", "idle">> =>
        Quiet /\ request = "idle"
  /\ request # "idle" => Quiet

(* A restore request is let in with the doorman down only.                 *)
ClosedInv == doorman = "maintenance" => Quiet /\ request = "idle"

(* A mixed world is in the hands of a worker that has stopped Minecraft,   *)
(* and that nobody is about to start.                                      *)
MixedInv ==
  /\ start # "idle" => Quiet
  /\ worker \in {"engage", "copy", "replacing"} => mc = "stopped"
  /\ world = "mixed" =>
        /\ mc = "stopped"
        /\ \/ worker = "replacing"
           \/ undoing /\ worker \in {"stop", "engage", "copy"}
=============================================================================
