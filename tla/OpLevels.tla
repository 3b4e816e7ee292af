------------------------------ MODULE OpLevels ------------------------------
(***************************************************************************)
(* Operator levels: mc-admin's requests (ModerationMixin.op_add,           *)
(* op_remove; ActionsMixin.restart, start), the queue on disk              *)
(* (adapters/pending_op_levels.py) and the one-shot container that applies *)
(* the queue to ops.json while Minecraft is stopped                        *)
(* (app/op_levels_worker.py).                                              *)
(*                                                                         *)
(* A statement of the worker is an action on the files and the container   *)
(* (its effect); Step runs it and advances, Raise may run it and then      *)
(* fails (a file can be replaced and the fsync that follows still raise).  *)
(* The code path `mode' is one of                                          *)
(*   apply    apply_pending_levels                                         *)
(*   commit   its final clean-up                                           *)
(*   undo     the except block once rollback_ready                         *)
(*   abort    the except block before rollback_ready                       *)
(*   recover  _recover_interrupted, which undoes an earlier run            *)
(*   finish   _recover_interrupted, which finishes a committed run         *)
(***************************************************************************)
EXTENDS OpTables, Naturals

CONSTANTS
  NoFile,
  MaxFaults,        \* bound: exceptions and kills, all runs together
  CommitFails,      \* TRUE: complete_claim, or the fsync that follows the
                    \* marker "committed", may raise
  AdminInterferes   \* TRUE: operators may be changed while an interrupted
                    \* run still waits for its recovery

VARIABLES
  ops,        \* ops.json
  pending,    \* pending_op_levels.json
  applying,   \* pending_op_levels.applying.json
  rollback,   \* .mc-admin-ops-rollback.json
  marker,     \* .mc-admin-ops-transaction.json
  mc,         \* the minecraft container
  starting,   \* a start found the queue empty and has yet to call Docker
  elsewhere,  \* someone else started Minecraft after the worker's last stop
  operation,  \* mc-admin's _op_levels_operation is set
  pc, mode, requested, exit,
  faults

files == <<ops, pending, applying, rollback, marker>>
starts == <<starting, elsewhere>>
vars == <<files, mc, starts, operation, pc, mode, requested, exit, faults>>

ASSUME OpLevelsAssumption ==
  /\ NoFile \notin Table
  /\ MaxFaults \in Nat
  /\ CommitFails \in BOOLEAN
  /\ AdminInterferes \in BOOLEAN

(* The phase each marker write announces.                                  *)
PhaseAt == [w_claimed        |-> "claimed",
            w_stopped        |-> "stopped",
            w_rollback_ready |-> "rollback_ready",
            w_applied        |-> "applied",
            w_committed      |-> "committed"]

Phases == {PhaseAt[w] : w \in DOMAIN PhaseAt} \cup {"none"}

NoMarker == [phase |-> "none", requested |-> EmptyTable,
             unresolved |-> EmptyTable]

Pcs == DOMAIN PhaseAt \cup
       {"idle", "recover", "claim", "claim2", "stop", "backup", "write_ops",
        "start", "complete", "complete2", "undo_ops", "restore", "restore2",
        "clean_rollback", "clean_state"}

Modes == {"apply", "commit", "undo", "abort", "recover", "finish"}

TypeOK ==
  /\ ops \in Table /\ pending \in Table /\ applying \in Table
  /\ rollback \in Table \cup {NoFile}
  /\ marker \in [phase : Phases, requested : Table, unresolved : Table]
  /\ mc \in {"running", "stopped"}
  /\ starting \in BOOLEAN /\ elsewhere \in BOOLEAN
  /\ operation \in BOOLEAN
  /\ pc \in Pcs /\ mode \in Modes
  /\ requested \in Table
  /\ exit \in {"none", "ok", "failed", "killed"}
  /\ faults \in 0..MaxFaults

Init ==
  /\ ops = EmptyTable /\ pending = EmptyTable /\ applying = EmptyTable
  /\ rollback = NoFile /\ marker = NoMarker
  /\ mc = "running" /\ starting = FALSE /\ elsewhere = FALSE
  /\ operation = FALSE
  /\ pc = "idle" /\ mode = "apply" /\ requested = EmptyTable
  /\ exit = "none" /\ faults = 0

-----------------------------------------------------------------------------
(* mc-admin.                                                               *)

(* _ensure_op_levels_idle: neither in memory nor in Docker.                *)
OpLevelsIdle == ~operation /\ pc = "idle"

(* What an interrupted run left for the next one to undo or to requeue.    *)
Interrupted ==
  \/ marker.phase \notin {"none", "committed"}
  \/ marker.unresolved # EmptyTable
  \/ applying # EmptyTable

MayChangeOperators ==
  /\ OpLevelsIdle
  /\ mc = "running"                 \* RCON answers
  /\ Interrupted => AdminInterferes

worker == <<applying, rollback, marker, mc, starts, operation, pc, mode,
            requested, exit, faults>>

(* op_add.  The RCON promotion is done first; list_ops or the write of the *)
(* queue may fail.                                                         *)
OpAdd(p, l) ==
  /\ MayChangeOperators
  /\ ops' = Promoted(ops, p)
  /\ \E known \in BOOLEAN :
       LET immediate == known /\ (\/ ops[p] = l
                                  \/ ops[p] = None /\ l = DefaultLevel)
       IN pending' \in {[pending EXCEPT ![p] = IF immediate THEN None ELSE l],
                        pending}
  /\ UNCHANGED worker

OpRemove(p) ==
  /\ MayChangeOperators
  /\ ops' = [ops EXCEPT ![p] = None]
  /\ pending' \in {[pending EXCEPT ![p] = None], pending}
  /\ UNCHANGED worker

(* list_pending: what restart and start look at.                           *)
ListPending == Merge(applying, pending)

(* restart or start with levels in the queue: _begin_op_levels_apply.      *)
Launch ==
  /\ ListPending # EmptyTable
  /\ OpLevelsIdle
  /\ operation' = TRUE
  /\ pc' = "recover" /\ mode' = "apply" /\ exit' = "none"
  /\ elsewhere' = FALSE
  /\ UNCHANGED <<files, mc, starting, requested, faults>>

(* start or restart with an empty queue: looked at, and then, with no lock *)
(* held meanwhile, Docker starts the container.                            *)
StartCheck ==
  /\ ListPending = EmptyTable
  /\ ~starting /\ starting' = TRUE
  /\ UNCHANGED <<files, mc, elsewhere, operation, pc, mode, requested, exit,
                 faults>>

DockerStart ==
  /\ mc' = "running"
  /\ elsewhere' = (pc # "idle")
  /\ UNCHANGED <<files, operation, pc, mode, requested, exit, faults>>

PlainStart == starting /\ starting' = FALSE /\ DockerStart

(* exit_maintenance starts the container without a look at the queue.      *)
Reopen == DockerStart /\ UNCHANGED starting

(* Mutant: the operation is only concluded when the worker succeeded.      *)
TickOperationOnlyOnSuccess ==
  /\ operation /\ pc = "idle" /\ exit = "ok"
  /\ operation' = FALSE
  /\ UNCHANGED <<files, mc, starts, pc, mode, requested, exit, faults>>

(* _tick_op_levels_operation, or a restart of mc-admin, which only keeps   *)
(* the operation in memory.                                                *)
TickOperation ==
  /\ operation /\ pc = "idle"
  /\ operation' = FALSE
  /\ UNCHANGED <<files, mc, starts, pc, mode, requested, exit, faults>>

AdminRestart ==
  /\ operation /\ pc # "idle"
  /\ operation' = FALSE
  /\ UNCHANGED <<files, mc, starts, pc, mode, requested, exit, faults>>

-----------------------------------------------------------------------------
(* The worker's statements: what each does to the files and the container. *)

(* _recover_interrupted reads the marker.                                  *)
ReadMarker ==
  /\ pc = "recover"
  /\ requested' = marker.requested
  /\ UNCHANGED <<files, mc>>

(* claim: the applying file is written first, then the queue is emptied.   *)
ClaimApplying ==
  /\ pc = "claim"
  /\ applying' = Merge(applying, pending)
  /\ requested' = applying'
  /\ UNCHANGED <<ops, pending, rollback, marker, mc>>

ClaimPending ==
  /\ pc = "claim2"
  /\ pending' = EmptyTable
  /\ UNCHANGED <<ops, applying, rollback, marker, mc, requested>>

(* Mutant: unresolved requests are forgotten.                              *)
CompletePendingForgets ==
  /\ pc = "complete"
  /\ UNCHANGED <<files, mc, requested>>

(* complete_claim: unresolved requests return to the queue (setdefault).   *)
CompletePending ==
  /\ pc = "complete"
  /\ pending' = Merge(marker.unresolved, pending)
  /\ UNCHANGED <<ops, applying, rollback, marker, mc, requested>>

CompleteApplying ==
  /\ pc = "complete2"
  /\ applying' = EmptyTable
  /\ UNCHANGED <<ops, pending, rollback, marker, mc, requested>>

(* restore_claim(requested): the whole batch returns to the queue; what    *)
(* was asked meanwhile wins.                                               *)
RestorePending ==
  /\ pc = "restore"
  /\ pending' = Merge(Merge(applying, requested), pending)
  /\ UNCHANGED <<ops, applying, rollback, marker, mc, requested>>

RestoreApplying ==
  /\ pc = "restore2"
  /\ applying' = EmptyTable
  /\ UNCHANGED <<ops, pending, rollback, marker, mc, requested>>

WriteState ==
  /\ pc \in DOMAIN PhaseAt
  /\ marker' = [phase      |-> PhaseAt[pc],
                requested  |-> requested,
                unresolved |-> IF pc = "w_committed"
                               THEN Unresolved(rollback, requested)
                               ELSE EmptyTable]
  /\ UNCHANGED <<ops, pending, applying, rollback, mc, requested>>

StopServer ==
  /\ pc = "stop"
  /\ mc' = "stopped"
  /\ UNCHANGED <<files, requested>>

(* DockerContainerController.start, up to "healthy".                       *)
StartServer ==
  /\ pc = "start"
  /\ mc' = "running"
  /\ UNCHANGED <<files, requested>>

Backup ==
  /\ pc = "backup"
  /\ rollback' = ops
  /\ UNCHANGED <<ops, pending, applying, marker, mc, requested>>

(* The levels are computed from the entries read before the backup, which  *)
(* are the ones it holds.                                                  *)
WriteOps ==
  /\ pc = "write_ops"
  /\ ops' = Applied(rollback, requested)
  /\ UNCHANGED <<pending, applying, rollback, marker, mc, requested>>

(* _restore_rollback                                                       *)
UndoOps ==
  /\ pc = "undo_ops"
  /\ ops' = rollback
  /\ UNCHANGED <<pending, applying, rollback, marker, mc, requested>>

(* _cleanup                                                                *)
CleanRollback ==
  /\ pc = "clean_rollback"
  /\ rollback' = NoFile
  /\ UNCHANGED <<ops, pending, applying, marker, mc, requested>>

CleanState ==
  /\ pc = "clean_state"
  /\ marker' = NoMarker
  /\ UNCHANGED <<ops, pending, applying, rollback, mc, requested>>

Statement ==
  \/ ReadMarker \/ ClaimApplying \/ ClaimPending \/ CompletePending
  \/ CompleteApplying \/ RestorePending \/ RestoreApplying \/ WriteState
  \/ StopServer \/ StartServer \/ Backup \/ WriteOps \/ UndoOps
  \/ CleanRollback \/ CleanState

-----------------------------------------------------------------------------
(* Control: where the worker goes after a statement.                       *)

Go(next, path) == pc' = next /\ mode' = path /\ UNCHANGED exit

EndRun(how) == pc' = "idle" /\ exit' = how /\ UNCHANGED mode

(* Mutant: recovery restores ops.json without stopping Minecraft.          *)
RecoverWithoutStop ==
  /\ pc = "recover"
  /\ IF marker.phase = "none" /\ rollback = NoFile THEN Go("claim", "apply")
     ELSE IF marker.phase = "committed" THEN Go("complete", "finish")
     ELSE Go(IF rollback # NoFile THEN "undo_ops" ELSE "start", "recover")

(* _recover_interrupted chooses from what is on disk.                      *)
Recover ==
  /\ pc = "recover"
  /\ IF marker.phase = "none" /\ rollback = NoFile THEN Go("claim", "apply")
     ELSE IF marker.phase = "committed" THEN Go("complete", "finish")
     ELSE Go(IF rollback # NoFile THEN "stop" ELSE "start", "recover")

(* The order of the statements that is the same on every path.             *)
NextOf == [claim            |-> "claim2",
           claim2           |-> "w_claimed",
           w_claimed        |-> "stop",
           w_stopped        |-> "backup",
           backup           |-> "w_rollback_ready",
           w_rollback_ready |-> "write_ops",
           write_ops        |-> "w_applied",
           w_applied        |-> "start",
           w_committed      |-> "complete",
           complete         |-> "complete2",
           undo_ops         |-> "start",
           restore          |-> "restore2",
           restore2         |-> "clean_rollback",
           clean_rollback   |-> "clean_state"]

Advance ==
  \/ Recover
  \/ pc \in DOMAIN NextOf /\ Go(NextOf[pc], mode)
  \/ pc = "stop" /\ Go(IF mode = "apply" THEN "w_stopped" ELSE "undo_ops", mode)
  \/ pc = "start" /\ Go(IF mode = "apply" THEN "w_committed" ELSE "restore", mode)
  \/ /\ pc = "complete2"
     /\ Go("clean_rollback", IF mode = "apply" THEN "commit" ELSE mode)
  \/ pc = "clean_state" /\ mode = "finish" /\ Go("claim", "apply")
  \/ pc = "clean_state" /\ mode = "commit" /\ EndRun("ok")
  \/ /\ pc = "clean_state" /\ mode \in {"undo", "abort", "recover"}
     /\ EndRun("failed")

Started == elsewhere' = (elsewhere /\ mc' = "running") /\ UNCHANGED starting

Step ==
  /\ Statement
  /\ Advance
  /\ Started
  /\ UNCHANGED <<operation, faults>>

(* Mutant: server_may_be_stopped is only set after controller.stop().      *)
HandledStoppedTooLate ==
  \/ mode = "apply" /\ pc \in {"w_claimed", "stop"} /\ Go("restore", "abort")
  \/ mode = "abort" /\ EndRun("failed")

(* The except blocks.                                                      *)
Handled ==
  \/ mode = "apply" /\ pc \in {"recover", "claim", "claim2"} /\ EndRun("failed")
  \/ mode = "apply" /\ pc = "w_claimed" /\ Go("restore", "abort")
  \/ /\ mode = "apply" /\ pc \in {"stop", "w_stopped", "backup"}
     /\ Go("start", "abort")
  \/ /\ mode = "apply"
     /\ pc \in {"w_rollback_ready", "write_ops", "w_applied", "start",
                "w_committed", "complete", "complete2"}
     /\ Go("stop", "undo")
  \/ mode = "commit" /\ EndRun("ok")
  \/ mode \in {"undo", "abort", "recover", "finish"} /\ EndRun("failed")

Raise ==
  /\ pc # "idle" /\ faults < MaxFaults
  /\ pc \in {"complete", "complete2"} /\ mode = "apply" => CommitFails
  /\ \/ Statement /\ (pc = "w_committed" => CommitFails)
     \/ UNCHANGED <<files, mc, requested>>
  /\ Handled
  /\ Started
  /\ faults' = faults + 1
  /\ UNCHANGED operation

Kill ==
  /\ pc # "idle" /\ faults < MaxFaults
  /\ faults' = faults + 1
  /\ EndRun("killed")
  /\ UNCHANGED <<files, mc, starts, operation, requested>>

-----------------------------------------------------------------------------
ChangeOperators ==
  \E p \in Players : OpRemove(p) \/ \E l \in Levels : OpAdd(p, l)

Next ==
  \/ ChangeOperators \/ Launch \/ StartCheck \/ PlainStart \/ Reopen
  \/ TickOperation \/ AdminRestart \/ Step \/ Raise \/ Kill

Spec == Init /\ [][Next]_vars

(* The worker keeps running, mc-admin's ticks keep coming, and restarts    *)
(* keep being asked for (the recurring restart does so every day).         *)
FairSpec ==
  Spec /\ WF_vars(Step) /\ WF_vars(TickOperation) /\ WF_vars(Launch)

-----------------------------------------------------------------------------
(***************************************************************************)
(* Refinement mapping: what the next run would make of the files.  Until   *)
(* the running worker is done with its batch, "committed" does not count.  *)
(***************************************************************************)
InHand == mode \in {"apply", "undo"} /\ pc \notin {"idle", "recover"}

Committed == marker.phase = "committed" /\ ~InHand

LogicalOps ==
  IF marker.phase = "none" \/ Committed \/ rollback = NoFile THEN ops
  ELSE rollback

LogicalQueue ==
  IF Committed THEN Merge(marker.unresolved, pending)
  ELSE Merge(Merge(applying, marker.requested), pending)

Queue == INSTANCE OpQueue WITH ops <- LogicalOps, queue <- LogicalQueue

(* A batch of levels is applied completely or not at all, no request is    *)
(* lost, none is applied twice or comes back, whatever is killed or fails  *)
(* (apply_pending_levels, _recover_interrupted, the three claim            *)
(* operations of the queue).                                               *)
AtomicBatch == Queue!Spec

(* Applying, undoing or recovering, the worker writes ops.json only after  *)
(* it stopped Minecraft, which would overwrite it: if the server runs at   *)
(* that moment, then because start, restart or exit_maintenance, which     *)
(* take no lock, called Docker after the worker's stop.                    *)
WritesWhileStopped ==
  [][(Step \/ Raise) /\ ops' # ops => mc = "stopped" \/ elsewhere]_vars

(* A server stopped by a run that did not finish is never forgotten: the   *)
(* marker tells the next run.                                              *)
StoppedServerLeavesMarker == mc = "stopped" => marker.phase # "none"

(* A player who is not an operator, removed by /deop for instance, is not  *)
(* made one by the worker.                                                 *)
DemotedStaysDemoted ==
  [][Step \/ Raise => \A p \in Players : ops[p] = None => ops'[p] = None]_vars

(* A level asked for an operator is eventually effective, or withdrawn, or *)
(* the player is demoted.                                                  *)
EventuallyApplied ==
  \A p \in Players :
    ops[p] # None /\ ListPending[p] # None ~>
      ops[p] = None \/ ListPending[p] = None
=============================================================================
