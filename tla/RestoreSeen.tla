---------------------------- MODULE RestoreSeen ----------------------------
(***************************************************************************)
(* The restore worker as the other parts of mc-admin see it: the calls it  *)
(* makes on the two containers, whether the world on disk is of one piece, *)
(* and its exit code.  Coordination composes it with the other parts, and  *)
(* RestoreWorker implements it statement by statement.                     *)
(*                                                                         *)
(* An exception on the nominal path is undone; one met while `undoing'     *)
(* ends the run.  Any run may find what an earlier one left behind; while  *)
(* the world is mixed that is a rollback copy, and the run puts it back    *)
(* and does nothing else.                                                  *)
(***************************************************************************)
CONSTANT
  WorkerDies     \* TRUE: the worker may be killed, or fail to roll back

VARIABLES
  mc,            \* the minecraft container
  doorman,       \* who the doorman container holds the address for
  worker,        \* the call the restore worker makes next
  undoing,       \* its run undoes a transaction, and will end with 1
  workerExit,    \* its last exit code
  world          \* is the world on disk of one piece

workerState == <<worker, undoing, workerExit, world>>
seenVars == <<mc, doorman, workerState>>

SeenTypeOK ==
  /\ mc \in {"running", "stopped"}
  /\ doorman \in {"down", "maintenance", "restore"}
  /\ worker \in {"off", "prep", "stop", "engage", "copy", "replacing",
                "release", "start", "await"}
  /\ undoing \in BOOLEAN
  /\ workerExit \in {"none", "ok", "failed"}
  /\ world \in {"whole", "mixed"}

SeenInit ==
  /\ mc = "running" /\ doorman = "down"
  /\ worker = "off" /\ undoing = FALSE
  /\ workerExit = "none" /\ world = "whole"

-----------------------------------------------------------------------------
WorkerLaunched ==
  /\ worker = "off" /\ worker' = "prep"
  /\ workerExit' = "none"
  /\ UNCHANGED <<mc, doorman, undoing, world>>

(* A new transaction, once the archive is extracted; an earlier one undone *)
(* from its rollback copy; an earlier one that had not touched the world.  *)
WorkerBegins ==
  /\ worker = "prep"
  /\ \/ worker' = "stop" /\ undoing' = FALSE /\ world = "whole"
     \/ worker' = "stop" /\ undoing' = TRUE
     \/ worker' = "release" /\ undoing' = TRUE /\ world = "whole"
  /\ UNCHANGED <<mc, doorman, workerExit, world>>

(* A run that only cleans up behind an earlier one ends with 0; one that   *)
(* fails before it stops anything ends there.                              *)
WorkerGivesUp ==
  /\ worker = "prep" /\ worker' = "off"
  /\ workerExit' = "failed" \/ (world = "whole" /\ workerExit' = "ok")
  /\ UNCHANGED <<mc, doorman, undoing, world>>

WorkerStop ==
  /\ worker = "stop" /\ worker' = "engage"
  /\ mc' = "stopped"
  /\ UNCHANGED <<doorman, undoing, workerExit, world>>

(* The doorman takes the post if it can; a new transaction then makes its  *)
(* rollback copy, one that is undone has it.                               *)
WorkerEngage ==
  /\ worker = "engage"
  /\ \/ ~undoing /\ worker' = "copy" /\ UNCHANGED world
     \/ undoing /\ worker' = "replacing" /\ world' = "mixed"
  /\ UNCHANGED doorman \/ (doorman = "down" /\ mc = "stopped"
                                            /\ doorman' = "restore")
  /\ UNCHANGED <<mc, undoing, workerExit>>

(* The rollback copy is complete; from here on files are replaced.         *)
WorkerCopied ==
  /\ worker = "copy" /\ worker' = "replacing"
  /\ world' = "mixed"
  /\ UNCHANGED <<mc, doorman, undoing, workerExit>>

(* The archive applied, or the rollback copy put back.                     *)
WorkerReplaced ==
  /\ worker = "replacing" /\ worker' = "release"
  /\ world' = "whole"
  /\ UNCHANGED <<mc, doorman, undoing, workerExit>>

(* An error of Docker is taken for the absence of a doorman.               *)
WorkerRelease ==
  /\ worker = "release" /\ worker' = "start"
  /\ doorman' = "down" \/ UNCHANGED doorman
  /\ UNCHANGED <<mc, undoing, workerExit, world>>

(* Docker refuses the start while the address is held: WorkerRaises.       *)
WorkerStart ==
  /\ worker = "start" /\ worker' = "await"
  /\ doorman = "down" /\ mc' = "running"
  /\ UNCHANGED <<doorman, undoing, workerExit, world>>

(* Minecraft is healthy: exit code 0, unless something was undone.         *)
WorkerEnds ==
  /\ worker = "await" /\ worker' = "off"
  /\ mc = "running"
  /\ workerExit' = (IF undoing THEN "failed" ELSE "ok") /\ undoing' = FALSE
  /\ UNCHANGED <<mc, doorman, world>>

(* Minecraft may stop while its health is awaited.                         *)
MinecraftMayStop == UNCHANGED mc \/ (worker = "await" /\ mc' = "stopped")

(* The except blocks: once the rollback copy is complete the transaction   *)
(* is undone, before that the server is only started again.                *)
WorkerRaises ==
  /\ worker \notin {"off", "prep"}
  /\ \/ /\ ~undoing /\ undoing' = TRUE /\ UNCHANGED workerExit
        /\ \/ worker \in {"stop", "engage", "copy"} /\ worker' = "release"
           \/ worker \notin {"stop", "engage"} /\ worker' = "stop"
     \/ /\ undoing /\ (world = "whole" \/ WorkerDies)
        /\ worker' = "off" /\ workerExit' = "failed" /\ undoing' = FALSE
  /\ MinecraftMayStop
  /\ UNCHANGED <<doorman, world>>

WorkerKilled ==
  /\ WorkerDies
  /\ worker # "off" /\ worker' = "off"
  /\ workerExit' = "failed" /\ undoing' = FALSE
  /\ MinecraftMayStop
  /\ UNCHANGED <<doorman, world>>

WorkerStep ==
  \/ WorkerBegins \/ WorkerGivesUp \/ WorkerStop \/ WorkerEngage
  \/ WorkerCopied \/ WorkerReplaced \/ WorkerRelease \/ WorkerStart
  \/ WorkerEnds \/ WorkerRaises \/ WorkerKilled

(* mc-admin's start button, the one other part that RestoreWorker has.     *)
StartedByHand ==
  /\ doorman = "down" /\ mc' = "running"
  /\ UNCHANGED <<doorman, workerState>>

SeenNext == WorkerLaunched \/ WorkerStep \/ StartedByHand

SeenSpec == SeenInit /\ [][SeenNext]_seenVars
=============================================================================
