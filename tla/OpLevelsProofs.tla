--------------------------- MODULE OpLevelsProofs ---------------------------
(***************************************************************************)
(* Operator levels, for any players, levels and number of exceptions and   *)
(* kills, while the final clean-up's own writes do not raise and operators *)
(* are not changed before an interrupted run has been recovered from.      *)
(***************************************************************************)
EXTENDS OpLevels, TLAPS

(* What is asserted of the runs the theorems are about.                    *)
Careful == CommitFails = FALSE /\ AdminInterferes = FALSE

Undoing == {"undo", "abort", "recover"}
Cleaning == {"clean_rollback", "clean_state"}

(* Where each path goes.                                                   *)
PcsOf == [apply   |-> DOMAIN PhaseAt \cup {"recover", "claim", "claim2", "stop", "backup",
                                           "write_ops", "start", "complete", "complete2"},
          commit  |-> Cleaning,
          undo    |-> {"stop", "undo_ops", "start", "restore", "restore2"} \cup Cleaning,
          abort   |-> {"start", "restore", "restore2"} \cup Cleaning,
          recover |-> {"stop", "undo_ops", "start", "restore", "restore2"} \cup Cleaning,
          finish  |-> {"complete", "complete2"} \cup Cleaning]

(* The marker a run finds on disk when it applies levels.                  *)
ApplyPhase ==
  [claim |-> "none", claim2 |-> "none", w_claimed |-> "none",
   stop |-> "claimed", w_stopped |-> "claimed",
   backup |-> "stopped", w_rollback_ready |-> "stopped",
   write_ops |-> "rollback_ready", w_applied |-> "rollback_ready",
   start |-> "applied", w_committed |-> "applied",
   complete |-> "committed", complete2 |-> "committed"]

(* The queue holds every entry of a table, or a later one.                 *)
Holds(table) == \A p \in Players : pending[p] = None => table[p] = None

Control == pc # "idle" => pc \in PcsOf[mode]

PhaseInv ==
  /\ mode = "apply" /\ pc \in DOMAIN ApplyPhase => marker.phase = ApplyPhase[pc]
  /\ mode \in {"undo", "recover"} /\ pc # "idle" => marker.phase \notin {"none", "committed"}
  /\ mode = "abort" /\ pc # "idle" => marker.phase # "committed"
  /\ mode \in {"commit", "finish"} /\ pc # "idle" => marker.phase = "committed"

DiskInv ==
  /\ marker.phase = "none" => marker = NoMarker /\ rollback = NoFile
  /\ marker.phase # "committed" => marker.unresolved = EmptyTable
  /\ rollback # NoFile /\ marker.phase # "committed" =>
       ops = rollback \/ ops = Applied(rollback, marker.requested)
  /\ marker.phase # "committed" =>
       \A p \in Players : marker.requested[p] = None \/ ListPending[p] # None

(* Between the worker's stop and its start Minecraft runs only if someone  *)
(* else started it.                                                        *)
ServerInv ==
  /\ mc = "stopped" => marker.phase \notin {"none", "committed"}
  /\ pc = "undo_ops" => mc = "stopped" \/ elsewhere
  /\ mode = "apply" /\ pc \in {"w_stopped", "backup", "w_rollback_ready", "write_ops", "w_applied"}
       => mc = "stopped" \/ elsewhere
  /\ pc \in {"restore", "restore2", "w_committed"} \cup Cleaning => mc = "running"

(* The batch, from its claim to its end.                                   *)
BatchInv ==
  /\ mode = "apply" /\ pc \in DOMAIN ApplyPhase \ {"claim"} => requested = applying
  /\ mode = "apply" /\ pc = "claim2" => Merge(applying, pending) = applying
  /\ mode = "apply" /\ pc \in DOMAIN ApplyPhase \ {"claim", "claim2", "complete2"} => pending = EmptyTable
  /\ mode = "apply" /\ pc \in DOMAIN ApplyPhase \ {"claim", "claim2", "w_claimed"}
       => marker.requested = requested
  /\ mode = "apply" /\ pc \in {"stop", "w_stopped", "backup"} => rollback = NoFile
  /\ mode = "apply" /\ pc \in {"w_rollback_ready", "write_ops"} => rollback = ops
  /\ mode = "apply" /\ pc \in {"w_applied", "start", "w_committed", "complete", "complete2"}
       => rollback # NoFile /\ ops = Applied(rollback, requested)
  /\ mode = "apply" /\ pc \in {"complete", "complete2"}
       => marker.unresolved = Unresolved(rollback, requested)
  /\ mode = "apply" /\ pc = "complete2" => pending = marker.unresolved

(* Undoing, the batch returns to the queue before its files are removed.   *)
UndoInv ==
  /\ mode \in {"undo", "recover"} /\ pc # "idle" => requested = marker.requested
  /\ mode = "abort" /\ pc # "idle" =>
       marker.phase = "none" \/ requested = marker.requested
  /\ mode = "abort" /\ pc \in {"start", "restore", "restore2"} => applying = requested
  /\ pc \in {"stop", "undo_ops"} /\ mode # "apply" => rollback # NoFile
  /\ mode \in Undoing /\ pc \in {"start", "restore", "restore2", "clean_rollback"} =>
       rollback = NoFile \/ ops = rollback
  /\ mode \in Undoing /\ pc \in {"restore2"} \cup Cleaning => Holds(applying) /\ Holds(requested)
  /\ mode \in {"commit", "finish"} /\ pc \in {"complete2"} \cup Cleaning => Holds(marker.unresolved)
  /\ pc \in Cleaning => applying = EmptyTable
  /\ pc = "clean_state" => rollback = NoFile

OpInv == TypeOK /\ Control /\ PhaseInv /\ DiskInv /\ ServerInv /\ BatchInv /\ UndoInv

-----------------------------------------------------------------------------
(* Tables of levels.                                                       *)
LEMMA TableFacts ==
  /\ EmptyTable \in Table /\ \A p \in Players : EmptyTable[p] = None
  /\ \A s, t \in Table : Merge(s, t) \in Table /\ Applied(s, t) \in Table /\ Unresolved(s, t) \in Table
  /\ \A s, t \in Table : \A p \in Players : Merge(s, t)[p] = IF t[p] # None THEN t[p] ELSE s[p]
  /\ \A s, t \in Table : Merge(Merge(s, t), t) = Merge(s, t) /\ Merge(s, EmptyTable) = s
                         /\ Merge(EmptyTable, t) = t /\ Applied(s, EmptyTable) = s
BY DEF EmptyTable, Table, Merge, Applied, Unresolved

(* The control of the worker, label by label.                              *)
LEMMA Labels ==
  /\ DOMAIN PhaseAt = {"w_claimed", "w_stopped", "w_rollback_ready", "w_applied", "w_committed"}
  /\ PhaseAt["w_claimed"] = "claimed" /\ PhaseAt["w_stopped"] = "stopped"
  /\ PhaseAt["w_rollback_ready"] = "rollback_ready" /\ PhaseAt["w_applied"] = "applied"
  /\ PhaseAt["w_committed"] = "committed"
BY DEF PhaseAt

LEMMA ApplyLabels ==
  /\ DOMAIN ApplyPhase = {"claim", "claim2", "w_claimed", "stop", "w_stopped", "backup",
                          "w_rollback_ready", "write_ops", "w_applied", "start", "w_committed",
                          "complete", "complete2"}
  /\ ApplyPhase["claim"] = "none" /\ ApplyPhase["claim2"] = "none" /\ ApplyPhase["w_claimed"] = "none"
  /\ ApplyPhase["stop"] = "claimed" /\ ApplyPhase["w_stopped"] = "claimed"
  /\ ApplyPhase["backup"] = "stopped" /\ ApplyPhase["w_rollback_ready"] = "stopped"
  /\ ApplyPhase["write_ops"] = "rollback_ready" /\ ApplyPhase["w_applied"] = "rollback_ready"
  /\ ApplyPhase["start"] = "applied" /\ ApplyPhase["w_committed"] = "applied"
  /\ ApplyPhase["complete"] = "committed" /\ ApplyPhase["complete2"] = "committed"
BY DEF ApplyPhase

LEMMA NextLabels ==
  /\ DOMAIN NextOf = {"claim", "claim2", "w_claimed", "w_stopped", "backup", "w_rollback_ready",
                      "write_ops", "w_applied", "w_committed", "complete", "undo_ops", "restore",
                      "restore2", "clean_rollback"}
  /\ NextOf["claim"] = "claim2" /\ NextOf["claim2"] = "w_claimed" /\ NextOf["w_claimed"] = "stop"
  /\ NextOf["w_stopped"] = "backup" /\ NextOf["backup"] = "w_rollback_ready"
  /\ NextOf["w_rollback_ready"] = "write_ops" /\ NextOf["write_ops"] = "w_applied"
  /\ NextOf["w_applied"] = "start" /\ NextOf["w_committed"] = "complete"
  /\ NextOf["complete"] = "complete2" /\ NextOf["undo_ops"] = "start"
  /\ NextOf["restore"] = "restore2" /\ NextOf["restore2"] = "clean_rollback"
  /\ NextOf["clean_rollback"] = "clean_state"
BY DEF NextOf

LEMMA ModeLabels ==
  ASSUME TypeOK, Control
  PROVE  /\ pc \in {"recover", "claim", "claim2", "backup", "write_ops"} \cup DOMAIN PhaseAt => mode = "apply"
         /\ pc = "stop" => mode \in {"apply", "undo", "recover"}
         /\ pc = "undo_ops" => mode \in {"undo", "recover"}
         /\ pc = "start" => mode \in {"apply"} \cup Undoing
         /\ pc \in {"complete", "complete2"} => mode \in {"apply", "finish"}
         /\ pc \in {"restore", "restore2"} => mode \in Undoing
         /\ pc \in Cleaning => mode \in {"commit", "finish"} \cup Undoing
<1>1. /\ PcsOf["apply"] = DOMAIN PhaseAt \cup {"recover", "claim", "claim2", "stop", "backup",
                                           "write_ops", "start", "complete", "complete2"}
      /\ PcsOf["commit"] = Cleaning
      /\ PcsOf["undo"] = {"stop", "undo_ops", "start", "restore", "restore2"} \cup Cleaning
      /\ PcsOf["abort"] = {"start", "restore", "restore2"} \cup Cleaning
      /\ PcsOf["recover"] = {"stop", "undo_ops", "start", "restore", "restore2"} \cup Cleaning
      /\ PcsOf["finish"] = {"complete", "complete2"} \cup Cleaning
  BY DEF PcsOf
<1>2. mode \in {"apply", "commit", "undo", "abort", "recover", "finish"}
  BY DEF TypeOK, Modes
<1>3. QED
  BY <1>1, <1>2, Labels DEF Control, Cleaning, Undoing

LEMMA Tables ==
  ASSUME TypeOK
  PROVE  /\ marker.requested \in Table /\ marker.unresolved \in Table /\ ListPending \in Table
         /\ rollback # NoFile => rollback \in Table
         /\ \A p \in Players : ListPending[p] = IF pending[p] # None THEN pending[p] ELSE applying[p]
         /\ NoMarker \in [phase : Phases, requested : Table, unresolved : Table]
         /\ NoMarker.phase = "none" /\ NoMarker.requested = EmptyTable /\ NoMarker.unresolved = EmptyTable
<1>1. marker \in [phase : Phases, requested : Table, unresolved : Table]
  BY DEF TypeOK
<1>2. "none" \in Phases
  BY DEF Phases
<1>3. NoMarker \in [phase : Phases, requested : Table, unresolved : Table]
  BY <1>2, TableFacts DEF NoMarker
<1>4. QED
  BY <1>1, <1>3, TableFacts DEF TypeOK, ListPending, NoMarker

(* A statement leaves the files well formed ...                            *)
Files ==
  /\ ops \in Table /\ pending \in Table /\ applying \in Table
  /\ rollback \in Table \cup {NoFile}
  /\ marker \in [phase : Phases, requested : Table, unresolved : Table]
  /\ mc \in {"running", "stopped"} /\ requested \in Table

LEMMA StatementType ==
  ASSUME OpInv, Statement
  PROVE  Files'
<1> USE DEF OpInv
<1>1. Files
  BY DEF TypeOK, Files
<1>2. CASE ReadMarker
  BY <1>1, <1>2, Tables DEF ReadMarker, Files, files
<1>3. CASE ClaimApplying
  BY <1>1, <1>3, TableFacts DEF ClaimApplying, Files
<1>4. CASE ClaimPending \/ CompleteApplying \/ RestoreApplying
  BY <1>1, <1>4, TableFacts DEF ClaimPending, CompleteApplying, RestoreApplying, Files
<1>5. CASE CompletePending \/ RestorePending
  <2>1. marker.unresolved \in Table /\ Merge(applying, requested) \in Table /\ pending \in Table
    BY <1>1, TableFacts, Tables DEF Files
  <2>2. Merge(marker.unresolved, pending) \in Table /\ Merge(Merge(applying, requested), pending) \in Table
    BY <2>1, TableFacts
  <2>3. QED
    BY <1>1, <1>5, <2>2 DEF CompletePending, RestorePending, Files
<1>6. CASE WriteState
  <2> DEFINE u == IF pc = "w_committed" THEN Unresolved(rollback, requested) ELSE EmptyTable
  <2>1. /\ marker' = [phase |-> PhaseAt[pc], requested |-> requested, unresolved |-> u]
        /\ UNCHANGED <<ops, pending, applying, rollback, mc, requested>> /\ pc \in DOMAIN PhaseAt
    BY <1>6 DEF WriteState
  <2>2. PhaseAt[pc] \in Phases
    BY <2>1 DEF Phases
  <2>3. u \in Table
    <3>1. CASE pc = "w_committed"
      <4>1. mode = "apply" /\ rollback # NoFile
        BY <3>1, ModeLabels, Labels DEF BatchInv
      <4>2. QED
        BY <1>1, <3>1, <4>1, TableFacts DEF Files
    <3>2. CASE pc # "w_committed"
      BY <3>2, TableFacts
    <3>3. QED
      BY <3>1, <3>2
  <2> HIDE DEF u
  <2>4. QED
    BY <1>1, <2>1, <2>2, <2>3 DEF Files
<1>7. CASE StopServer \/ StartServer
  BY <1>1, <1>7 DEF StopServer, StartServer, Files, files
<1>8. CASE Backup
  BY <1>1, <1>8 DEF Backup, Files
<1>9. CASE WriteOps
  <2>1. rollback = ops
    BY <1>9, ModeLabels DEF WriteOps, BatchInv
  <2>2. QED
    BY <1>1, <1>9, <2>1, TableFacts DEF WriteOps, Files
<1>10. CASE UndoOps
  <2>1. rollback # NoFile
    BY <1>10, ModeLabels DEF UndoOps, UndoInv
  <2>2. QED
    BY <1>1, <1>10, <2>1 DEF UndoOps, Files
<1>11. CASE CleanRollback
  BY <1>1, <1>11 DEF CleanRollback, Files
<1>12. CASE CleanState
  BY <1>1, <1>12, Tables DEF CleanState, Files
<1>13. QED
  BY <1>2, <1>3, <1>4, <1>5, <1>6, <1>7, <1>8, <1>9, <1>10, <1>11, <1>12 DEF Statement

(* ... and what the next run relies on.                                    *)
DiskOK == DiskInv /\ (mc = "stopped" => marker.phase \notin {"none", "committed"})

LEMMA StatementDisk ==
  ASSUME OpInv, Statement
  PROVE  DiskOK'
<1> USE DEF OpInv
<1>t. Files /\ Files' /\ TypeOK
  BY StatementType DEF TypeOK, Files
<1>d. DiskOK
  BY DEF DiskOK, ServerInv
<1>p. /\ \A p \in Players : ListPending[p] = IF pending[p] # None THEN pending[p] ELSE applying[p]
      /\ \A p \in Players : ListPending'[p] = IF pending'[p] # None THEN pending'[p] ELSE applying'[p]
  <2>1. /\ applying \in Table /\ pending \in Table /\ ListPending = Merge(applying, pending)
        /\ applying' \in Table /\ pending' \in Table /\ ListPending' = Merge(applying', pending')
    BY <1>t DEF Files, ListPending
  <2>2. QED
    BY <2>1 DEF Merge
<1>2. CASE ReadMarker \/ StartServer
  BY <1>2, <1>d DEF ReadMarker, StartServer, DiskOK, DiskInv, files, ListPending
<1>3. CASE ClaimApplying \/ ClaimPending
  <2>1. mode = "apply" /\ pc \in {"claim", "claim2"}
    BY <1>3, ModeLabels DEF ClaimApplying, ClaimPending
  <2>2. marker.phase = "none" /\ marker = NoMarker /\ UNCHANGED <<ops, rollback, marker, mc>>
    BY <1>3, <2>1, ApplyLabels DEF ClaimApplying, ClaimPending, PhaseInv, DiskInv
  <2>3. \A p \in Players : marker.requested[p] = None
    BY <2>2, Tables, TableFacts
  <2>4. QED
    BY <1>d, <2>2, <2>3 DEF DiskOK, DiskInv
<1>4. CASE CompletePending \/ CompleteApplying
  <2>1. pc \in {"complete", "complete2"} /\ mode \in {"apply", "finish"}
    BY <1>4, ModeLabels DEF CompletePending, CompleteApplying
  <2>2. marker.phase = "committed" /\ UNCHANGED <<ops, rollback, marker, mc>>
    BY <1>4, <2>1, ApplyLabels DEF CompletePending, CompleteApplying, PhaseInv
  <2>3. QED
    BY <1>d, <2>2 DEF DiskOK, DiskInv
<1>5. CASE RestorePending
  <2> DEFINE t == Merge(applying, requested)
  <2>1. t \in Table /\ pending \in Table /\ \A p \in Players : applying[p] # None => t[p] # None
    <3>1. applying \in Table /\ requested \in Table /\ pending \in Table
      BY <1>t DEF Files
    <3>2. \A p \in Players : t[p] = IF requested[p] # None THEN requested[p] ELSE applying[p]
      BY <3>1, TableFacts
    <3>3. QED
      BY <3>1, <3>2, TableFacts
  <2>2. pending' = Merge(t, pending) /\ UNCHANGED <<ops, applying, rollback, marker, mc>>
    BY <1>5 DEF RestorePending
  <2> HIDE DEF t
  <2>3. \A p \in Players : pending'[p] = IF pending[p] # None THEN pending[p] ELSE t[p]
    BY <2>1, <2>2, TableFacts
  <2>4. \A p \in Players : ListPending[p] # None => ListPending'[p] # None
    BY <1>p, <2>1, <2>2, <2>3
  <2>5. QED
    BY <1>d, <2>2, <2>4 DEF DiskOK, DiskInv
<1>6. CASE RestoreApplying
  <2>1. mode \in Undoing /\ pc = "restore2" /\ Holds(requested) /\ UNCHANGED <<ops, pending, rollback, marker, mc>>
    BY <1>6, ModeLabels DEF RestoreApplying, UndoInv
  <2>2. marker.phase = "none" \/ requested = marker.requested
    BY <2>1 DEF UndoInv, Undoing
  <2>3. \A p \in Players : marker.requested[p] = None \/ pending[p] # None
    <3>1. CASE marker.phase = "none"
      <4>1. marker.requested = EmptyTable
        BY <3>1, Tables DEF DiskInv
      <4>2. QED
        BY <4>1, TableFacts
    <3>2. CASE requested = marker.requested
      BY <2>1, <3>2 DEF Holds
    <3>3. QED
      BY <2>2, <3>1, <3>2
  <2>4. \A p \in Players : marker'.requested[p] = None \/ ListPending'[p] # None
    BY <2>1, <2>3, <1>p
  <2>5. QED
    BY <1>d, <2>1, <2>4 DEF DiskOK, DiskInv
<1>7. CASE WriteState
  <2>1. mode = "apply" /\ pc \in DOMAIN PhaseAt /\ UNCHANGED <<ops, pending, applying, rollback, mc, requested>>
    BY <1>7, ModeLabels DEF WriteState
  <2>2. /\ marker'.phase = PhaseAt[pc] /\ marker'.requested = requested
        /\ pc # "w_committed" => marker'.unresolved = EmptyTable
    BY <1>7 DEF WriteState
  <2>3. requested = applying
    BY <2>1, Labels, ApplyLabels DEF BatchInv
  <2>4. \A p \in Players : requested[p] = None \/ ListPending'[p] # None
    BY <2>1, <2>3, <1>p
  <2>5. PhaseAt[pc] # "none" /\ (PhaseAt[pc] = "committed" <=> pc = "w_committed")
    BY <2>1, Labels
  <2>6. pc # "w_committed" => rollback = NoFile \/ ops = rollback \/ ops = Applied(rollback, requested)
    <3>1. pc = "w_claimed" => rollback = NoFile
      BY <2>1, ApplyLabels DEF PhaseInv, DiskInv
    <3>2. pc = "w_stopped" => rollback = NoFile
      BY <2>1 DEF BatchInv
    <3>3. pc \in {"w_rollback_ready", "w_applied"} => ops = rollback \/ ops = Applied(rollback, requested)
      BY <2>1 DEF BatchInv
    <3>4. QED
      BY <2>1, <3>1, <3>2, <3>3, Labels
  <2>7. pc = "w_committed" => mc = "running"
    BY <2>1 DEF ServerInv
  <2>8. DiskInv'
    BY <2>1, <2>2, <2>4, <2>5, <2>6 DEF DiskInv
  <2>9. QED
    BY <2>1, <2>2, <2>5, <2>7, <2>8 DEF DiskOK
<1>8. CASE StopServer
  <2>1. pc = "stop" /\ mode \in {"apply", "undo", "recover"} /\ UNCHANGED <<ops, pending, applying, rollback, marker>>
    BY <1>8, ModeLabels DEF StopServer, files
  <2>2. marker.phase \notin {"none", "committed"}
    BY <2>1, ApplyLabels DEF PhaseInv
  <2>3. QED
    BY <2>1, <2>2, <1>d DEF DiskOK, DiskInv, ListPending
<1>9. CASE Backup
  <2>1. mode = "apply" /\ pc = "backup" /\ marker.phase = "stopped"
    BY <1>9, ModeLabels, ApplyLabels DEF Backup, PhaseInv
  <2>2. QED
    BY <1>9, <1>d, <2>1 DEF Backup, DiskOK, DiskInv, ListPending
<1>10. CASE WriteOps
  <2>1. mode = "apply" /\ pc = "write_ops"
    BY <1>10, ModeLabels DEF WriteOps
  <2>2. marker.requested = requested
    BY <2>1, ApplyLabels DEF BatchInv
  <2>3. QED
    BY <1>10, <1>d, <2>2 DEF WriteOps, DiskOK, DiskInv, ListPending
<1>11. CASE UndoOps
  BY <1>11, <1>d DEF UndoOps, DiskOK, DiskInv, ListPending
<1>12. CASE CleanRollback
  BY <1>12, <1>d DEF CleanRollback, DiskOK, DiskInv, ListPending
<1>13. CASE CleanState
  <2>1. /\ pc = "clean_state" /\ marker' = NoMarker /\ rollback = NoFile /\ mc = "running"
        /\ UNCHANGED <<ops, pending, applying, rollback, mc>>
    BY <1>13 DEF CleanState, UndoInv, ServerInv, Cleaning
  <2>2. NoMarker.phase = "none" /\ NoMarker.unresolved = EmptyTable /\ \A p \in Players : NoMarker.requested[p] = None
    BY Tables, TableFacts
  <2>3. QED
    BY <2>1, <2>2 DEF DiskOK, DiskInv
<1>14. QED
  BY <1>2, <1>3, <1>4, <1>5, <1>6, <1>7, <1>8, <1>9, <1>10, <1>11, <1>12, <1>13 DEF Statement

-----------------------------------------------------------------------------
(* What each path needs, where the worker arrives on it.                   *)
LEMMA AtIdle ==
  ASSUME TypeOK', DiskOK', pc' = "idle"
  PROVE  OpInv'
<1>1. "idle" \notin DOMAIN ApplyPhase /\ "idle" \notin DOMAIN PhaseAt /\ "idle" \notin Cleaning
  BY Labels, ApplyLabels DEF Cleaning
<1>2. Control' /\ PhaseInv' /\ ServerInv'
  BY <1>1 DEF Control, PhaseInv, ServerInv, DiskOK
<1>3. BatchInv' /\ UndoInv'
  BY <1>1, ApplyLabels DEF BatchInv, UndoInv
<1>4. QED
  BY <1>2, <1>3 DEF OpInv, DiskOK

LEMMA AtApply ==
  ASSUME TypeOK', DiskOK', BatchInv', mode' = "apply", pc' \in {"recover"} \cup DOMAIN ApplyPhase,
         pc' # "recover" => marker'.phase = ApplyPhase[pc'],
         pc' \in {"w_stopped", "backup", "w_rollback_ready", "write_ops", "w_applied"} =>
           mc' = "stopped" \/ elsewhere',
         pc' = "w_committed" => mc' = "running"
  PROVE  OpInv'
<1>1. Control'
  BY Labels, ApplyLabels DEF Control, PcsOf
<1>2. PhaseInv'
  BY ApplyLabels DEF PhaseInv
<1>3. ServerInv'
  BY ApplyLabels DEF ServerInv, DiskOK, Cleaning
<1>4. UndoInv'
  BY ApplyLabels DEF UndoInv, Cleaning, Undoing
<1>5. QED
  BY <1>1, <1>2, <1>3, <1>4 DEF OpInv, DiskOK

LEMMA AtUndo ==
  ASSUME TypeOK', DiskOK', UndoInv', mode' \in Undoing, pc' \in PcsOf[mode'],
         mode' \in {"undo", "recover"} => marker'.phase \notin {"none", "committed"},
         mode' = "abort" => marker'.phase # "committed",
         pc' = "undo_ops" => mc' = "stopped" \/ elsewhere',
         pc' \in {"restore", "restore2"} \cup Cleaning => mc' = "running"
  PROVE  OpInv'
<1>0. mode' # "apply" /\ mode' # "commit" /\ mode' # "finish" /\ pc' # "w_committed"
  BY Labels DEF Undoing, PcsOf, Cleaning
<1>1. Control'
  BY DEF Control
<1>2. PhaseInv'
  BY <1>0 DEF PhaseInv
<1>3. ServerInv'
  BY <1>0 DEF ServerInv, DiskOK
<1>4. BatchInv'
  BY <1>0 DEF BatchInv
<1>5. QED
  BY <1>1, <1>2, <1>3, <1>4 DEF OpInv, DiskOK

LEMMA AtCommit ==
  ASSUME TypeOK', DiskOK', UndoInv', mode' \in {"commit", "finish"}, pc' \in PcsOf[mode'],
         marker'.phase = "committed"
  PROVE  OpInv'
<1>0. /\ mode' # "apply" /\ mode' \notin {"undo", "recover"} /\ mode' # "abort"
      /\ pc' \in {"complete", "complete2"} \cup Cleaning
  BY DEF PcsOf, Cleaning
<1>1. Control'
  BY DEF Control
<1>2. PhaseInv'
  BY <1>0 DEF PhaseInv
<1>r. mc' = "running"
  BY DEF DiskOK, TypeOK
<1>3. ServerInv'
  BY <1>0, <1>r DEF ServerInv, Cleaning
<1>4. BatchInv'
  BY <1>0 DEF BatchInv
<1>5. QED
  BY <1>1, <1>2, <1>3, <1>4 DEF OpInv, DiskOK

-----------------------------------------------------------------------------
(* A statement that does not raise.                                        *)
LEMMA Moves ==
  ASSUME Advance
  PROVE  /\ pc = "recover" => Recover
         /\ pc \in DOMAIN NextOf => pc' = NextOf[pc] /\ mode' = mode /\ exit' = exit
         /\ pc = "stop" => /\ pc' = IF mode = "apply" THEN "w_stopped" ELSE "undo_ops"
                           /\ mode' = mode /\ exit' = exit
         /\ pc = "start" => /\ pc' = IF mode = "apply" THEN "w_committed" ELSE "restore"
                            /\ mode' = mode /\ exit' = exit
         /\ pc = "complete2" => /\ pc' = "clean_rollback" /\ exit' = exit
                                /\ mode' = IF mode = "apply" THEN "commit" ELSE mode
         /\ pc = "clean_state" =>
              \/ mode = "finish" /\ pc' = "claim" /\ mode' = "apply" /\ exit' = exit
              \/ pc' = "idle" /\ mode' = mode /\ exit' \in {"ok", "failed"}
BY NextLabels DEF Advance, Recover, Go, EndRun

LEMMA StartedType ==
  ASSUME TypeOK, Started
  PROVE  /\ starting' \in BOOLEAN /\ elsewhere' \in BOOLEAN
         /\ mc' = "running" /\ elsewhere => elsewhere'
BY Zenon DEF TypeOK, Started

LEMMA StepType ==
  ASSUME OpInv, Step
  PROVE  TypeOK'
<1> USE DEF OpInv
<1>1. Files' /\ operation' = operation /\ faults' = faults /\ Statement /\ Advance
  BY StatementType DEF Step
<1>2. pc \in Pcs /\ mode \in Modes /\ exit \in {"none", "ok", "failed", "killed"}
  BY DEF TypeOK
<1>3. pc' \in Pcs /\ mode' \in Modes /\ exit' \in {"none", "ok", "failed", "killed"}
  <2>1. CASE pc = "recover"
    BY <1>1, <1>2, <2>1, Moves DEF Recover, Go, Pcs, Modes
  <2>2. CASE pc \in DOMAIN NextOf
    BY <1>1, <1>2, <2>2, Moves, NextLabels, Labels DEF Pcs
  <2>3. CASE pc \in {"stop", "start"}
    BY <1>1, <1>2, <2>3, Moves, Labels DEF Pcs
  <2>4. CASE pc = "complete2"
    BY <1>1, <1>2, <2>4, Moves, Labels DEF Pcs, Modes
  <2>5. CASE pc = "clean_state"
    BY <1>1, <1>2, <2>5, Moves DEF Pcs, Modes
  <2>6. QED
    BY <1>1, <2>1, <2>2, <2>3, <2>4, <2>5 DEF Advance, Recover
<1>4. starting' \in BOOLEAN /\ elsewhere' \in BOOLEAN
  BY StartedType DEF Step
<1>5. operation' \in BOOLEAN /\ faults' \in 0..MaxFaults
  BY <1>1 DEF TypeOK
<1>6. QED
  BY <1>1, <1>3, <1>4, <1>5 DEF TypeOK, Files

LEMMA StepKeeps ==
  ASSUME OpInv, Step
  PROVE  OpInv'
<1> USE DEF OpInv
<1>t. TypeOK' /\ DiskOK' /\ Statement /\ Advance /\ TypeOK /\ Files
  BY StepType, StatementDisk DEF Step, TypeOK, Files
<1>e. mc' = "running" /\ elsewhere => elsewhere'
  BY StartedType DEF Step
<1>1. CASE ReadMarker
  <2>1. /\ pc = "recover" /\ requested' = marker.requested /\ Recover
        /\ UNCHANGED <<ops, pending, applying, rollback, marker, mc>>
    BY <1>1, <1>t, Moves DEF ReadMarker, files
  <2>2. CASE marker.phase = "none" /\ rollback = NoFile
    <3>1. pc' = "claim" /\ mode' = "apply"
      BY <2>1, <2>2 DEF Recover, Go
    <3>2. BatchInv'
      BY <3>1, ApplyLabels DEF BatchInv
    <3>3. QED
      BY <1>t, <2>1, <2>2, <3>1, <3>2, AtApply, ApplyLabels
  <2>3. CASE marker.phase = "committed"
    <3>1. pc' = "complete" /\ mode' = "finish"
      BY <2>1, <2>3 DEF Recover, Go
    <3>2. UndoInv'
      BY <3>1 DEF UndoInv, Cleaning, Undoing
    <3>3. pc' \in PcsOf[mode'] /\ marker'.phase = "committed"
      BY <2>1, <2>3, <3>1 DEF PcsOf
    <3>4. QED
      BY <1>t, <3>1, <3>2, <3>3, AtCommit
  <2>4. CASE ~(marker.phase = "none" /\ rollback = NoFile) /\ marker.phase # "committed"
    <3>1. pc' = (IF rollback # NoFile THEN "stop" ELSE "start") /\ mode' = "recover"
      BY <2>1, <2>4 DEF Recover, Go
    <3>2. marker'.phase \notin {"none", "committed"}
      BY <2>1, <2>4 DEF DiskInv
    <3>3. UndoInv'
      BY <2>1, <3>1 DEF UndoInv, Cleaning, Undoing
    <3>4. pc' \in PcsOf[mode'] /\ mode' \in Undoing
      BY <3>1 DEF PcsOf, Undoing
    <3>5. QED
      BY <1>t, <3>1, <3>2, <3>3, <3>4, AtUndo DEF Cleaning
  <2>5. QED
    BY <2>2, <2>3, <2>4
<1>2. CASE ClaimApplying
  <2>1. /\ pc = "claim" /\ mode = "apply" /\ pc' = "claim2" /\ mode' = "apply"
        /\ applying' = Merge(applying, pending) /\ requested' = applying'
        /\ UNCHANGED <<ops, pending, rollback, marker, mc>>
    BY <1>2, <1>t, Moves, NextLabels, ModeLabels DEF ClaimApplying
  <2>2. marker'.phase = "none"
    BY <2>1, ApplyLabels DEF PhaseInv
  <2>3. Merge(applying', pending') = applying'
    BY <1>t, <2>1, TableFacts DEF Files
  <2>4. BatchInv'
    BY <2>1, <2>3, ApplyLabels DEF BatchInv
  <2>5. QED
    BY <1>t, <2>1, <2>2, <2>4, AtApply, ApplyLabels
<1>3. CASE ClaimPending
  <2>1. /\ pc = "claim2" /\ mode = "apply" /\ pc' = "w_claimed" /\ mode' = "apply"
        /\ pending' = EmptyTable
        /\ UNCHANGED <<ops, applying, rollback, marker, mc, requested>>
    BY <1>3, <1>t, Moves, NextLabels, ModeLabels DEF ClaimPending
  <2>2. marker'.phase = "none" /\ requested' = applying'
    BY <2>1, ApplyLabels DEF PhaseInv, BatchInv
  <2>4. BatchInv'
    BY <2>1, <2>2, ApplyLabels DEF BatchInv
  <2>5. QED
    BY <1>t, <2>1, <2>2, <2>4, AtApply, ApplyLabels
<1>4. CASE CompletePending
  <2>1. /\ pc = "complete" /\ mode \in {"apply", "finish"} /\ pc' = "complete2" /\ mode' = mode
        /\ pending' = Merge(marker.unresolved, pending)
        /\ UNCHANGED <<ops, applying, rollback, marker, mc, requested>>
    BY <1>4, <1>t, Moves, NextLabels, ModeLabels DEF CompletePending
  <2>2. marker'.phase = "committed"
    BY <2>1, ApplyLabels DEF PhaseInv
  <2>3. CASE mode = "apply"
    <3>1. pending' = marker.unresolved
      <4>1. pending = EmptyTable
        BY <2>1, <2>3, ApplyLabels DEF BatchInv
      <4>2. marker.unresolved \in Table
        BY <1>t, Tables
      <4>3. QED
        BY <2>1, <4>1, <4>2, TableFacts
    <3>2. /\ requested = applying /\ marker.requested = requested /\ rollback # NoFile
          /\ ops = Applied(rollback, requested) /\ marker.unresolved = Unresolved(rollback, requested)
      BY <2>1, <2>3, ApplyLabels DEF BatchInv
    <3>3. BatchInv'
      BY <2>1, <2>3, <3>1, <3>2, ApplyLabels DEF BatchInv
    <3>4. QED
      BY <1>t, <2>1, <2>2, <2>3, <3>3, AtApply, ApplyLabels
  <2>4. CASE mode = "finish"
    <3>1. \A p \in Players : pending'[p] = IF pending[p] # None THEN pending[p] ELSE marker.unresolved[p]
      BY <1>t, <2>1, TableFacts, Tables DEF Files
    <3>2. \A p \in Players : pending'[p] = None => marker'.unresolved[p] = None
      BY <2>1, <3>1
    <3>3. UndoInv'
      BY <2>1, <2>4, <3>2 DEF UndoInv, Cleaning, Undoing, Holds
    <3>4. pc' \in PcsOf[mode']
      BY <2>1, <2>4 DEF PcsOf
    <3>5. QED
      BY <1>t, <2>1, <2>2, <2>4, <3>3, <3>4, AtCommit
  <2>5. QED
    BY <2>1, <2>3, <2>4
<1>5. CASE CompleteApplying
  <2>1. /\ pc = "complete2" /\ mode \in {"apply", "finish"} /\ pc' = "clean_rollback"
        /\ mode' \in {"commit", "finish"} /\ applying' = EmptyTable
        /\ UNCHANGED <<ops, pending, rollback, marker, mc, requested>>
    BY <1>5, <1>t, Moves, NextLabels, ModeLabels DEF CompleteApplying
  <2>2. marker'.phase = "committed"
    BY <2>1, ApplyLabels DEF PhaseInv
  <2>3. \A p \in Players : pending'[p] = None => marker'.unresolved[p] = None
    <3>1. CASE mode = "apply"
      BY <2>1, <3>1 DEF BatchInv
    <3>2. CASE mode = "finish"
      BY <2>1, <3>2 DEF UndoInv, Holds
    <3>3. QED
      BY <2>1, <3>1, <3>2
  <2>4. UndoInv'
    BY <2>1, <2>3 DEF UndoInv, Cleaning, Undoing, Holds
  <2>5. pc' \in PcsOf[mode']
    BY <2>1 DEF PcsOf, Cleaning
  <2>6. QED
    BY <1>t, <2>1, <2>2, <2>4, <2>5, AtCommit
<1>6. CASE RestorePending \/ RestoreApplying
  <2>1. /\ mode \in Undoing /\ mode' = mode /\ mc = "running"
        /\ UNCHANGED <<ops, rollback, marker, mc, requested>>
    <3>1. pc \in {"restore", "restore2"} /\ UNCHANGED <<ops, rollback, marker, mc, requested>>
      BY <1>6 DEF RestorePending, RestoreApplying
    <3>2. QED
      BY <1>t, <3>1, Moves, NextLabels, ModeLabels DEF ServerInv
  <2>2. /\ mode \in {"undo", "recover"} => marker.phase \notin {"none", "committed"} /\ requested = marker.requested
        /\ mode = "abort" => marker.phase # "committed" /\ (marker.phase = "none" \/ requested = marker.requested)
    BY <1>6 DEF PhaseInv, UndoInv, RestorePending, RestoreApplying
  <2>3. CASE RestorePending
    <3> DEFINE t == Merge(applying, requested)
    <3>1. /\ pc = "restore" /\ pc' = "restore2" /\ pending' = Merge(t, pending) /\ applying' = applying
      BY <2>3, <1>t, Moves, NextLabels DEF RestorePending
    <3>2. applying \in Table /\ requested \in Table /\ pending \in Table /\ t \in Table
      BY <1>t, TableFacts DEF Files
    <3>3. \A p \in Players : t[p] = None => applying[p] = None /\ requested[p] = None
      <4>1. \A p \in Players : t[p] = IF requested[p] # None THEN requested[p] ELSE applying[p]
        BY <3>2, TableFacts
      <4>2. QED
        BY <4>1
    <3> HIDE DEF t
    <3>4. \A p \in Players : pending'[p] = None => t[p] = None
      <4>1. \A p \in Players : pending'[p] = IF pending[p] # None THEN pending[p] ELSE t[p]
        BY <3>1, <3>2 DEF Merge
      <4>2. QED
        BY <4>1
    <3>5. \A p \in Players : pending'[p] = None => applying'[p] = None /\ requested'[p] = None
      BY <2>1, <3>1, <3>3, <3>4
    <3>6. /\ rollback = NoFile \/ ops = rollback
          /\ mode = "abort" => applying = requested
      BY <2>1, <3>1 DEF UndoInv
    <3>7. UndoInv'
      BY <2>1, <2>2, <3>1, <3>5, <3>6 DEF UndoInv, Cleaning, Undoing, Holds
    <3>8. pc' \in PcsOf[mode']
      BY <2>1, <3>1 DEF PcsOf, Undoing
    <3>9. QED
      BY <1>t, <2>1, <2>2, <3>1, <3>7, <3>8, AtUndo
  <2>4. CASE RestoreApplying
    <3>1. pc = "restore2" /\ pc' = "clean_rollback" /\ pending' = pending /\ applying' = EmptyTable
      BY <2>4, <1>t, Moves, NextLabels DEF RestoreApplying
    <3>2. (rollback = NoFile \/ ops = rollback) /\ \A p \in Players : pending[p] = None => requested[p] = None
      BY <2>1, <3>1 DEF UndoInv, Holds
    <3>3. \A p \in Players : applying'[p] = None
      BY <3>1, TableFacts
    <3>4. UndoInv'
      BY <2>1, <2>2, <3>1, <3>2, <3>3 DEF UndoInv, Cleaning, Undoing, Holds
    <3>5. pc' \in PcsOf[mode']
      BY <2>1, <3>1 DEF PcsOf, Undoing, Cleaning
    <3>6. QED
      BY <1>t, <2>1, <2>2, <3>1, <3>4, <3>5, AtUndo
  <2>5. QED
    BY <1>6, <2>3, <2>4
<1>7. CASE WriteState
  <2>1. /\ mode = "apply" /\ pc \in DOMAIN PhaseAt /\ mode' = "apply" /\ pc' = NextOf[pc]
        /\ UNCHANGED <<ops, pending, applying, rollback, mc, requested>>
    BY <1>7, <1>t, Moves, NextLabels, ModeLabels, Labels DEF WriteState
  <2>2. /\ marker'.phase = PhaseAt[pc] /\ marker'.requested = requested
        /\ pc = "w_committed" => marker'.unresolved = Unresolved(rollback, requested)
    BY <1>7 DEF WriteState
  <2>3. requested = applying /\ pending = EmptyTable
    BY <2>1, Labels, ApplyLabels DEF BatchInv
  <2>4. /\ pc' \in {"stop", "backup", "write_ops", "start", "complete"}
        /\ pc = "w_claimed" <=> pc' = "stop"
        /\ pc = "w_stopped" <=> pc' = "backup"
        /\ pc = "w_rollback_ready" <=> pc' = "write_ops"
        /\ pc = "w_applied" <=> pc' = "start"
        /\ pc = "w_committed" <=> pc' = "complete"
    BY <2>1, Labels, NextLabels
  <2>5. marker'.phase = ApplyPhase[pc']
    BY <2>1, <2>2, <2>4, Labels, ApplyLabels
  <2>6. BatchInv'
    <3>1. pc' \in {"stop", "backup"} => rollback = NoFile
      <4>1. pc = "w_claimed" => rollback = NoFile
        BY <2>1, ApplyLabels DEF PhaseInv, DiskInv
      <4>2. QED
        BY <2>1, <2>4, <4>1 DEF BatchInv
    <3>2. pc' = "write_ops" => rollback = ops
      BY <2>1, <2>4 DEF BatchInv
    <3>3. pc' \in {"start", "complete"} => rollback # NoFile /\ ops = Applied(rollback, requested)
      BY <2>1, <2>4 DEF BatchInv
    <3>4. QED
      BY <2>1, <2>2, <2>3, <2>4, <3>1, <3>2, <3>3, ApplyLabels DEF BatchInv
  <2>7. pc' \in {"backup", "write_ops"} => mc' = "stopped" \/ elsewhere'
    <3>1. pc' \in {"backup", "write_ops"} => mc = "stopped" \/ elsewhere
      BY <2>1, <2>4 DEF ServerInv
    <3>2. QED
      BY <1>t, <2>1, <3>1, <1>e DEF Files
  <2>8. pc' \in DOMAIN ApplyPhase /\ pc' \notin {"w_stopped", "w_rollback_ready", "w_applied", "w_committed"}
    BY <2>4, ApplyLabels
  <2>9. QED
    BY <1>t, <2>1, <2>5, <2>6, <2>7, <2>8, AtApply
<1>8. CASE StopServer
  <2>1. /\ pc = "stop" /\ mode \in {"apply", "undo", "recover"} /\ mode' = mode /\ mc' = "stopped"
        /\ pc' = IF mode = "apply" THEN "w_stopped" ELSE "undo_ops"
        /\ UNCHANGED <<ops, pending, applying, rollback, marker, requested>>
    BY <1>8, <1>t, Moves, ModeLabels DEF StopServer, files
  <2>2. CASE mode = "apply"
    <3>1. BatchInv'
      BY <2>1, <2>2, ApplyLabels DEF BatchInv
    <3>2. marker'.phase = "claimed"
      BY <2>1, <2>2, ApplyLabels DEF PhaseInv
    <3>3. QED
      BY <1>t, <2>1, <2>2, <3>1, <3>2, AtApply, ApplyLabels
  <2>3. CASE mode \in {"undo", "recover"}
    <3>1. UndoInv'
      BY <2>1, <2>3 DEF UndoInv, Cleaning, Undoing
    <3>2. marker'.phase \notin {"none", "committed"}
      BY <2>1, <2>3 DEF PhaseInv
    <3>3. pc' = "undo_ops" /\ pc' \in PcsOf[mode'] /\ mode' \in Undoing
      BY <2>1, <2>3 DEF PcsOf, Undoing
    <3>4. QED
      BY <1>t, <2>1, <2>3, <3>1, <3>2, <3>3, AtUndo DEF Cleaning
  <2>4. QED
    BY <2>1, <2>2, <2>3
<1>9. CASE StartServer
  <2>1. /\ pc = "start" /\ mode \in {"apply"} \cup Undoing /\ mode' = mode /\ mc' = "running"
        /\ pc' = IF mode = "apply" THEN "w_committed" ELSE "restore"
        /\ UNCHANGED <<ops, pending, applying, rollback, marker, requested>>
    BY <1>9, <1>t, Moves, ModeLabels DEF StartServer, files
  <2>2. CASE mode = "apply"
    <3>1. BatchInv'
      BY <2>1, <2>2, ApplyLabels DEF BatchInv
    <3>2. marker'.phase = "applied"
      BY <2>1, <2>2, ApplyLabels DEF PhaseInv
    <3>3. QED
      BY <1>t, <2>1, <2>2, <3>1, <3>2, AtApply, ApplyLabels
  <2>3. CASE mode \in Undoing
    <3>0. pc' = "restore"
      BY <2>1, <2>3 DEF Undoing
    <3>1. UndoInv'
      BY <2>1, <2>3, <3>0 DEF UndoInv, Cleaning, Undoing
    <3>2. /\ mode' \in {"undo", "recover"} => marker'.phase \notin {"none", "committed"}
          /\ mode' = "abort" => marker'.phase # "committed"
      BY <2>1, <2>3 DEF PhaseInv
    <3>3. pc' \in PcsOf[mode']
      BY <2>1, <2>3, <3>0 DEF PcsOf, Undoing
    <3>4. QED
      BY <1>t, <2>1, <2>3, <3>0, <3>1, <3>2, <3>3, AtUndo
  <2>4. QED
    BY <2>1, <2>2, <2>3
<1>10. CASE Backup \/ WriteOps
  <2>1. /\ pc \in {"backup", "write_ops"} /\ mode = "apply" /\ mode' = "apply" /\ pc' = NextOf[pc]
        /\ UNCHANGED <<pending, applying, marker, mc, requested>>
    BY <1>10, <1>t, Moves, ModeLabels, NextLabels DEF Backup, WriteOps
  <2>2. marker'.phase = ApplyPhase[pc'] /\ pc' \in {"w_rollback_ready", "w_applied"}
    BY <2>1, ApplyLabels, NextLabels DEF PhaseInv
  <2>3. /\ pc' = "w_rollback_ready" => rollback' = ops'
        /\ pc' = "w_applied" => rollback' # NoFile /\ ops' = Applied(rollback', requested')
    <3>1. CASE Backup
      BY <2>1, <3>1, NextLabels DEF Backup
    <3>2. CASE WriteOps
      <4>1. rollback = ops /\ ops \in Table /\ NoFile \notin Table
        BY <1>t, <2>1, <3>2, OpLevelsAssumption DEF WriteOps, BatchInv, TypeOK
      <4>2. QED
        BY <2>1, <3>2, <4>1, NextLabels DEF WriteOps
    <3>3. QED
      BY <1>10, <3>1, <3>2
  <2>4. requested = applying /\ pending = EmptyTable /\ marker.requested = requested
    BY <2>1, ApplyLabels DEF BatchInv
  <2>5. BatchInv'
    BY <2>1, <2>2, <2>3, <2>4, ApplyLabels DEF BatchInv
  <2>6. mc' = "stopped" \/ elsewhere'
    <3>1. mc = "stopped" \/ elsewhere
      BY <2>1 DEF ServerInv
    <3>2. QED
      BY <1>t, <2>1, <3>1, <1>e DEF Files
  <2>7. QED
    BY <1>t, <2>1, <2>2, <2>5, <2>6, AtApply, ApplyLabels
<1>11. CASE UndoOps
  <2>1. /\ pc = "undo_ops" /\ mode \in {"undo", "recover"} /\ mode' = mode /\ pc' = "start"
        /\ ops' = rollback /\ UNCHANGED <<pending, applying, rollback, marker, mc, requested>>
    BY <1>11, <1>t, Moves, ModeLabels, NextLabels DEF UndoOps
  <2>2. UndoInv'
    BY <2>1 DEF UndoInv, Cleaning, Undoing
  <2>3. marker'.phase \notin {"none", "committed"}
    BY <2>1 DEF PhaseInv
  <2>4. pc' \in PcsOf[mode'] /\ mode' \in Undoing
    BY <2>1 DEF PcsOf, Undoing
  <2>5. QED
    BY <1>t, <2>1, <2>2, <2>3, <2>4, AtUndo DEF Cleaning
<1>12. CASE CleanRollback
  <2>1. /\ pc = "clean_rollback" /\ mode \in {"commit", "finish"} \cup Undoing /\ mode' = mode
        /\ pc' = "clean_state" /\ rollback' = NoFile /\ mc = "running"
        /\ UNCHANGED <<ops, pending, applying, marker, mc, requested>>
    BY <1>12, <1>t, Moves, ModeLabels, NextLabels DEF CleanRollback, Cleaning, ServerInv
  <2>2. UndoInv'
    BY <2>1 DEF UndoInv, Cleaning, Undoing, Holds
  <2>3. CASE mode \in {"commit", "finish"}
    <3>1. marker'.phase = "committed" /\ pc' \in PcsOf[mode']
      BY <2>1, <2>3 DEF PhaseInv, PcsOf, Cleaning
    <3>2. QED
      BY <1>t, <2>1, <2>2, <2>3, <3>1, AtCommit
  <2>4. CASE mode \in Undoing
    <3>1. /\ mode' \in {"undo", "recover"} => marker'.phase \notin {"none", "committed"}
          /\ mode' = "abort" => marker'.phase # "committed"
      BY <2>1 DEF PhaseInv
    <3>2. pc' \in PcsOf[mode']
      BY <2>1, <2>4 DEF PcsOf, Cleaning, Undoing
    <3>3. QED
      BY <1>t, <2>1, <2>2, <2>4, <3>1, <3>2, AtUndo
  <2>5. QED
    BY <2>1, <2>3, <2>4
<1>13. CASE CleanState
  <2>1. /\ pc = "clean_state" /\ marker' = NoMarker /\ rollback' = rollback
        /\ (pc' = "idle" \/ (pc' = "claim" /\ mode' = "apply"))
    BY <1>13, <1>t, Moves DEF CleanState
  <2>2. CASE pc' = "idle"
    BY <1>t, <2>2, AtIdle
  <2>3. CASE pc' = "claim" /\ mode' = "apply"
    <3>1. BatchInv'
      BY <2>3, ApplyLabels DEF BatchInv
    <3>2. marker'.phase = "none"
      BY <1>t, <2>1, Tables
    <3>3. QED
      BY <1>t, <2>3, <3>1, <3>2, AtApply, ApplyLabels
  <2>4. QED
    BY <2>1, <2>2, <2>3
<1>14. QED
  BY <1>t, <1>1, <1>2, <1>3, <1>4, <1>5, <1>6, <1>7, <1>8, <1>9, <1>10, <1>11, <1>12, <1>13
     DEF Statement

(* A statement that raises, before or after its effect.                    *)
LEMMA RaiseType ==
  ASSUME OpInv, Raise
  PROVE  TypeOK' /\ DiskOK'
<1> USE DEF OpInv
<1>1. Files /\ DiskOK /\ pc \in Pcs /\ mode \in Modes /\ operation \in BOOLEAN
  BY DEF TypeOK, Files, DiskOK, ServerInv
<1>2. Files' /\ DiskOK'
  <2>1. CASE Statement
    BY <2>1, StatementType, StatementDisk
  <2>2. CASE UNCHANGED <<files, mc, requested>>
    BY <1>1, <2>2 DEF Files, DiskOK, DiskInv, ListPending, files
  <2>3. QED
    BY <2>1, <2>2 DEF Raise
<1>3. faults' \in 0..MaxFaults
  BY OpLevelsAssumption DEF Raise, TypeOK
<1>4. operation' \in BOOLEAN /\ starting' \in BOOLEAN /\ elsewhere' \in BOOLEAN
  BY <1>1, StartedType DEF Raise
<1>5. pc' \in Pcs /\ mode' \in Modes /\ exit' \in {"none", "ok", "failed", "killed"}
  <2>1. pc' \in {"idle", "restore", "start", "stop"} /\ mode' \in {mode, "abort", "undo"}
        /\ exit' \in {exit, "ok", "failed"}
    BY DEF Raise, Handled, Go, EndRun
  <2>2. QED
    BY <1>1, <2>1 DEF Pcs, Modes, TypeOK
<1>6. QED
  BY <1>2, <1>3, <1>4, <1>5 DEF TypeOK, Files

LEMMA RaiseKeeps ==
  ASSUME Careful, OpInv, Raise
  PROVE  OpInv'
<1> USE DEF OpInv
<1>t. TypeOK' /\ DiskOK' /\ Handled /\ TypeOK
  BY RaiseType DEF Raise
<1>s. /\ \/ Statement /\ pc # "w_committed"
         \/ UNCHANGED <<files, mc, requested>>
      /\ ~(pc \in {"complete", "complete2"} /\ mode = "apply")
  BY DEF Raise, Careful
<1>1. CASE pc' = "idle"
  BY <1>t, <1>1, AtIdle
<1>2. CASE mode = "apply" /\ pc = "w_claimed" /\ Go("restore", "abort")
  <2>1. /\ requested = applying /\ marker.phase = "none" /\ rollback = NoFile /\ mc = "running"
    <3>1. requested = applying /\ marker.phase = "none"
      BY <1>2, ApplyLabels DEF BatchInv, PhaseInv
    <3>2. QED
      BY <3>1 DEF DiskInv, ServerInv, TypeOK
  <2>2. /\ UNCHANGED <<ops, applying, pending, rollback, mc, requested>>
        /\ marker' = marker \/ (marker'.phase = "claimed" /\ marker'.requested = requested)
    <3>1. CASE Statement
      <4>1. WriteState
        BY <1>2, <3>1 DEF Statement, ReadMarker, ClaimApplying, ClaimPending, CompletePending,
             CompleteApplying, RestorePending, RestoreApplying, StopServer, StartServer, Backup,
             WriteOps, UndoOps, CleanRollback, CleanState
      <4>2. QED
        BY <1>2, <4>1, Labels DEF WriteState
    <3>2. CASE UNCHANGED <<files, mc, requested>>
      BY <3>2 DEF files
    <3>3. QED
      BY <1>s, <3>1, <3>2
  <2>3. pc' = "restore" /\ mode' = "abort"
    BY <1>2 DEF Go
  <2>4. UndoInv'
    BY <2>1, <2>2, <2>3 DEF UndoInv, Cleaning, Undoing
  <2>5. pc' \in PcsOf[mode'] /\ mode' \in Undoing /\ marker'.phase # "committed"
    BY <2>1, <2>2, <2>3 DEF PcsOf, Undoing
  <2>6. QED
    BY <1>t, <2>1, <2>2, <2>3, <2>4, <2>5, AtUndo
<1>3. CASE mode = "apply" /\ pc \in {"stop", "w_stopped", "backup"} /\ Go("start", "abort")
  <2>1. /\ requested = applying /\ marker.requested = requested /\ rollback = NoFile
        /\ marker.phase # "committed"
    BY <1>3, ApplyLabels DEF BatchInv, PhaseInv
  <2>2. /\ UNCHANGED <<ops, applying, pending, requested>>
        /\ marker' = marker \/ (marker'.phase = "stopped" /\ marker'.requested = requested)
        /\ rollback' = NoFile \/ rollback' = ops
    <3>1. CASE Statement
      <4>1. WriteState \/ StopServer \/ Backup
        BY <1>3, <3>1, Labels DEF Statement, ReadMarker, ClaimApplying, ClaimPending, CompletePending,
             CompleteApplying, RestorePending, RestoreApplying, StartServer,
             WriteOps, UndoOps, CleanRollback, CleanState
      <4>2. QED
        BY <1>3, <2>1, <4>1, Labels DEF WriteState, StopServer, Backup, files
    <3>2. CASE UNCHANGED <<files, mc, requested>>
      BY <2>1, <3>2 DEF files
    <3>3. QED
      BY <1>s, <3>1, <3>2
  <2>3. pc' = "start" /\ mode' = "abort"
    BY <1>3 DEF Go
  <2>4. UndoInv'
    BY <2>1, <2>2, <2>3 DEF UndoInv, Cleaning, Undoing
  <2>5. pc' \in PcsOf[mode'] /\ mode' \in Undoing /\ marker'.phase # "committed"
    BY <2>1, <2>2, <2>3 DEF PcsOf, Undoing
  <2>6. QED
    BY <1>t, <2>3, <2>4, <2>5, AtUndo DEF Cleaning
<1>4. CASE /\ mode = "apply" /\ Go("stop", "undo")
           /\ pc \in {"w_rollback_ready", "write_ops", "w_applied", "start", "w_committed",
                      "complete", "complete2"}
  <2>0. pc \in {"w_rollback_ready", "write_ops", "w_applied", "start", "w_committed"}
    BY <1>4, <1>s
  <2>1. /\ marker.requested = requested /\ rollback # NoFile
        /\ marker.phase \notin {"none", "committed"}
    <3>1. marker.requested = requested /\ marker.phase \notin {"none", "committed"}
      BY <1>4, <2>0, ApplyLabels DEF BatchInv, PhaseInv
    <3>2. rollback # NoFile
      BY <1>4, <2>0, OpLevelsAssumption DEF BatchInv, TypeOK
    <3>3. QED
      BY <3>1, <3>2
  <2>2. /\ UNCHANGED <<rollback, requested>>
        /\ marker' = marker \/ (marker'.phase \in {"rollback_ready", "applied"} /\ marker'.requested = requested)
    <3>1. CASE Statement /\ pc # "w_committed"
      <4>1. WriteState \/ StartServer \/ WriteOps
        BY <1>4, <2>0, <3>1, Labels DEF Statement, ReadMarker, ClaimApplying, ClaimPending, CompletePending,
             CompleteApplying, RestorePending, RestoreApplying, StopServer, Backup,
             UndoOps, CleanRollback, CleanState
      <4>2. QED
        BY <1>4, <2>0, <3>1, <4>1, Labels DEF WriteState, StartServer, WriteOps, files
    <3>2. CASE UNCHANGED <<files, mc, requested>>
      BY <3>2 DEF files
    <3>3. QED
      BY <1>s, <3>1, <3>2
  <2>3. pc' = "stop" /\ mode' = "undo"
    BY <1>4 DEF Go
  <2>4. UndoInv'
    BY <2>1, <2>2, <2>3 DEF UndoInv, Cleaning, Undoing
  <2>5. pc' \in PcsOf[mode'] /\ mode' \in Undoing /\ marker'.phase \notin {"none", "committed"}
    BY <2>1, <2>2, <2>3 DEF PcsOf, Undoing
  <2>6. QED
    BY <1>t, <2>3, <2>4, <2>5, AtUndo DEF Cleaning
<1>5. QED
  BY <1>t, <1>1, <1>2, <1>3, <1>4 DEF Handled, EndRun

(* mc-admin's own actions, and a kill.                                     *)
LEMMA OthersKeep ==
  ASSUME Careful, OpInv,
         Launch \/ StartCheck \/ PlainStart \/ Reopen \/ TickOperation \/ AdminRestart \/ Kill
  PROVE  OpInv'
<1> USE DEF OpInv
<1>0. TypeOK /\ DiskOK
  BY DEF DiskOK, ServerInv
<1>b. starting' \in BOOLEAN /\ elsewhere' \in BOOLEAN /\ operation' \in BOOLEAN
  BY Zenon DEF TypeOK, Launch, StartCheck, PlainStart, Reopen, DockerStart, TickOperation, AdminRestart,
       Kill, starts
<1>1. CASE Launch
  <2>1. TypeOK' /\ DiskOK' /\ BatchInv' /\ pc' = "recover" /\ mode' = "apply"
    <3>1. pc' = "recover" /\ mode' = "apply" /\ TypeOK'
      BY <1>0, <1>1, <1>b DEF Launch, TypeOK, files, Pcs, Modes
    <3>2. DiskOK'
      BY <1>0, <1>1 DEF Launch, files, DiskOK, DiskInv, ListPending
    <3>3. BatchInv'
      BY <3>1, ApplyLabels DEF BatchInv
    <3>4. QED
      BY <3>1, <3>2, <3>3
  <2>2. QED
    BY <2>1, AtApply
<1>2. CASE StartCheck \/ PlainStart \/ Reopen \/ TickOperation \/ AdminRestart
  <2>1. UNCHANGED <<ops, pending, applying, rollback, marker, pc, mode, requested, exit, faults>>
    BY <1>2 DEF StartCheck, PlainStart, Reopen, DockerStart, TickOperation, AdminRestart, files
  <2>2. \/ mc' = mc /\ elsewhere' = elsewhere
        \/ mc' = "running" /\ (pc # "idle" => elsewhere')
    BY <1>2, Zenon DEF StartCheck, PlainStart, Reopen, DockerStart, TickOperation, AdminRestart, starts
  <2>3. TypeOK' /\ Control' /\ PhaseInv'
    <3>1. TypeOK'
      BY <1>b, <2>1, <2>2 DEF TypeOK
    <3>2. QED
      BY <2>1, <3>1 DEF Control, PhaseInv
  <2>4. BatchInv' /\ UndoInv'
    BY <2>1 DEF BatchInv, UndoInv, Holds
  <2>5. DiskInv'
    BY <2>1 DEF DiskInv, ListPending
  <2>6. ServerInv'
    <3>1. CASE mc' = mc /\ elsewhere' = elsewhere
      BY <2>1, <3>1 DEF ServerInv
    <3>2. CASE mc' = "running" /\ (pc # "idle" => elsewhere')
      BY <2>1, <3>2 DEF ServerInv
    <3>3. QED
      BY <2>2, <3>1, <3>2
  <2>7. QED
    BY <2>3, <2>4, <2>5, <2>6
<1>3. CASE Kill
  <2>1. /\ UNCHANGED <<ops, pending, applying, rollback, marker, mc, mode, requested>>
        /\ pc' = "idle" /\ exit' = "killed" /\ faults < MaxFaults /\ faults' = faults + 1
    BY <1>3 DEF Kill, EndRun, files
  <2>2. faults' \in 0..MaxFaults
    BY <2>1, OpLevelsAssumption DEF TypeOK
  <2>3. TypeOK'
    BY <1>b, <2>1, <2>2 DEF TypeOK, Pcs
  <2>4. DiskOK'
    BY <1>0, <2>1 DEF DiskOK, DiskInv, ListPending
  <2>5. QED
    BY <2>1, <2>3, <2>4, AtIdle
<1>4. QED
  BY <1>1, <1>2, <1>3

LEMMA ChangeKeeps ==
  ASSUME Careful, OpInv, ChangeOperators
  PROVE  OpInv'
<1> USE DEF OpInv
<1>1. PICK p \in Players : OpRemove(p) \/ \E l \in Levels : OpAdd(p, l)
  BY DEF ChangeOperators
<1>2. /\ ~Interrupted /\ mc = "running" /\ pc = "idle"
      /\ UNCHANGED <<applying, rollback, marker, mc, starting, elsewhere, operation, pc, mode, requested,
                     exit, faults>>
  BY <1>1 DEF OpRemove, OpAdd, MayChangeOperators, OpLevelsIdle, worker, starts, Careful
<1>3. ops' \in Table /\ pending' \in Table
  <2>1. ops \in Table /\ pending \in Table
    BY DEF TypeOK
  <2>2. CASE OpRemove(p)
    BY <2>1, <2>2 DEF OpRemove, Table
  <2>3. CASE \E l \in Levels : OpAdd(p, l)
    <3>1. PICK l \in Levels : OpAdd(p, l)
      BY <2>3
    <3>2. /\ ops' = Promoted(ops, p)
          /\ \/ pending' = pending
             \/ pending' = [pending EXCEPT ![p] = None]
             \/ pending' = [pending EXCEPT ![p] = l]
      BY <3>1 DEF OpAdd
    <3>3. QED
      BY <2>1, <3>2, OpAssumption DEF Promoted, Table
  <2>4. QED
    BY <1>1, <2>2, <2>3
<1>4. TypeOK'
  BY <1>2, <1>3 DEF TypeOK
<1>5. DiskOK'
  <2>1. marker.phase \in {"none", "committed"}
    BY <1>2 DEF Interrupted
  <2>2. CASE marker.phase = "committed"
    BY <1>2, <2>2 DEF DiskOK, DiskInv
  <2>3. CASE marker.phase = "none"
    <3>1. marker = NoMarker /\ rollback = NoFile /\ \A q \in Players : marker.requested[q] = None
      BY <2>3, Tables, TableFacts DEF DiskInv
    <3>2. QED
      BY <1>2, <2>3, <3>1, Tables DEF DiskOK, DiskInv
  <2>4. QED
    BY <2>1, <2>2, <2>3
<1>6. QED
  BY <1>2, <1>4, <1>5, AtIdle

LEMMA InitHolds ==
  ASSUME Init
  PROVE  OpInv
<1>1. TypeOK /\ Control
  <2>1. "none" \in Phases /\ NoMarker \in [phase : Phases, requested : Table, unresolved : Table]
    BY TableFacts DEF NoMarker, Phases
  <2>2. operation \in BOOLEAN /\ starting \in BOOLEAN /\ elsewhere \in BOOLEAN /\ Control
    BY DEF Init, Control
  <2>3. 0 \in 0..MaxFaults
    BY OpLevelsAssumption
  <2>4. QED
    BY <2>1, <2>2, <2>3, TableFacts DEF Init, TypeOK, Pcs, Modes
<1>2. "idle" \notin DOMAIN ApplyPhase /\ "idle" \notin Cleaning
  BY ApplyLabels DEF Cleaning
<1>3. PhaseInv /\ ServerInv /\ BatchInv /\ UndoInv
  BY <1>2 DEF Init, PhaseInv, ServerInv, BatchInv, UndoInv
<1>4. marker = NoMarker /\ rollback = NoFile /\ NoMarker.requested = EmptyTable /\ NoMarker.unresolved = EmptyTable
      /\ NoMarker.phase = "none"
  BY DEF Init, NoMarker
<1>5. DiskInv
  BY <1>4, TableFacts DEF DiskInv
<1>6. QED
  BY <1>1, <1>3, <1>5 DEF OpInv

LEMMA NextKeeps ==
  ASSUME Careful, OpInv, [Next]_vars
  PROVE  OpInv'
<1>1. CASE UNCHANGED vars
  <2>1. UNCHANGED <<ops, pending, applying, rollback, marker, mc, starting, elsewhere, operation, pc, mode,
                    requested, exit, faults>>
    BY <1>1 DEF vars, files, starts
  <2>2. TypeOK' /\ Control' /\ PhaseInv' /\ ServerInv'
    BY <2>1 DEF OpInv, TypeOK, Control, PhaseInv, ServerInv
  <2>3. BatchInv' /\ UndoInv'
    BY <2>1 DEF OpInv, BatchInv, UndoInv, Holds
  <2>4. DiskInv'
    BY <2>1 DEF OpInv, DiskInv, ListPending
  <2>5. QED
    BY <2>2, <2>3, <2>4 DEF OpInv
<1>2. CASE Next
  BY <1>2, ChangeKeeps, OthersKeep, StepKeeps, RaiseKeeps DEF Next
<1>3. QED
  BY <1>1, <1>2

-----------------------------------------------------------------------------
(* The files, the container and the worker keep their types.               *)
THEOREM OpLevelsTyped ==
  ASSUME Careful
  PROVE  Spec => []TypeOK
<1>1. Init => OpInv
  BY InitHolds
<1>2. OpInv /\ [Next]_vars => OpInv'
  BY NextKeeps
<1>3. OpInv => TypeOK
  BY DEF OpInv
<1>4. QED
  BY <1>1, <1>2, <1>3, PTL DEF Spec

(* However a run is interrupted, a server it stopped is announced by the   *)
(* marker on disk, which the next run reads before anything else.          *)
THEOREM NeverForgotten ==
  ASSUME Careful
  PROVE  Spec => []StoppedServerLeavesMarker
<1>1. Init => OpInv
  BY InitHolds
<1>2. OpInv /\ [Next]_vars => OpInv'
  BY NextKeeps
<1>3. OpInv => StoppedServerLeavesMarker
  BY DEF OpInv, ServerInv, StoppedServerLeavesMarker
<1>4. QED
  BY <1>1, <1>2, <1>3, PTL DEF Spec

(* What a step of the worker does to ops.json.                             *)
LEMMA OpsWritten ==
  ASSUME OpInv, Statement, ops' # ops
  PROVE  /\ mc = "stopped" \/ elsewhere
         /\ \A p \in Players : ops[p] = None => ops'[p] = None
<1> USE DEF OpInv
<1>1. CASE WriteOps
  <2>1. /\ mode = "apply" /\ pc = "write_ops" /\ ops' = Applied(ops, requested) /\ rollback = ops
        /\ ops \in Table
    BY <1>1, ModeLabels DEF WriteOps, BatchInv, TypeOK
  <2>2. \A p \in Players : ops[p] = None => ops'[p] = None
    BY <2>1 DEF Applied, Table
  <2>3. QED
    BY <2>1, <2>2 DEF ServerInv
<1>2. CASE UndoOps
  <2>1. /\ mode \in {"undo", "recover"} /\ pc = "undo_ops" /\ ops' = rollback /\ rollback # NoFile
        /\ rollback \in Table
    BY <1>2, ModeLabels, Tables DEF UndoOps, UndoInv
  <2>2. ops = Applied(rollback, marker.requested)
    BY <2>1 DEF DiskInv, PhaseInv
  <2>3. \A p \in Players : ops[p] = None => ops'[p] = None
    <3>1. \A p \in Players : rollback[p] # None => ops[p] # None
      BY <2>1, <2>2 DEF Applied, Table
    <3>2. QED
      BY <2>1, <3>1
  <2>4. QED
    BY <2>1, <2>3 DEF ServerInv
<1>3. QED
  BY <1>1, <1>2 DEF Statement, ReadMarker, ClaimApplying, ClaimPending, CompletePending, CompleteApplying,
       RestorePending, RestoreApplying, WriteState, StopServer, StartServer, Backup, CleanRollback,
       CleanState, files

(* The worker changes ops.json only after it stopped Minecraft, also when  *)
(* it undoes what a killed run had written; if the server runs then, a     *)
(* start of mc-admin's came after that stop.                               *)
THEOREM NeverUnderServer ==
  ASSUME Careful
  PROVE  Spec => WritesWhileStopped
<1>1. Init => OpInv
  BY InitHolds
<1>2. OpInv /\ [Next]_vars => OpInv'
  BY NextKeeps
<1>3. OpInv /\ [Next]_vars => [(Step \/ Raise) /\ ops' # ops => mc = "stopped" \/ elsewhere]_vars
  BY OpsWritten DEF Step, Raise, files
<1>4. QED
  BY <1>1, <1>2, <1>3, PTL DEF Spec, WritesWhileStopped

(* Neither applying a batch nor putting a rollback copy back makes an      *)
(* operator of a player who is none.                                       *)
THEOREM NeverPromotes ==
  ASSUME Careful
  PROVE  Spec => DemotedStaysDemoted
<1>1. Init => OpInv
  BY InitHolds
<1>2. OpInv /\ [Next]_vars => OpInv'
  BY NextKeeps
<1>3. OpInv /\ [Next]_vars => [Step \/ Raise => \A p \in Players : ops[p] = None => ops'[p] = None]_vars
  BY OpsWritten DEF Step, Raise, files
<1>4. QED
  BY <1>1, <1>2, <1>3, PTL DEF Spec, DemotedStaysDemoted

-----------------------------------------------------------------------------
(* Refinement: what the files amount to changes in one step per batch.     *)
LEMMA QueueSame ==
  /\ Queue!EmptyTable = EmptyTable
  /\ \A s, t : Queue!Applied(s, t) = Applied(s, t) /\ Queue!Unresolved(s, t) = Unresolved(s, t)
  /\ \A s, p : Queue!Promoted(s, p) = Promoted(s, p)
BY DEF Queue!EmptyTable, Queue!Applied, Queue!Unresolved, Queue!Promoted, EmptyTable, Applied,
       Unresolved, Promoted

LEMMA MergeFacts ==
  /\ \A s, t \in Table : Merge(s, Merge(s, t)) = Merge(s, t) /\ Merge(s, s) = s
                         /\ Merge(t, Unresolved(s, t)) = t
  /\ \A s, t \in Table : (\A p \in Players : t[p] = None => s[p] = None) => Merge(s, t) = t
BY DEF Table, Merge, Unresolved

(* What the batch under way holds is still to be applied.                  *)
LEMMA Value ==
  ASSUME TypeOK
  PROVE  /\ Committed => LogicalOps = ops /\ LogicalQueue = Merge(marker.unresolved, pending)
         /\ ~Committed => LogicalQueue = Merge(Merge(applying, marker.requested), pending)
         /\ ~Committed /\ marker.phase # "none" /\ rollback # NoFile => LogicalOps = rollback
         /\ rollback = NoFile \/ marker.phase = "none" => LogicalOps = ops
         /\ marker.phase # "committed" => ~Committed
BY DEF LogicalOps, LogicalQueue, Committed

LEMMA ValueNext ==
  ASSUME TypeOK'
  PROVE  /\ Committed' => LogicalOps' = ops' /\ LogicalQueue' = Merge(marker'.unresolved, pending')
         /\ ~Committed' => LogicalQueue' = Merge(Merge(applying', marker'.requested), pending')
         /\ ~Committed' /\ marker'.phase # "none" /\ rollback' # NoFile => LogicalOps' = rollback'
         /\ rollback' = NoFile \/ marker'.phase = "none" => LogicalOps' = ops'
         /\ marker'.phase # "committed" => ~Committed'
BY DEF LogicalOps, LogicalQueue, Committed

LEMMA StatementLogical ==
  ASSUME OpInv, Statement, TypeOK',
         marker'.phase = "committed" => (Committed' <=> Committed)
  PROVE  LogicalOps' = LogicalOps /\ LogicalQueue' = LogicalQueue
<1> USE DEF OpInv
<1>t. Files /\ Files' /\ TypeOK /\ marker.requested \in Table /\ marker.unresolved \in Table
  BY StatementType, Tables DEF TypeOK, Files
<1>1. CASE ReadMarker \/ StopServer \/ StartServer
  <2>1. UNCHANGED <<ops, pending, applying, rollback, marker>>
    BY <1>1 DEF ReadMarker, StopServer, StartServer, files
  <2>2. Committed' <=> Committed
    BY <2>1, Value, ValueNext, <1>t
  <2>3. QED
    BY <2>1, <2>2 DEF LogicalOps, LogicalQueue
<1>2. CASE ClaimApplying \/ ClaimPending
  <2>1. mode = "apply" /\ pc \in {"claim", "claim2"} /\ UNCHANGED <<ops, rollback, marker>>
    BY <1>2, <1>t, ModeLabels DEF ClaimApplying, ClaimPending
  <2>2. marker.phase = "none" /\ marker = NoMarker /\ marker.requested = EmptyTable
    BY <1>t, <2>1, ApplyLabels, Tables DEF PhaseInv, DiskInv
  <2>3. /\ LogicalOps = ops /\ LogicalOps' = ops
        /\ LogicalQueue = Merge(applying, pending) /\ LogicalQueue' = Merge(applying', pending')
    <3>1. /\ ~Committed /\ ~Committed' /\ LogicalOps = ops /\ LogicalOps' = ops
      BY <1>t, <2>1, <2>2, Value, ValueNext
    <3>2. Merge(applying, EmptyTable) = applying /\ Merge(applying', EmptyTable) = applying'
      BY <1>t, TableFacts DEF Files
    <3>3. QED
      BY <1>t, <2>1, <2>2, <3>1, <3>2, Value, ValueNext
  <2>4. Merge(applying', pending') = Merge(applying, pending)
    <3>1. CASE ClaimApplying
      BY <1>t, <3>1, TableFacts DEF ClaimApplying, Files
    <3>2. CASE ClaimPending
      <4>1. Merge(applying, pending) = applying
        BY <2>1, <3>2 DEF BatchInv, ClaimPending
      <4>2. QED
        BY <1>t, <3>2, <4>1, TableFacts DEF ClaimPending, Files
    <3>3. QED
      BY <1>2, <3>1, <3>2
  <2>5. QED
    BY <2>3, <2>4
<1>3. CASE CompletePending
  <2>1. /\ pc = "complete" /\ mode \in {"apply", "finish"} /\ UNCHANGED <<ops, applying, rollback, marker>>
        /\ pending' = Merge(marker.unresolved, pending)
    BY <1>3, <1>t, ModeLabels DEF CompletePending
  <2>2. marker.phase = "committed" /\ marker'.phase = "committed"
    BY <2>1, ApplyLabels DEF PhaseInv
  <2>3. LogicalOps' = LogicalOps
    BY <2>1, <2>2 DEF LogicalOps
  <2>4. CASE mode = "finish"
    <3>1. Committed /\ Committed'
      BY <2>2, <2>4 DEF Committed, InHand
    <3>2. QED
      BY <1>t, <2>1, <2>3, <3>1, Value, ValueNext, MergeFacts DEF Files
  <2>5. CASE mode = "apply"
    <3>1. ~Committed /\ ~Committed'
      BY <2>1, <2>2, <2>5 DEF Committed, InHand
    <3>2. /\ requested = applying /\ marker.requested = requested /\ pending = EmptyTable /\ rollback # NoFile
          /\ marker.unresolved = Unresolved(rollback, requested)
      BY <2>1, <2>5, ApplyLabels DEF BatchInv
    <3>3. Merge(applying, marker.requested) = requested
      BY <1>t, <3>2, MergeFacts DEF Files
    <3>4. pending' = Unresolved(rollback, requested)
      BY <1>t, <2>1, <3>2, TableFacts
    <3>5. Merge(requested, EmptyTable) = requested /\ Merge(requested, Unresolved(rollback, requested)) = requested
      BY <1>t, <3>2, TableFacts, MergeFacts DEF Files
    <3>6. LogicalQueue = requested
      BY <1>t, <3>1, <3>2, <3>3, <3>5, Value
    <3>7. LogicalQueue' = requested
      BY <2>1, <3>1, <3>2, <3>3, <3>4, <3>5, ValueNext
    <3>8. QED
      BY <2>3, <3>6, <3>7
  <2>6. QED
    BY <2>1, <2>4, <2>5
<1>4. CASE CompleteApplying
  <2>1. /\ pc = "complete2" /\ mode \in {"apply", "finish"} /\ UNCHANGED <<ops, pending, rollback, marker>>
    BY <1>4, <1>t, ModeLabels DEF CompleteApplying
  <2>2. marker.phase = "committed" /\ marker'.phase = "committed"
    BY <2>1, ApplyLabels DEF PhaseInv
  <2>3. CASE mode = "finish"
    <3>1. Committed /\ Committed'
      BY <2>2, <2>3 DEF Committed, InHand
    <3>2. QED
      BY <1>t, <2>1, <3>1, Value, ValueNext
  <2>4. CASE mode = "apply"
    <3>1. ~Committed /\ ~Committed' /\ applying' = EmptyTable
      BY <1>4, <2>1, <2>2, <2>4 DEF Committed, InHand, CompleteApplying
    <3>2. /\ requested = applying /\ marker.requested = requested
      BY <2>1, <2>4, ApplyLabels DEF BatchInv
    <3>3. Merge(applying, marker.requested) = requested /\ Merge(applying', marker.requested) = requested
      BY <1>t, <3>1, <3>2, MergeFacts, TableFacts DEF Files
    <3>4. LogicalQueue' = LogicalQueue
      BY <1>t, <2>1, <3>1, <3>3, Value, ValueNext
    <3>5. QED
      BY <2>1, <3>1, <3>4 DEF LogicalOps
  <2>5. QED
    BY <2>1, <2>3, <2>4
<1>5. CASE RestorePending
  <2> DEFINE m == Merge(applying, marker.requested)
  <2>1. mode \in Undoing /\ pc = "restore" /\ UNCHANGED <<ops, applying, rollback, marker>>
    BY <1>5, <1>t, ModeLabels DEF RestorePending
  <2>2. marker.phase # "committed"
    BY <2>1 DEF PhaseInv, Undoing
  <2>3. Merge(applying, requested) = m
    <3>1. CASE requested = marker.requested
      BY <3>1
    <3>2. CASE mode = "abort" /\ marker.phase = "none"
      <4>1. applying = requested /\ marker.requested = EmptyTable
        BY <1>t, <2>1, <3>2, Tables DEF UndoInv, DiskInv
      <4>2. QED
        BY <1>t, <4>1, MergeFacts, TableFacts DEF Files
    <3>3. QED
      BY <2>1, <3>1, <3>2 DEF UndoInv, Undoing
  <2>4. m \in Table /\ pending \in Table /\ pending' = Merge(m, pending)
    BY <1>5, <1>t, <2>3, TableFacts DEF Files, RestorePending
  <2> HIDE DEF m
  <2>5. Merge(m, pending') = Merge(m, pending)
    BY <2>4, MergeFacts
  <2>6. ~Committed /\ ~Committed'
    BY <2>1, <2>2 DEF Committed
  <2>7. LogicalQueue = Merge(m, pending) /\ LogicalQueue' = Merge(m, pending')
    BY <1>t, <2>1, <2>6, Value, ValueNext DEF m
  <2>8. QED
    BY <2>1, <2>5, <2>6, <2>7 DEF LogicalOps
<1>6. CASE RestoreApplying
  <2>1. /\ mode \in Undoing /\ pc = "restore2" /\ UNCHANGED <<ops, pending, rollback, marker>>
        /\ applying' = EmptyTable
    BY <1>6, <1>t, ModeLabels DEF RestoreApplying
  <2>2. ~Committed /\ ~Committed'
    BY <2>1 DEF PhaseInv, Undoing, Committed
  <2>3. Holds(applying) /\ Holds(marker.requested)
    <3>1. Holds(applying) /\ Holds(requested)
      BY <2>1 DEF UndoInv
    <3>2. CASE requested = marker.requested
      BY <3>1, <3>2
    <3>3. CASE marker.phase = "none"
      <4>1. marker.requested = EmptyTable
        BY <1>t, <3>3, Tables DEF DiskInv
      <4>2. QED
        BY <3>1, <4>1, TableFacts DEF Holds
    <3>4. QED
      BY <2>1, <3>2, <3>3 DEF UndoInv, Undoing
  <2>4. LogicalQueue = pending
    <3> DEFINE m == Merge(applying, marker.requested)
    <3>1. applying \in Table /\ marker.requested \in Table /\ m \in Table /\ pending \in Table
      BY <1>t, TableFacts DEF Files
    <3>2. \A p \in Players : m[p] = IF marker.requested[p] # None THEN marker.requested[p] ELSE applying[p]
      BY <3>1, TableFacts
    <3>3. \A p \in Players : pending[p] = None => m[p] = None
      BY <2>3, <3>2 DEF Holds
    <3>4. LogicalQueue = Merge(m, pending)
      BY <1>t, <2>2, Value
    <3> HIDE DEF m
    <3>5. QED
      BY <3>1, <3>3, <3>4, MergeFacts
  <2>5. LogicalQueue' = pending
    <3>1. Merge(applying', marker'.requested) = marker.requested
      BY <1>t, <2>1, TableFacts
    <3>2. LogicalQueue' = Merge(marker.requested, pending)
      BY <2>1, <2>2, <3>1, ValueNext
    <3>3. QED
      BY <1>t, <2>3, <3>2, MergeFacts DEF Files, Holds
  <2>6. QED
    BY <2>1, <2>2, <2>4, <2>5 DEF LogicalOps
<1>7. CASE WriteState
  <2>1. mode = "apply" /\ pc \in DOMAIN PhaseAt /\ UNCHANGED <<ops, pending, applying, rollback, requested>>
    BY <1>7, <1>t, ModeLabels DEF WriteState
  <2>2. marker'.phase = PhaseAt[pc] /\ marker'.requested = requested
    BY <1>7 DEF WriteState
  <2>3. ~Committed /\ ~Committed'
    <3>1. marker.phase # "committed"
      BY <2>1, Labels, ApplyLabels DEF PhaseInv
    <3>2. QED
      BY <1>t, <3>1, Value, ValueNext
  <2>4. requested = applying
    BY <2>1, Labels, ApplyLabels DEF BatchInv
  <2>5. Merge(applying, marker.requested) = Merge(applying, requested)
    <3>1. CASE pc = "w_claimed"
      <4>1. marker.requested = EmptyTable
        BY <1>t, <2>1, <3>1, ApplyLabels, Tables DEF PhaseInv, DiskInv
      <4>2. QED
        BY <1>t, <2>4, <4>1, MergeFacts, TableFacts DEF Files
    <3>2. CASE pc # "w_claimed"
      BY <2>1, <3>2, Labels, ApplyLabels DEF BatchInv
    <3>3. QED
      BY <3>1, <3>2
  <2>6. LogicalQueue' = LogicalQueue
    BY <1>t, <2>1, <2>2, <2>3, <2>5, Value, ValueNext
  <2>7. LogicalOps' = LogicalOps
    <3>1. CASE rollback = NoFile
      BY <1>t, <2>1, <3>1, Value, ValueNext
    <3>2. CASE rollback # NoFile
      <4>1. marker.phase # "none" /\ marker'.phase # "none"
        BY <2>1, <2>2, <3>2, Labels DEF DiskInv
      <4>2. QED
        BY <1>t, <2>1, <2>3, <3>2, <4>1, Value, ValueNext
    <3>3. QED
      BY <3>1, <3>2
  <2>8. QED
    BY <2>6, <2>7
<1>8. CASE Backup \/ WriteOps \/ UndoOps
  <2>1. marker.phase \notin {"none", "committed"} /\ UNCHANGED <<pending, applying, marker>>
    BY <1>8, <1>t, ModeLabels, ApplyLabels DEF Backup, WriteOps, UndoOps, PhaseInv
  <2>2. ~Committed /\ ~Committed'
    BY <2>1 DEF Committed
  <2>3. LogicalQueue' = LogicalQueue
    BY <2>1, <2>2 DEF LogicalQueue
  <2>4. LogicalOps' = LogicalOps
    <3>1. CASE Backup
      <4>1. rollback = NoFile /\ rollback' = ops /\ ops' = ops /\ ops \in Table
        BY <1>t, <3>1, ModeLabels DEF Backup, BatchInv, TypeOK
      <4>2. rollback' # NoFile
        BY <4>1, OpLevelsAssumption
      <4>3. QED
        BY <1>t, <2>1, <2>2, <4>1, <4>2, Value, ValueNext
    <3>2. CASE WriteOps
      <4>1. rollback = ops /\ rollback' = rollback /\ ops \in Table
        BY <1>t, <3>2, ModeLabels DEF WriteOps, BatchInv, TypeOK
      <4>2. rollback # NoFile
        BY <4>1, OpLevelsAssumption
      <4>3. QED
        BY <1>t, <2>1, <2>2, <4>1, <4>2, Value, ValueNext
    <3>3. CASE UndoOps
      <4>1. rollback # NoFile /\ rollback' = rollback
        BY <1>t, <3>3, ModeLabels DEF UndoOps, UndoInv
      <4>2. QED
        BY <1>t, <2>1, <2>2, <4>1, Value, ValueNext
    <3>4. QED
      BY <1>8, <3>1, <3>2, <3>3
  <2>5. QED
    BY <2>3, <2>4
<1>9. CASE CleanRollback
  <2>1. /\ pc = "clean_rollback" /\ mode \in {"commit", "finish"} \cup Undoing
        /\ rollback' = NoFile /\ UNCHANGED <<ops, pending, applying, marker>>
    BY <1>9, <1>t, ModeLabels DEF CleanRollback, Cleaning
  <2>2. Committed' <=> Committed
    BY <1>t, <2>1, Value, ValueNext
  <2>3. LogicalQueue' = LogicalQueue
    BY <2>1, <2>2 DEF LogicalQueue
  <2>4. LogicalOps' = ops
    BY <2>1, ValueNext
  <2>5. LogicalOps = ops
    <3>1. CASE mode \in {"commit", "finish"}
      <4>1. Committed
        BY <2>1, <3>1 DEF PhaseInv, Committed, InHand
      <4>2. QED
        BY <1>t, <4>1, Value
    <3>2. CASE mode \in Undoing
      BY <2>1, <3>2 DEF UndoInv, LogicalOps
    <3>3. QED
      BY <2>1, <3>1, <3>2
  <2>6. QED
    BY <2>3, <2>4, <2>5
<1>10. CASE CleanState
  <2>1. /\ pc = "clean_state" /\ mode \in {"commit", "finish"} \cup Undoing /\ marker' = NoMarker
        /\ rollback = NoFile /\ applying = EmptyTable /\ UNCHANGED <<ops, pending, applying, rollback>>
    BY <1>10, <1>t, ModeLabels DEF CleanState, Cleaning, UndoInv
  <2>2. LogicalOps = ops /\ LogicalOps' = ops
    BY <1>t, <2>1, Value, ValueNext
  <2>3. LogicalQueue' = pending
    <3>1. ~Committed' /\ marker'.requested = EmptyTable
      BY <1>t, <2>1, Tables, ValueNext
    <3>2. Merge(EmptyTable, EmptyTable) = EmptyTable /\ Merge(EmptyTable, pending) = pending
      BY <1>t, TableFacts DEF Files
    <3>3. QED
      BY <2>1, <3>1, <3>2, ValueNext
  <2>4. LogicalQueue = pending
    <3>1. CASE mode \in {"commit", "finish"}
      <4>1. Committed /\ Holds(marker.unresolved)
        BY <2>1, <3>1 DEF PhaseInv, Committed, InHand, UndoInv, Cleaning
      <4>2. QED
        BY <1>t, <4>1, Value, MergeFacts DEF Holds, Files
    <3>2. CASE mode \in Undoing
      <4>1. ~Committed /\ Holds(requested)
        BY <2>1, <3>2 DEF PhaseInv, Undoing, Committed, UndoInv, Cleaning
      <4>2. LogicalQueue = Merge(marker.requested, pending)
        BY <1>t, <2>1, <4>1, Value, TableFacts
      <4>3. CASE requested = marker.requested
        BY <1>t, <4>1, <4>2, <4>3, MergeFacts DEF Holds, Files
      <4>4. CASE marker.phase = "none"
        <5>1. marker.requested = EmptyTable
          BY <1>t, <4>4, Tables DEF DiskInv
        <5>2. QED
          BY <1>t, <4>2, <5>1, TableFacts DEF Files
      <4>5. QED
        BY <2>1, <3>2, <4>3, <4>4 DEF UndoInv, Undoing
    <3>3. QED
      BY <2>1, <3>1, <3>2
  <2>5. QED
    BY <2>2, <2>3, <2>4
<1>11. QED
  BY <1>1, <1>2, <1>3, <1>4, <1>5, <1>6, <1>7, <1>8, <1>9, <1>10 DEF Statement

(* The step in which the batch counts as applied.                          *)
LEMMA Applies ==
  ASSUME OpInv, TypeOK', mode = "apply", pc \in {"complete", "complete2"},
         marker' = marker, ops' = ops, pending' = pending, Committed'
  PROVE  Queue!Next
<1> USE DEF OpInv
<1>1. /\ requested = applying /\ marker.requested = requested /\ rollback # NoFile
      /\ ops = Applied(rollback, requested) /\ marker.unresolved = Unresolved(rollback, requested)
      /\ marker.phase = "committed" /\ (pending = EmptyTable \/ pending = marker.unresolved)
  BY ApplyLabels DEF BatchInv, PhaseInv
<1>2. TypeOK /\ rollback \in Table /\ requested \in Table /\ marker.unresolved \in Table
  BY <1>1, Tables DEF TypeOK
<1>3. LogicalOps = rollback /\ LogicalQueue = requested
  <2>1. ~Committed
    BY DEF Committed, InHand
  <2>2. Merge(applying, marker.requested) = requested
    BY <1>1, <1>2, MergeFacts
  <2>3. Merge(requested, pending) = requested
    <3>1. Merge(requested, EmptyTable) = requested /\ Merge(requested, Unresolved(rollback, requested)) = requested
      BY <1>2, MergeFacts, TableFacts
    <3>2. QED
      BY <1>1, <3>1
  <2>4. QED
    BY <1>1, <1>2, <2>1, <2>2, <2>3, Value
<1>4. LogicalOps' = ops /\ LogicalQueue' = marker.unresolved
  <2>1. Merge(marker.unresolved, pending) = marker.unresolved
    <3>1. Merge(marker.unresolved, EmptyTable) = marker.unresolved
      BY <1>2, TableFacts
    <3>2. Merge(marker.unresolved, marker.unresolved) = marker.unresolved
      BY <1>2, MergeFacts
    <3>3. QED
      BY <1>1, <3>1, <3>2
  <2>2. QED
    BY <2>1, ValueNext
<1>5. QED
  BY <1>1, <1>3, <1>4, QueueSame DEF Queue!Next, Queue!Apply

LEMMA ChangesAtOnce ==
  ASSUME Careful, OpInv, TypeOK', ChangeOperators
  PROVE  Queue!Next
<1> USE DEF OpInv
<1>1. PICK p \in Players : OpRemove(p) \/ \E l \in Levels : OpAdd(p, l)
  BY DEF ChangeOperators
<1>2. /\ ~Interrupted /\ pc = "idle"
      /\ UNCHANGED <<applying, rollback, marker, pc, mode>>
  BY <1>1 DEF OpRemove, OpAdd, MayChangeOperators, OpLevelsIdle, worker, Careful
<1>3. applying = EmptyTable /\ marker.unresolved = EmptyTable /\ marker.phase \in {"none", "committed"}
  BY <1>2 DEF Interrupted
<1>4. TypeOK /\ pending \in Table /\ pending' \in Table /\ ops \in Table
  BY DEF TypeOK
<1>5. Committed <=> marker.phase = "committed"
  BY <1>2 DEF Committed, InHand
<1>6. Committed' <=> Committed
  BY <1>2 DEF Committed, InHand
<1>7. marker.phase = "none" => marker.requested = EmptyTable
  BY <1>4, Tables DEF DiskInv
<1>8. /\ Merge(EmptyTable, EmptyTable) = EmptyTable
      /\ Merge(EmptyTable, pending) = pending /\ Merge(EmptyTable, pending') = pending'
  BY <1>4, TableFacts
<1>9. LogicalOps = ops /\ LogicalQueue = pending
  BY <1>3, <1>4, <1>5, <1>7, <1>8, Value
<1>10. LogicalOps' = ops' /\ LogicalQueue' = pending'
  BY <1>2, <1>3, <1>5, <1>6, <1>7, <1>8, ValueNext
<1>11. CASE OpRemove(p)
  <2>1. Queue!Revoke(p)
    BY <1>9, <1>10, <1>11 DEF OpRemove, Queue!Revoke
  <2>2. QED
    BY <2>1 DEF Queue!Next
<1>12. CASE \E l \in Levels : OpAdd(p, l)
  <2>1. PICK l \in Levels : OpAdd(p, l)
    BY <1>12
  <2>2. /\ ops' = Promoted(ops, p)
        /\ \/ pending' = [pending EXCEPT ![p] = l]
           \/ pending' = pending
           \/ /\ pending' = [pending EXCEPT ![p] = None]
              /\ ops[p] = l \/ (ops[p] = None /\ l = DefaultLevel)
    BY <2>1 DEF OpAdd
  <2>3. ops[p] = l \/ (ops[p] = None /\ l = DefaultLevel) => ops'[p] = l
    BY <1>4, <2>1, <2>2, OpAssumption DEF Promoted, Table
  <2>4. Queue!Grant(p, l)
    BY <1>9, <1>10, <2>2, <2>3, QueueSame DEF Queue!Grant
  <2>5. QED
    BY <2>1, <2>4 DEF Queue!Next
<1>13. QED
  BY <1>1, <1>11, <1>12

LEMMA AtomicStep ==
  ASSUME Careful, OpInv, OpInv', [Next]_vars
  PROVE  [Queue!Next]_<<LogicalOps, LogicalQueue>>
<1> USE DEF OpInv
<1>t. TypeOK /\ TypeOK'
  OBVIOUS
<1>1. CASE ChangeOperators
  BY <1>1, <1>t, ChangesAtOnce
<1>2. CASE \/ Launch \/ StartCheck \/ PlainStart \/ Reopen \/ TickOperation \/ AdminRestart
           \/ UNCHANGED vars
  <2>1. UNCHANGED <<ops, pending, applying, rollback, marker>>
    BY <1>2 DEF Launch, StartCheck, PlainStart, Reopen, DockerStart, TickOperation, AdminRestart, vars,
         files
  <2>2. Committed' <=> Committed
    <3>1. CASE Launch
      BY <2>1, <3>1 DEF Launch, OpLevelsIdle, Committed, InHand
    <3>2. CASE UNCHANGED <<pc, mode>>
      BY <2>1, <3>2 DEF Committed, InHand
    <3>3. QED
      BY <1>2, <3>1, <3>2 DEF StartCheck, PlainStart, Reopen, DockerStart, TickOperation, AdminRestart,
           vars, files
  <2>3. QED
    BY <2>1, <2>2 DEF LogicalOps, LogicalQueue
<1>3. CASE Kill
  <2>1. UNCHANGED <<ops, pending, applying, rollback, marker>> /\ pc' = "idle" /\ mode' = mode
    BY <1>3 DEF Kill, EndRun, files
  <2>2. Committed' <=> marker.phase = "committed"
    BY <2>1 DEF Committed, InHand
  <2>3. CASE mode = "apply" /\ pc \in {"complete", "complete2"}
    <3>1. Committed'
      BY <2>2, <2>3, ApplyLabels DEF PhaseInv
    <3>2. QED
      BY <1>t, <2>1, <2>3, <3>1, Applies
  <2>4. CASE ~(mode = "apply" /\ pc \in {"complete", "complete2"})
    <3>1. Committed' <=> Committed
      <4>1. pc # "idle"
        BY <1>3 DEF Kill
      <4>2. InHand => marker.phase # "committed"
        <5>1. CASE mode = "undo"
          BY <4>1, <5>1 DEF PhaseInv
        <5>2. CASE mode = "apply" /\ pc # "recover"
          <6>1. pc \in DOMAIN ApplyPhase
            BY <4>1, <5>2, Labels, ApplyLabels DEF Control, PcsOf
          <6>2. QED
            BY <2>4, <5>2, <6>1, ApplyLabels DEF PhaseInv
        <5>3. QED
          BY <5>1, <5>2 DEF InHand
      <4>3. QED
        BY <2>2, <4>2 DEF Committed
    <3>2. QED
      BY <2>1, <3>1 DEF LogicalOps, LogicalQueue
  <2>5. QED
    BY <2>3, <2>4
<1>4. CASE Step
  <2>1. Statement /\ Advance
    BY <1>4 DEF Step
  <2>2. CASE mode = "apply" /\ pc = "complete2"
    <3>1. CompleteApplying
      BY <2>1, <2>2, Labels DEF Statement, ReadMarker, ClaimApplying, ClaimPending, CompletePending,
           RestorePending, RestoreApplying, WriteState, StopServer, StartServer, Backup, WriteOps,
           UndoOps, CleanRollback, CleanState
    <3>2. /\ UNCHANGED <<ops, pending, marker>> /\ mode' = "commit"
      BY <2>1, <2>2, <3>1, Moves DEF CompleteApplying
    <3>3. Committed'
      BY <2>2, <3>2, ApplyLabels DEF PhaseInv, Committed, InHand
    <3>4. QED
      BY <1>t, <2>2, <3>2, <3>3, Applies
  <2>3. CASE ~(mode = "apply" /\ pc = "complete2")
    <3>1. marker'.phase = "committed" => (Committed' <=> Committed)
      <4>1. CASE mode = "apply" /\ pc = "recover"
        <5>1. marker' = marker
          BY <2>1, <4>1, Labels DEF Statement, ReadMarker, ClaimApplying, ClaimPending, CompletePending,
               CompleteApplying, RestorePending, RestoreApplying, WriteState, StopServer, StartServer,
               Backup, WriteOps, UndoOps, CleanRollback, CleanState, files
        <5>2. marker.phase = "committed" => mode' = "finish"
          BY <2>1, <4>1, Moves DEF Recover, Go
        <5>3. QED
          BY <4>1, <5>1, <5>2 DEF Committed, InHand
      <4>2. CASE mode = "apply" /\ pc # "recover"
        <5>0. pc # "idle"
          BY <2>1, NextLabels DEF Advance, Recover
        <5>1. pc \in DOMAIN ApplyPhase
          BY <4>2, <5>0, Labels, ApplyLabels DEF Control, PcsOf
        <5>2. mode' = "apply" /\ pc' \notin {"idle", "recover"}
          BY <2>1, <2>3, <4>2, <5>1, Moves, ApplyLabels, NextLabels
        <5>3. InHand /\ InHand'
          BY <4>2, <5>1, <5>2, ApplyLabels DEF InHand
        <5>4. QED
          BY <5>3 DEF Committed
      <4>3. CASE mode \in {"commit", "finish"}
        <5>1. pc # "idle"
          BY <2>1, NextLabels DEF Advance, Recover
        <5>2. Committed
          BY <4>3, <5>1 DEF PhaseInv, Committed, InHand
        <5>3. CASE pc = "clean_state"
          <6>1. marker' = NoMarker
            BY <2>1, <5>3, Labels DEF Statement, ReadMarker, ClaimApplying, ClaimPending, CompletePending,
                 CompleteApplying, RestorePending, RestoreApplying, WriteState, StopServer, StartServer,
                 Backup, WriteOps, UndoOps, CleanRollback, CleanState
          <6>2. QED
            BY <1>t, <6>1, Tables
        <5>4. CASE pc # "clean_state"
          <6>1. pc \in {"complete", "complete2", "clean_rollback"}
            BY <4>3, <5>1, <5>4 DEF Control, PcsOf, Cleaning
          <6>2. mode' = mode
            BY <2>1, <4>3, <6>1, Moves, NextLabels
          <6>3. QED
            BY <4>3, <5>2, <6>2 DEF Committed, InHand
        <5>5. QED
          BY <5>3, <5>4
      <4>4. CASE mode \in Undoing
        <5>1. pc # "idle"
          BY <2>1, NextLabels DEF Advance, Recover
        <5>2. marker.phase # "committed"
          BY <4>4, <5>1 DEF PhaseInv, Undoing
        <5>3. pc \notin DOMAIN PhaseAt
          BY <4>4, <5>1, Labels DEF Control, PcsOf, Undoing, Cleaning
        <5>4. marker' = marker \/ marker' = NoMarker
          BY <2>1, <5>3 DEF Statement, ReadMarker, ClaimApplying, ClaimPending, CompletePending,
               CompleteApplying, RestorePending, RestoreApplying, WriteState, StopServer, StartServer,
               Backup, WriteOps, UndoOps, CleanRollback, CleanState, files
        <5>5. QED
          BY <1>t, <5>2, <5>4, Tables
      <4>5. QED
        BY <1>t, <4>1, <4>2, <4>3, <4>4 DEF TypeOK, Modes, Undoing
    <3>2. QED
      BY <1>t, <2>1, <3>1, StatementLogical
  <2>4. QED
    BY <2>2, <2>3
<1>5. CASE Raise
  <2>1. /\ ~(pc \in {"complete", "complete2"} /\ mode = "apply")
        /\ pc # "idle" /\ Handled
        /\ (Statement /\ pc # "w_committed") \/ UNCHANGED <<files, mc, requested>>
    BY <1>5 DEF Raise, Careful
  <2>2. InHand' => mode' = "undo" \/ (mode' = "apply" /\ pc' \notin {"idle", "recover"})
    BY DEF InHand
  <2>3. ~(mode' = "apply" /\ pc' # "idle")
    BY <2>1 DEF Handled, Go, EndRun
  <2>4. InHand => marker.phase # "committed"
    <3>1. CASE mode = "undo"
      BY <2>1, <3>1 DEF PhaseInv
    <3>2. CASE mode = "apply" /\ pc # "recover"
      <4>1. pc \in DOMAIN ApplyPhase
        BY <2>1, <3>2, Labels, ApplyLabels DEF Control, PcsOf
      <4>2. QED
        BY <2>1, <3>2, <4>1, ApplyLabels DEF PhaseInv
    <3>3. QED
      BY <3>1, <3>2 DEF InHand
  <2>5. marker'.phase = "committed" => marker.phase = "committed"
    <3>1. CASE WriteState /\ pc # "w_committed"
      BY <3>1, Labels DEF WriteState
    <3>2. CASE Statement /\ ~WriteState
      <4>1. marker' = marker \/ marker' = NoMarker
        BY <3>2 DEF Statement, ReadMarker, ClaimApplying, ClaimPending, CompletePending,
             CompleteApplying, RestorePending, RestoreApplying, StopServer, StartServer,
             Backup, WriteOps, UndoOps, CleanRollback, CleanState, files
      <4>2. QED
        BY <1>t, <4>1, Tables
    <3>3. CASE UNCHANGED <<files, mc, requested>>
      BY <3>3 DEF files
    <3>4. QED
      BY <2>1, <3>1, <3>2, <3>3
  <2>6. InHand' => marker'.phase # "committed"
    <3>1. InHand' => mode' = "undo" /\ pc' # "idle"
      BY <2>2, <2>3 DEF InHand
    <3>2. QED
      BY <3>1 DEF PhaseInv
  <2>7. marker'.phase = "committed" => (Committed' <=> Committed)
    BY <2>4, <2>5, <2>6 DEF Committed
  <2>8. CASE Statement
    BY <1>t, <2>7, <2>8, StatementLogical
  <2>9. CASE UNCHANGED <<files, mc, requested>>
    <3>1. UNCHANGED <<ops, pending, applying, rollback, marker>>
      BY <2>9 DEF files
    <3>2. Committed' <=> Committed
      BY <2>7, <3>1 DEF Committed
    <3>3. QED
      BY <3>1, <3>2 DEF LogicalOps, LogicalQueue
  <2>10. QED
    BY <2>1, <2>8, <2>9
<1>6. QED
  BY <1>1, <1>2, <1>3, <1>4, <1>5 DEF Next

(* Whatever raises or is killed between two statements, the files always   *)
(* amount to a queue of which batches are applied whole and once: the      *)
(* worker with its recovery implements OpQueue.                            *)
THEOREM BatchesAtomic ==
  ASSUME Careful
  PROVE  Spec => AtomicBatch
<1>1. Init => OpInv
  BY InitHolds
<1>2. OpInv /\ [Next]_vars => OpInv'
  BY NextKeeps
<1>3. Init => Queue!Init
  <2>1. SUFFICES ASSUME Init PROVE Queue!Init
    OBVIOUS
  <2>2. LogicalOps = EmptyTable
    BY <2>1 DEF Init, LogicalOps
  <2>3. LogicalQueue = Merge(Merge(EmptyTable, EmptyTable), EmptyTable)
    BY <2>1 DEF Init, LogicalQueue, Committed, NoMarker
  <2>4. LogicalQueue = EmptyTable
    BY <2>3, TableFacts
  <2>5. QED
    BY <2>2, <2>4, QueueSame DEF Queue!Init
<1>4. OpInv /\ OpInv' /\ [Next]_vars => [Queue!Next]_<<LogicalOps, LogicalQueue>>
  BY AtomicStep
<1>5. QED
  BY <1>1, <1>2, <1>3, <1>4, PTL DEF Spec, AtomicBatch, Queue!Spec
=============================================================================
