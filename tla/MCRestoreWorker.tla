-------------------------- MODULE MCRestoreWorker --------------------------
(***************************************************************************)
(* A data folder with the four kinds of file that a restoration treats     *)
(* differently: replaced, removed, created, and left alone.                *)
(***************************************************************************)
EXTENDS RestoreWorker

CONSTANTS level, extra, fresh, log, full, logsOnly

MCFiles == {level, extra, fresh, log}
MCRootOf == [f \in MCFiles |-> IF f = log THEN "logs" ELSE "world"]
MCArchives == {full, logsOnly}
MCMembers == [a \in MCArchives |-> IF a = full THEN {level, fresh} ELSE {log}]
MCOldFiles == {level, extra, log}
=============================================================================
