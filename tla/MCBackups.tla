----------------------------- MODULE MCBackups -----------------------------
(* Backups on two profiles: "auto", seeded, with old archives of two      *)
(* months, and one an administrator creates.                              *)
EXTENDS Backups

MCSeeded == [p \in {"auto"} |-> [plan |-> "daily", keep |-> TRUE, full |-> TRUE]]
MCConfigs == {[plan |-> "daily", keep |-> TRUE, full |-> TRUE],
              [plan |-> "hours", keep |-> FALSE, full |-> FALSE]}
MCSeed == [n \in 1..2 |-> [dest |-> "auto", at |-> 2 * n + 1, content |-> "world"]]
=============================================================================
