---------------------------- MODULE MCSchedules ----------------------------
(* Schedules with a daily restart and a maintenance on one date.           *)
EXTENDS Schedules

MCEntries ==
  [i \in {"daily", "once"} |->
     IF i = "daily"
       THEN [op |-> "restart", days |-> 0..MaxTime, at |-> 1, lead |-> 1, defer |-> TRUE, once |-> FALSE]
       ELSE [op |-> "closure", days |-> {0}, at |-> 1, lead |-> 1, defer |-> FALSE, once |-> TRUE]]
=============================================================================
