------------------------------ MODULE OpQueue ------------------------------
(***************************************************************************)
(* What mc-admin promises about operator levels: a player is promoted or   *)
(* demoted at once, a level that Minecraft cannot set at once is queued,   *)
(* and a restart applies the whole queue in one step or not at all.        *)
(***************************************************************************)
EXTENDS OpTables

VARIABLES ops, queue

Init == ops = EmptyTable /\ queue = EmptyTable

(* The level is effective at once, or queued, or (an error was reported)   *)
(* the queue could not be written.                                         *)
Grant(p, l) ==
  /\ ops' = Promoted(ops, p)
  /\ \/ queue' = [queue EXCEPT ![p] = l]
     \/ queue' = [queue EXCEPT ![p] = None] /\ ops'[p] = l
     \/ UNCHANGED queue

Revoke(p) ==
  /\ ops' = [ops EXCEPT ![p] = None]
  /\ queue' \in {[queue EXCEPT ![p] = None], queue}

Apply == ops' = Applied(ops, queue) /\ queue' = Unresolved(ops, queue)

Next == (\E p \in Players : Revoke(p) \/ \E l \in Levels : Grant(p, l)) \/ Apply

Spec == Init /\ [][Next]_<<ops, queue>>
=============================================================================
