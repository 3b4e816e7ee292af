----------------------------- MODULE MCWatchers -----------------------------
(* Watchers with one companion, whose name no other incident bears.        *)
EXTENDS Watchers

MCSubject == [s \in Watchable |-> s]

(* A companion container named as the incident of the server is.           *)
MCNamesake == [s \in Watchable |-> IF s \in Companions THEN "server" ELSE s]
=============================================================================
