----------------------------- MODULE OpTables -----------------------------
(***************************************************************************)
(* Tables of operator levels: the contents of ops.json and of the files    *)
(* that queue requests, and the operations the code has on them.           *)
(***************************************************************************)
CONSTANTS
  Players,
  Levels,        \* operator levels (1 to 4 in the code)
  DefaultLevel,  \* what Minecraft's /op grants
  None           \* not an operator, or no request

ASSUME OpAssumption ==
  /\ DefaultLevel \in Levels
  /\ None \notin Levels

Table == [Players -> Levels \cup {None}]

EmptyTable == [p \in Players |-> None]

(* dict.update: the entries of `new' win.                                  *)
Merge(old, new) ==
  [p \in Players |-> IF new[p] # None THEN new[p] ELSE old[p]]

(* _apply_requested_levels: only players that are operators get a level,   *)
(* the other requests stay unresolved.                                     *)
Applied(table, requested) ==
  [p \in Players |-> IF table[p] # None /\ requested[p] # None
                     THEN requested[p] ELSE table[p]]

Unresolved(table, requested) ==
  [p \in Players |-> IF table[p] = None THEN requested[p] ELSE None]

(* Minecraft's /op: a new operator gets the server's default level.        *)
Promoted(table, p) ==
  [table EXCEPT ![p] = IF table[p] = None THEN DefaultLevel ELSE table[p]]
=============================================================================
