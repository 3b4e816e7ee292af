------------------------------ MODULE JsonFile ------------------------------
(***************************************************************************)
(* adapters/atomic_json.py: the files under /data.  A mutation holds the   *)
(* lock of its path, so reading, changing and writing one file is a single *)
(* step.  The write replaces the file at once; it can fail before the      *)
(* replacement or after it (the directory cannot be synchronised), and the *)
(* caller cannot tell which.                                               *)
(***************************************************************************)
CONSTANTS
  FailsBefore,   \* files whose write may fail before the replacement
  FailsAfter     \* and after it

Writes(file, old, new) ==
  {[data |-> new, ok |-> TRUE]}
    \cup {[data |-> old, ok |-> FALSE] : f \in FailsBefore \cap {file}}
    \cup {[data |-> new, ok |-> FALSE] : f \in FailsAfter \cap {file}}

(* Nothing to remove: the file is not written.                             *)
NotWritten(old) == {[data |-> old, ok |-> TRUE]}
=============================================================================
