------------------------------- MODULE World -------------------------------
(***************************************************************************)
(* The contents of the Minecraft data folder, and what restoring an        *)
(* archive over it means.                                                  *)
(*                                                                         *)
(* A folder is a function from file names to contents.  Every file lives   *)
(* under one root entry of the data folder (world/, logs/, ...).  The      *)
(* content a file has in archive a is abstracted to the archive itself.    *)
(***************************************************************************)
CONSTANTS
  Files,      \* file names the models distinguish
  RootOf,     \* [Files -> root entries of the data folder]
  Archives,   \* archives mc-admin may ask to restore
  Members,    \* [Archives -> SUBSET Files]: the files an archive holds
  OldFiles,   \* files the server has before the first restoration
  Old,        \* content of those files
  Played,     \* contents Minecraft writes while it runs
  Absent,     \* the file does not exist
  Torn        \* truncated by an interrupted copy

ASSUME WorldAssumption ==
  /\ RootOf \in [Files -> {RootOf[f] : f \in Files}]
  /\ Members \in [Archives -> SUBSET Files]
  /\ OldFiles \subseteq Files
  /\ Torn \notin Archives \cup Played \cup {Old, Absent}

Content == Archives \cup Played \cup {Old, Absent, Torn}

World == [Files -> Content]

EmptyDir == [f \in Files |-> Absent]

OldWorld == [f \in Files |-> IF f \in OldFiles THEN Old ELSE Absent]

(***************************************************************************)
(* _sync_tree(stage, data_root, remove_absent=False): every root entry of  *)
(* the archive is replaced exactly (its recursive calls remove what the    *)
(* archive does not hold), the other root entries are left alone.          *)
(***************************************************************************)
Touched(a) == {f \in Files : \E g \in Members[a] : RootOf[g] = RootOf[f]}

Overlay(w, a) ==
  [f \in Files |-> IF f \in Members[a]    THEN a
                   ELSE IF f \in Touched(a) THEN Absent
                   ELSE w[f]]

(* v is what w becomes when Minecraft runs on it: some files rewritten.    *)
PlayedOver(w, v) == \A f \in Files : v[f] = w[f] \/ v[f] \in Played
=============================================================================
