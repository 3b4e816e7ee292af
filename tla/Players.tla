------------------------------ MODULE Players ------------------------------
(***************************************************************************)
(* Players seen in the log (player_watcher.py, adapters/player_history.py).*)
(* A thread follows latest.log and keeps the sessions of play in a         *)
(* database.  The server starts a new file at each start and each night;   *)
(* the thread knows the length it has read and nothing else of the file,   *)
(* and begins at its end when mc-admin starts.                             *)
(***************************************************************************)
EXTENDS Channels, SequencesExt

CONSTANT Names   \* players

ASSUME PlayersAssumption == "players" \in Threads /\ {"player", "new_player"} \subseteq Topics

VARIABLES
  online,     \* who is on the server
  log,        \* the lines of latest.log
  position,   \* how many of them were read
  batch,      \* lines read and not handled yet
  playing,    \* players with a session that is not closed
  known,      \* players with a session, the file of sessions
  renewed,    \* the file is not the one position is about
  lost        \* players one of whose comings or goings no line told the thread

playerVars == <<online, log, position, batch, playing, known, renewed, lost>>

Line == [player : Names, what : {"joined", "left"}]

PlayersTypeOK ==
  /\ online \subseteq Names /\ playing \subseteq Names /\ known \subseteq Names
  /\ lost \subseteq Names /\ renewed \in BOOLEAN
  /\ log \in Seq(Line) /\ batch \in Seq(Line) /\ position \in Nat

PlayersInit ==
  /\ online = {} /\ log = <<>> /\ position = 0 /\ batch = <<>>
  /\ playing = {} /\ known = {} /\ renewed = FALSE /\ lost = {}

-----------------------------------------------------------------------------
(* The server: it stops cleanly after everyone has left.                   *)
ToldBy(lines) == {l.player : l \in ToSet(lines)}

Come(p) ==
  /\ Event /\ p \notin online /\ online' = online \cup {p}
  /\ log' = Append(log, [player |-> p, what |-> "joined"])
  /\ UNCHANGED <<position, batch, playing, known, renewed, lost>>

Go(p) ==
  /\ Event /\ p \in online /\ online' = online \ {p}
  /\ log' = Append(log, [player |-> p, what |-> "left"])
  /\ UNCHANGED <<position, batch, playing, known, renewed, lost>>

(* At midnight, or at a start of the server.                               *)
Missed == ToldBy(IF renewed THEN log ELSE SubSeq(log, position + 1, Len(log)))

Rotate ==
  /\ Event /\ log # <<>> /\ log' = <<>> /\ renewed' = TRUE
  /\ lost' = lost \cup Missed
  /\ UNCHANGED <<online, position, batch, playing, known>>

(* Killed, and started again.                                              *)
ServerKilled ==
  /\ Event /\ online # {} /\ online' = {} /\ log' = <<>> /\ renewed' = TRUE
  /\ lost' = lost \cup Missed \cup online
  /\ UNCHANGED <<position, batch, playing, known>>

-----------------------------------------------------------------------------
(* _consume_new_lines: a file shorter than what was read is a new one.     *)
AsItWas == position
FromStart == IF Len(log) < position THEN 0 ELSE position
From == FromStart

Read ==
  /\ job["players"] = Idle /\ batch = <<>>
  /\ batch' = SubSeq(log, From + 1, Len(log))
  /\ position' = IF From > Len(log) THEN From ELSE Len(log)
  /\ renewed' = FALSE
  /\ lost' = (lost \cup (IF renewed /\ Len(log) >= position
                           THEN ToldBy(SubSeq(log, 1, position)) ELSE {})) \ ToldBy(batch')
  /\ UNCHANGED <<events, channelVars, notifierVars, online, log, playing, known>>

(* _may_notify: at most once in a while for each player, not counted here; *)
(* a first arrival is told in any case.                                    *)
MayNotify(fresh) ==
  {Notifying("player", IF fresh THEN "first" ELSE "up"),
   IF fresh THEN Notifying("new_player", "up") ELSE Idle}

(* record_join closes the session that was left open; record_leave without *)
(* one does nothing.                                                       *)
PlayingAfter(l) ==
  IF l.what = "joined" THEN playing \cup {l.player} ELSE playing \ {l.player}
IsKnown(p) == p \in known

(* _handle_line: a player is known before his session is recorded or not.  *)
Handle ==
  LET l == Head(batch)
      joined == l.what = "joined" IN
  /\ job["players"] = Idle /\ batch # <<>> /\ batch' = Tail(batch)
  /\ playing' = PlayingAfter(l)
  /\ known' = IF joined THEN known \cup {l.player} ELSE known
  /\ \E next \in MayNotify(joined /\ ~IsKnown(l.player)) :
       job' = [job EXCEPT !["players"] = next]
  /\ UNCHANGED <<events, channelVars, cache, astray, online, log, position, renewed, lost>>

(* The message of a first arrival follows the one of an arrival.           *)
Handled ==
  /\ job["players"].pc = "record"
  /\ job' = [job EXCEPT !["players"] =
               IF job["players"].what = "first" THEN Notifying("new_player", "up") ELSE Idle]
  /\ UNCHANGED <<events, channelVars, cache, astray, playerVars>>

(* mc-admin stopped and started: what was written before is not read.      *)
FollowFromEnd ==
  /\ batch' = <<>> /\ position' = Len(log) /\ renewed' = FALSE
  /\ lost' = lost \cup Missed \cup ToldBy(batch)
  /\ UNCHANGED <<online, log, playing, known>>

-----------------------------------------------------------------------------
(* Once the thread has read the log to its end, the players shown online   *)
(* are those on the server, except the ones of whom it missed a line: a    *)
(* file renewed before it was read to its end or, unnoticed, longer than   *)
(* the last, lines written while mc-admin was stopped, and a server that   *)
(* was killed (_consume_new_lines, record_join, record_leave).  The next   *)
(* line about such a player sets him right.                                *)
ShownOnlineIsOnline ==
  batch = <<>> /\ position >= Len(log) /\ ~renewed => playing \ lost = online \ lost
=============================================================================
