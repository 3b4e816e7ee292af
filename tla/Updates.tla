------------------------------ MODULE Updates ------------------------------
(***************************************************************************)
(* Updates of the game server and of mc-admin itself                       *)
(* (domain/services/update.py, adapters/updater.py, adapters/app_update.py,*)
(* app_update_checker.py).  Both are done by a container that mc-admin     *)
(* starts and later looks at; what mc-admin remembers of a server update   *)
(* is in memory, and its own update replaces it and the doorman.           *)
(***************************************************************************)
EXTENDS Integers, JsonFile

CONSTANTS
  DayLength,     \* clock ticks per day
  MaxTime,       \* bound: the clock's last value
  MaxEvents,     \* bound: requests, queries, stops, changes of what answers
  FromRegistry   \* mc-admin runs an image of a registry, not a local build

ASSUME UpdatesAssumption ==
  /\ {MaxTime, MaxEvents} \subseteq Nat /\ DayLength \in Nat \ {0}
  /\ FromRegistry \in BOOLEAN

Runs == Nat \ {0}
NoRun == 0
(* The background thread, and a page that someone opens.                   *)
Scanners == {"thread", "page"}
Resting == [pc |-> "rest"]

VARIABLES
  now, events,
  server,     \* "open"; "closed", the doorman on duty; "down"
  players,    \* someone is on the server
  rcon,       \* the server answers list_players
  blocked,    \* "docker": it does not answer; "restart", "closure": the worker
              \* of the operator levels, or a restoration, is under way
  updater,    \* the update container: "running", or how it ended
  runs,       \* how often it was started
  asked,      \* runs that a request started and has not recorded yet
  op,         \* _update_operation: the run whose end was not told yet
  scan,       \* where each scan is
  told,       \* the code read to tell the end of the last run, if it was
  known,      \* the checker's file: it holds a release of mc-admin
  recreate    \* the update of mc-admin is under way

outside == <<rcon, blocked>>
gameVars == <<server, players, outside>>
updateVars == <<updater, runs, asked, op, scan, told>>
appVars == <<known, recreate>>

UpdatesTypeOK ==
  /\ now \in 0..MaxTime /\ events \in 0..MaxEvents
  /\ server \in {"open", "closed", "down"} /\ players \in BOOLEAN /\ rcon \in BOOLEAN
  /\ blocked \subseteq {"docker", "restart", "closure"}
  /\ updater \in {"running", "ok", "failed"} /\ runs \in {NoRun} \cup Runs
  /\ asked \subseteq Runs /\ op \in {NoRun} \cup Runs
  /\ scan \in [Scanners -> {Resting} \cup [pc : {"take"}]
                                     \cup [pc : {"forget", "tell"}, run : Runs]]
  /\ told \in {"nothing", "ok", "failed", "unread", "lost"}
  /\ {known, recreate} \subseteq BOOLEAN

UpdatesInit ==
  /\ now = 0 /\ events = 0
  /\ server = "open" /\ players = FALSE /\ rcon = TRUE
  /\ blocked = {}
  /\ updater = "ok" /\ runs = NoRun /\ asked = {} /\ op = NoRun
  /\ scan = [t \in Scanners |-> Resting] /\ told = "nothing"
  /\ known = FALSE /\ recreate = FALSE

-----------------------------------------------------------------------------
Event == events < MaxEvents /\ events' = events + 1

(* _server_confirmed_empty: an unreachable server is not an empty one.     *)
ConfirmedEmpty == rcon /\ ~players

(* MinecraftUpdater.is_running, and exit_code: None of a container that    *)
(* runs, or that Docker does not tell of.                                  *)
UpdaterRunning == updater = "running"
StatusRead == {"ok", "unread"}
ExitRead == {"unread"} \cup (IF UpdaterRunning \/ "docker" \in blocked THEN {} ELSE {updater})

(* apply_update.  The confirmation passes over players, not over the       *)
(* doorman, who holds the server's address.  The container is started,     *)
(* and only then the operation recorded, over the one there was.           *)
ApplyUpdate(force) ==
  /\ Event /\ server # "closed"
  /\ ConfirmedEmpty \/ force
  /\ "docker" \notin blocked /\ ~UpdaterRunning /\ updater' = "running"
  /\ runs' = runs + 1 /\ asked' = asked \cup {runs + 1} /\ told' = "nothing"
  /\ UNCHANGED <<now, gameVars, op, scan, appVars>>

RecordUpdate ==
  /\ \E n \in asked : op' = n /\ asked' = asked \ {n}
  /\ UNCHANGED <<now, events, gameVars, updater, runs, scan, told, appVars>>

RequestUpdate == RecordUpdate \/ \E force \in BOOLEAN : ApplyUpdate(force)

(* The container, external: it recreates the server, which Docker refuses  *)
(* while the doorman has the address.                                      *)
UpdaterEnds ==
  /\ UpdaterRunning
  /\ \/ server # "closed" /\ updater' = "ok" /\ server' = "open" /\ players' = FALSE
     \/ /\ updater' = "failed"
        /\ server' \in {server, IF server = "open" THEN "down" ELSE server}
        /\ players' = (players /\ server' = "open")
  /\ UNCHANGED <<now, events, outside, runs, asked, op, scan, told, appVars>>

(* _scan_update_outcome, with no lock.  An unreadable state is no end; the *)
(* operation is read again, and is another's or gone (a TypeError, which   *)
(* ends the scan) if someone was faster; it is forgotten; the exit code is *)
(* read and told as a failure, if it is one, or else as a success.         *)
ScanLook(t) ==
  /\ scan[t] = Resting /\ op # NoRun
  /\ "docker" \notin blocked /\ ~UpdaterRunning
  /\ scan' = [scan EXCEPT ![t] = [pc |-> "take"]]
  /\ UNCHANGED <<op, told>>

ScanTake(t) ==
  /\ scan[t].pc = "take"
  /\ scan' = [scan EXCEPT ![t] = IF op = NoRun THEN Resting ELSE [pc |-> "forget", run |-> op]]
  /\ UNCHANGED <<op, told>>

ScanForget(t) ==
  /\ scan[t].pc = "forget"
  /\ op' = NoRun /\ scan' = [scan EXCEPT ![t].pc = "tell"]
  /\ UNCHANGED told

ScanTell(t) ==
  /\ scan[t].pc = "tell"
  /\ told' \in IF scan[t].run = runs THEN ExitRead ELSE {told}
  /\ scan' = [scan EXCEPT ![t] = Resting]
  /\ UNCHANGED op

ScanUpdate(t) ==
  /\ ScanLook(t) \/ ScanTake(t) \/ ScanForget(t) \/ ScanTell(t)
  /\ UNCHANGED <<now, events, gameVars, updater, runs, asked, appVars>>

(* mc-admin stops: requests and scans end, and no end is told any more.    *)
ForgetUpdate ==
  /\ op' = NoRun /\ asked' = {} /\ scan' = [t \in Scanners |-> Resting]
  /\ told' = "lost"

-----------------------------------------------------------------------------
(* mc-admin's own update.  No property depends on which release is known.  *)

(* AppUpdateChecker.tick: one query a day replaces the release that is     *)
(* known; the first that is answered makes one known (GithubReleases).     *)
CheckRelease ==
  /\ Event /\ ~known /\ known' = TRUE
  /\ UNCHANGED <<now, gameVars, updateVars, recreate>>

(* _app_update_applicable: a local build has nothing to pull.              *)
Applicable == FromRegistry

(* DockerAppUpdater.start refuses a second one.                            *)
StartRecreation == ~recreate /\ recreate' = TRUE

(* apply_app_update, refused during a restoration, a maintenance (the      *)
(* backup it also refuses during is Coordination's) and when Docker does   *)
(* not tell.                                                               *)
ApplyAppUpdate ==
  /\ Event /\ known /\ Applicable
  /\ {"closure", "docker"} \cap blocked = {}
  /\ server # "closed" /\ StartRecreation
  /\ UNCHANGED <<now, gameVars, updateVars, known>>

(* The container that replaces mc-admin, and the doorman with it.          *)
Recreated ==
  /\ recreate /\ recreate' = FALSE
  /\ server' = IF server = "closed" THEN "down" ELSE server
  /\ ForgetUpdate
  /\ UNCHANGED <<now, events, players, outside, updater, runs, known>>
=============================================================================
