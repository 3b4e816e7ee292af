# TLA+ models of mc-admin

mc-admin is a web panel for one Minecraft server that runs in Docker. It is one
Python process (FastAPI requests and background threads) and a few one-shot
containers (backup, restore, operator levels, doorman, updater) that it starts
through a restricted Docker proxy. These modules model the parts of it where the
order of events decides whether a world, a ban or a lock survives, check them
with TLC, and prove the most important results with TLAPS.

## The system

| Part | State it keeps | Operations | Talks to |
|---|---|---|---|
| Restore worker (`restore_worker.py`) | data folder, stage, rollback copy, marker file | one run: recover an earlier run, extract, stop, clone, replace, start, clean up | Docker (Minecraft, doorman) |
| Operator levels (`op_levels_worker.py`, `adapters/pending_op_levels.py`) | `ops.json`, the queue's two files, rollback file, marker | request, withdraw, restart with the worker, one run, its recovery | Docker, `ActionsMixin` |
| Restoration requests (`services/backups.py`, `restore_coordinator.py`) | pending restoration and current operation, in memory | request, tick, deadline, result | backup and restore containers, doorman |
| Maintenance (`services/maintenance.py`, `maintenance_scheduler.py`) | announced closure, in memory | close, announce, cancel, tick, reopen | Docker, RCON, doorman, restoration |
| Start, stop, restart (`services/actions.py`, `services/game.py`) | operation of the operator worker | start, stop, restart | Docker, maintenance, operator levels |
| Sign-in limiter (`api/login_security.py`) | counters per address and per address and account, leases | begin, failure, success, cancel, clean-up, eviction | sign-in requests |
| Bans (`services/moderation.py`, `adapters/temp_bans.py`, `tempban_scheduler.py`) | the server's ban list, a file of timers | ban, ban for a time, pardon, scheduler round | RCON |
| Backup profiles (`services/backups.py`, `scheduler.py`, `adapters/backup_*.py`) | profiles in a file, cycles in memory, archives on disk | create, edit, suspend, delete, trigger, schedule, conclude, retention | backup container, archives, restoration |
| Archive verification (`archive_verifier.py`, `adapters/archive_checks.py`) | verdicts in a file | pick, read, record | archives, restoration |
| Programmed restarts and maintenances (`services/actions.py`, `services/maintenance.py`, their adapters and two threads) | one announced operation of each kind in memory, calendars in files | announce, cancel, set, clear, tick, defer | RCON, Docker, doorman |
| Updates (`services/update.py`, `adapters/updater.py`, `adapters/app_update.py`, `app_update_checker.py`) | operation in memory, known release in a file | check, update, follow-up | updater containers, maintenance |
| Accounts, second factor, sessions, tokens (`api/routes/auth.py`, `api/sessions.py`, `api/api_tokens.py`, stores) | memory and four JSON files | sign in, revoke, expire, create, delete, change role, password or factor | every request |
| Alerts and incidents (`health_watcher.py`, `perf_watcher.py`, `adapters/incidents.py`) | what was told, in memory; incidents, thresholds and watched containers in files | poll, tell, record | Docker, Prometheus, notifier |
| Notifications (`adapters/notifications.py`, `adapters/notification_config.py`) | channels in a file, those last read in memory | add, edit, switch, remove, notify | every thread that notifies |
| Players (`player_watcher.py`, `adapters/player_history.py`) | position in the log, sessions of play in a database | read, record, notify | `latest.log`, notifier |
| Pages, RCON, audit, configuration | none that others depend on | | |

`PROJECT.json` lists them all with their files, modelled or not.

Where it is hard:

- *check, then act.* Requests and ticks look at the state of the others (Docker,
  memory) and then act over seconds or minutes. Only restore requests and profile
  backups share a lock.
- *crashes.* The one-shots can be killed between any two file operations, and
  mc-admin can restart at any time and forget what was in memory.
- *partial failure.* Every statement of a worker may raise, and the exception
  paths have exception paths.
- *stale reads.* Ticks work on a snapshot: an announcement, a list of due
  entries, a clock read before the lock, a profile that is written back whole.
- *memory and files.* What decides is often in memory and what lasts in a file;
  the two are changed one after the other, and several files by one request.
- *answers that get lost.* A Docker or RCON command may have worked although the
  caller sees an error.

What makes each part correct:

- a restoration or a change of operator levels happens whole or not at all,
  whatever is interrupted, and a server left stopped says so;
- restoration and maintenance exclude each other, a half-replaced world is never
  served or backed up, and what was begun comes to an end;
- no burst of sign-ins passes the threshold, no lock is lifted early, memory is
  bounded;
- a temporary ban ends when its time comes, a permanent one is not lifted by a
  timer;
- a deleted name leaves nothing to its next holder, what was disconnected stays
  out, and a restart changes nothing;
- a scheduled backup is made once a day, its outcome is told truly, an archive
  that may be restored is whole, and retention leaves no month bare;
- a calendar announces its operation once, what is put off still happens, and the
  end of an update is told;
- an incident is open exactly while its outage is known, messages go where the
  channels say, and the players shown online are those on the server.

## Modules

| Module | Models |
|---|---|
| `World` | the data folder, and what replacing it by an archive means |
| `AtomicWorld` | abstract: the world is played, or replaced in one step |
| `RestoreWorker` | `restore_worker.py`, statement by statement |
| `MCRestoreWorker` | the small instance for TLC |
| `RestoreSeen` | abstract: the restore worker as the other parts see it |
| `RestoreWorkerProofs` | theorems about `RestoreWorker`; that it implements `RestoreSeen` |
| `OpTables` | tables of operator levels and their merge |
| `OpQueue` | abstract: requests are queued, and applied as one batch |
| `OpLevels` | the queue's files, the worker, and mc-admin's side |
| `OpLevelsProofs` | theorems about `OpLevels` |
| `Coordination` | restoration, maintenance, start and profile backups as threads, around the worker of `RestoreSeen` |
| `LoginLimiter`, `MCLoginLimiter` | `LoginAttemptLimiter` |
| `LoginLimiterProofs` | theorems about `LoginLimiter` |
| `TempBans` | bans, timers, the scheduler |
| `TempBansProofs` | theorems about `TempBans` |
| `JsonFile` | what a write of a file under `/data` may do |
| `Sessions`, `Accounts` | the registry of sessions; accounts, second factor and tokens |
| `AccountsProofs` | theorems about the two |
| `ArchiveChecks`, `Backups`, `MCBackups` | archives, verdicts and retention; profiles, schedule and cycles |
| `BackupsProofs` | theorems about `Backups`, `ArchiveChecks` and `Coordination` |
| `Updates`, `Schedules`, `MCSchedules` | updates of the server and of mc-admin; programmed restarts and closures |
| `SchedulesProofs` | theorems about the two |
| `Channels`, `Alerts`, `Players` | the notifier; the two threads of surveillance; the follower of the log |
| `Watchers`, `MCWatchers` | those three together |
| `WatchersProofs` | theorems about the four |

### RestoreWorker

`pc` is the statement the worker executes next and `mode` the code path it is on
(the nominal path, its final clean-up, the two branches of the `except` block,
and the three outcomes of `_recover_interrupted_transaction`). An action is a
statement that changes the disk or a container. Copies go file by file through
`todo`, so that a kill can leave any mix, and a file being written can be left
truncated (`Torn`). `Kill` stops the process anywhere; `Raise` takes the path the
`except` blocks take. The environment is Minecraft rewriting its files while it
runs, mc-admin starting the next run, and (if `AdminMayStart`) the ordinary start
button. The archive is abstracted to the set of files it holds, its validation to
a step that may fail. A call on the two containers is two steps, since an exception
or a kill may fall between them: `Stop` and `Engage` (Minecraft, then the doorman,
which is taken at best), `Release` and `Start`. An error of Docker in `release()` is
taken for the absence of a doorman, as in the code: `Release` may then end with the
doorman up, and the start that follows is refused (`StartRefused`).

`AtomicWorld` is refined under the mapping `CommittedWorld`: while the marker says
that the data folder may be mixed the world is the rollback copy, else it is the
data folder.

### OpLevels

The same shape for the operator levels: the queue (`pending`) and the claimed
batch (`applying`) are two files that claim, completion and restoration replace
one after the other, so a kill may fall between the two. `OpQueue` is refined by
mapping the files to what the next run would make of them. mc-admin's part is
`op_add` and `op_remove` with their guards, restarts that launch the worker, and
the tick that clears `_op_levels_operation`; a restart of mc-admin forgets it.
`start` and `restart` look at the queue and call Docker later with no lock held
(`StartCheck`, `PlainStart`), `exit_maintenance` starts the container without a look
(`Reopen`): both may fall under a running worker, which `elsewhere` records.

### Coordination

Each request or tick is a thread variable that names the call it makes next; the
checks it made are not repeated, as in the code. The Docker proxy may fail to
answer (`DockerDoorman.is_running` then says no, `_restoring` says yes). The
restore worker is the one of `RestoreSeen`: its calls on the two containers, whether
it undoes a transaction (its own after an exception, or the one an earlier run
left), its exit code, and whether the world on disk is of one piece.
Times are two flags: the deadline of a restoration has passed (`late`), an announced
closure is due. A due closure is "held" while its tick returns at each poll because
players are on the server or Docker cannot be read; `HoldChanges` sets and clears
that at any time.

### LoginLimiter

Buckets and leases as in the code, all four methods with the clean-up and the
evictions they trigger. Each method runs under one lock but reads the clock
before: `Times` are the readings it may have. An empty bucket and no bucket are
the same here, since every method drops the buckets it empties; the order of
eviction (`last_seen`) is left open.

### TempBans

A request sends its command to the server, then changes the file of timers: two
or three steps with nothing held in between. The scheduler reads the due entries
once and pardons them one by one. `meant` records what the last answered request
made of a ban, and `stale` the entries of the round about whose player a request is
under way or was since the round was read; they are not state of the program, the
properties need them. `calm` is chosen at the start and never changes: where it is
TRUE requests and rounds come one at a time and none is cut, where it is FALSE
anything goes. A name is a player and a spelling: Minecraft and the pages ignore
case, the file does not.

### Accounts

A request is a sequence of steps, one per write or change of memory, in the order
of its handler; `job` holds what is left of it. Each of the four files may fail to
be written, before or after it is replaced (`JsonFile`), and the undo that
`_persist_new_account` then attempts may fail too. mc-admin may stop between any
two steps; it then reads the files again and the accounts of `roles.yml` with
them, in whatever role `roles.yml` gives them: one that is not known is written to
the file and left out of memory. `Sessions` is the registry: memory decides, every change is written
through. A session is a number in the order of creation, so the cap per account
is a comparison; `aged` are those older than their time to live. `proof`,
`holder`, `changed` and `gone` record who proved what and what was answered, for
the properties only.

### Backups

`ArchiveChecks` has the archives with an identity (size and date), the verifier
(pick the newest unverified, read it, record), the file of verdicts, retention and
the part of the restoration's preflight that looks at them. A file may be replaced
by hand, and a backup that is being written has a name and no whole world yet.
`Backups` adds the profiles (an edit is a read, then a write of the whole
profile), the scheduler's tick (all due profiles marked, then triggered one by
one), the container, which reads the order it was given when it starts, and the
watcher's two steps (the container is stopped; conclude the cycles). Two excuses
are counted in `excused` and named in the properties: an edit that wrote back an
old `last_run`, and a profile triggered again between the watcher's two steps.
`made` records the archives completed, for the properties only: a file that is
replaced, removed, or completed in a later month than the one it was begun in takes
its month out of it, because retention had counted it as the newest of that month.

### Schedules and Updates

`plan` is the operation announced of each kind and is lost with the process;
`cal` is the calendars' file, with the day each entry was last used. A thread's
tick is three steps for an operation that is due (read it, take it out, carry it
out) and two for an entry of a calendar (announce, mark the day). Requests fall
between any two of them. The clock moves only between ticks, which are short.
`DoormanUnfit` may hold at any time, and `blocked` says what makes a tick leave a due
operation announced: Docker does not answer, the operator-level worker runs (for a
restart), a restoration does (for a closure). An update of the server is a container
that ends later, well or badly; it is started first and recorded afterwards
(`ApplyUpdate`, `RecordUpdate`). The scan of its end is four steps without a lock
(`ScanLook`, `ScanTake`, `ScanForget`, `ScanTell`), made by the thread of the restarts
and by a page; `told` is what was read of the last run's exit code. The
update of mc-admin replaces the process, which forgets what was in memory, and
takes the doorman's place.

### Watchers

Each of three threads is idle or notifying, and the notifier's refresh is three
steps (date, list, targets) on one cache that nothing protects. `Alerts` polls the
server, a companion container, the lag and the disk; an incident is recorded after
its message. A lag must last the number of polls the thresholds say, which may
change meanwhile; the disk must recover by a fifth beyond its limit. `Players`
follows a log that is renewed each night and at each start, knowing only how much
of it was read. `orphan`, `lost` and `astray` record what a property excepts: an
incident whose watcher forgot it, a player of whom a line was missed, a refresh that
began beside another or could not read the file.

## Runs

Runs that pass:

| Run | Shows |
|---|---|
| `restore_atomic` | two runs with two kills or exceptions anywhere implement `AtomicWorld`; nothing is copied under a running server; every run ends |
| `restore_faults` | with clean-ups cut short and the start button pressed too: a stopped server has left a marker, a run that did its work leaves Minecraft running on its address, "manual intervention" is asked for only while whole files are served, no truncated file is served |
| `op_levels_atomic` | batches are applied whole or not at all, nothing is lost or returns, the worker writes `ops.json` only after it stopped the server (which mc-admin may start again meanwhile), requests are eventually served |
| `coordination_sequential` | when requests and maintenance ticks do not overlap (coordinator, worker and restarts of mc-admin still do): restoration and maintenance exclude each other, no mixed world is served |
| `coordination_all` | with everything interleaved and failing: no backup reads a world that is being replaced, a restoration gets out of the way, a due closure that players and Docker do not hold back for ever does not stay pending |
| `login_limiter` | no burst passes the threshold, a lock is only lifted by time or by the success it allows |
| `temp_bans` | with overlaps, cut requests, restarts, failed writes and lost answers: only bans that are due are lifted, unless a request about the player runs during the round; with `calm`, a temporary ban ends |
| `accounts` | with writes that fail and a stop of mc-admin anywhere: no session of a former holder of a name works, what was disconnected stays out, memory and files agree between requests |
| `backups` | two profiles, edits, triggers, the schedule, retention and the verifier interleaved: an accepted archive is whole, no month is left bare, once a day, failures are true, cycles are concluded, archives are verified |
| `schedules` | nothing is announced twice a day, what is due happens once the server stays empty and nothing is in its way, the end of an update is told |
| `watchers` | incidents are the outages told, messages go to the channels as they are once a refresh is over, the players shown online are online, outages are told and closed |

One run TLC refutes, a disagreement between the code and what a document says of
it: `coordination_overlap`. `enter_maintenance` checks for a restoration, then
stops the server for up to two minutes, and a restoration requested meanwhile is
accepted; `CHANGELOG.md` says that the two can no longer overlap.

The same module serves both kinds: constants switch on what a passing run
excludes. So a passing run says exactly under which conditions its properties
hold. That these conditions are needed can be seen by changing one constant in
the cfg of the passing run (and checking the property named, alone):

| cfg | Change | TLC then refutes | Because |
|---|---|---|---|
| `RestoreAtomic` | `CleanupCompletes = FALSE` | `AtomicRestore` | the clean-up removes the rollback copy, file by file, before the marker: cut in between, the next run restores an incomplete copy (`restore_worker.py:336`; `README.md:121` says the old world is put back) |
| `RestoreAtomic` | checking `ExitZeroMeansTarget` | `ExitZeroMeansTarget` | a run that finds only an unfinished clean-up ends with 0 without restoring its own archive, and mc-admin says that it did (`restore_worker.py:366`, `services/backups.py:948`) |
| `RestoreAtomic` | `AdminMayStart = TRUE` | `StoppedWhileCopying` | the start button works while the world is being replaced if the doorman could not take the post (`services/actions.py:420`) |
| `OpLevels` | `CommitFails = TRUE` | `AtomicBatch` | a failure after the marker says "committed", then a cut roll back, loses the requests (`op_levels_worker.py:295`) |
| `OpLevels` | `AdminInterferes = TRUE`, checking `DemotedStaysDemoted` | `DemotedStaysDemoted` | recovery restores a rollback file that is older than a demotion (`op_levels_worker.py:232`) |
| `CoordinationSequential` | `ProxyFails = TRUE` | `NoOverlap` | a proxy that does not answer looks like "no maintenance" (`adapters/doorman.py:123`) |
| `CoordinationSequential` | `WorkerDies = TRUE` | `NeverServesMixedWorld` | after a worker killed in the middle, "Rouvrir" starts Minecraft on the mixed world, what `services/maintenance.py:128` says the check prevents (`services/maintenance.py:325`) |
| `CoordinationSequential` | `Starts = "always"` | `NeverServesMixedWorld` | a start asked for while the worker copies is carried out if the doorman could not take the post (`services/actions.py:420`) |
| `TempBans` | `Spellings = {s1, s2}`, checking `PermanentHasNoTimer` | `PermanentHasNoTimer` | a permanent ban typed in another case leaves the timer (`adapters/temp_bans.py:56`) |
| `Accounts` | `Threads = {t1, t2}` | `DisconnectedStaysOut` | a sign-in checked against the old password opens its session after the others were closed (`api/routes/auth.py:256`) |
| `Accounts` | `"sessions"` in `FailsBefore` | `RestartChangesNothing` | memory has revoked a session that the file keeps (`api/sessions.py:96`) |
| `Accounts` | `"users"` in `FailsAfter` | `RestartChangesNothing` | the file has a change that was answered as refused (`adapters/atomic_json.py`) |
| `Schedules` | `FailsBefore = {"calendar"}` | `ArmedOnce` | a day that could not be marked is announced again (`services/actions.py:417`) |
| `Watchers` | `FailsBefore = {"incidents"}` | `IncidentsAreOutages` | the incident is written at best, and not again |
| `Watchers` | `Subject <- MCNamesake`, `MaxEvents = 4` | `IncidentsAreOutages` | a companion container named "server" shares the incident of the server (`services/servers.py:103` refuses only the name of the server's own container) |

Disagreements between the code and its own comments that no run refutes. Each is a
case a property names and excepts, or for which there is none:

- a request about a player that runs during a round of the scheduler may have its ban
  lifted by that round (`tempban_scheduler.py:54`; `services/moderation.py:248` says
  never); `LiftsOnlyDue` excepts it through `stale`;
- a temporary ban may lose its timer, and so never end, when two requests about one
  player overlap or one is cut between the timer's removal and its replacement
  (`services/moderation.py:283` and `306`); `TempBansEnd` is about `calm` only;
- a closure cancelled between the tick's read and the tick's own `cancel()` is
  confirmed as cancelled and takes place (`services/maintenance.py:378` to `411`);
- players who come between the look at the server and the restart or closure that
  defers to them are cut (`services/actions.py:297`);
- two managers who demote each other both pass the check on memory before either is
  written, and none is left, although `api/routes/auth.py:289` says it cannot be;
  an imported account may also have any role;
- an update whose exit code cannot be read is told as done
  (`services/update.py:151`; `adapters/updater.py:164` says never a success), and so
  is, while it still runs, one begun between the two looks of a scan
  (`services/update.py:140` to `144`; line 142 says never a false "finished");
- a thread that finds the date of the channels kept by another sends to the channels
  of before, at start-up to none, while the other still reads; two refreshes at once
  may leave the old channels until the next edit (`adapters/notifications.py:113`;
  line 98 says "effectif au prochain envoi"); a file that cannot be read leaves no
  channel until it changes (line 126 says "on garde la précédente").
  `SentAsConfigured` excepts these three and no other;
- a start, restart or reopening whose call to Docker falls after the worker's stop
  runs Minecraft while `ops.json` is written (`services/actions.py:443`,
  `services/maintenance.py:347`); `WritesWhileStopped` excepts it through `elsewhere`;
- a clean-up cut after a roll back leaves a marker that the next run answers with
  "intervention manuelle requise" (`restore_worker.py:338`), though nothing is to be
  repaired, which is what `ManualServesWhole` says.

Behaviours the models show that no property forbids, because the code accepts them:
an announced restart or closure is lost when mc-admin stops, and the day of its
calendar entry is already marked; a restart that falls due during a maintenance is
refused and lost; a maintenance may begin while the container that updates the
server runs; closing at once leaves an announced closure announced; a backup whose
container failed counts as a success if an archive of it exists
(`services/backups.py:360`), and one that is still being written as the newest of
its month, whose other archives retention may then remove although the file is
completed in the next month, or never; an interval of 6 or 12 hours starts a profile
several times a day; a switch of a channel writes back all the switches it read; an
incident whose container is no longer watched, or that was open when mc-admin
stopped, is not closed by its end.

`Starts` of `Coordination` says when the start button is pressed in the model:
never, only while no restoration is known, or always.

Every property of a passing run is broken by at least one mutant: a variant of an
action with a plausible slip (a dropped guard, a swapped order, a missing reset),
defined just before the original and listed in `PROJECT.json`.

### Bounds

- `RestoreWorker`: two archives (one that holds the world, one that holds only
  logs), four files under two roots: a file both sides have, one only in the old
  world, one only in the archive, one in the untouched root. Two runs, so that a
  recovery can itself be interrupted; two faults in all.
- `OpLevels`: two players, two levels, two faults; any number of runs.
- `Coordination`: unbounded behaviours over a finite state, one thread of each
  kind.
- `LoginLimiter`: two addresses and two accounts, thresholds 2 and 3, room for two
  pairs and one address so that evictions happen, five instants, calls up to one
  instant late, symmetric clients and accounts.
- `TempBans`: two players, two request threads, three requests, two faults, five
  instants; `calm` both ways.
- `Accounts`: two names, a manager and a viewer, one request at a time, seven
  requests, three passwords and three sessions of which two may be open, one stop:
  enough to delete a name, create it again, and stop within either.
- `Backups`: two profiles, one of them with archives of two months; three
  archives, days of two ticks and months of two days, so that retention cuts both;
  two requests, stops or replacements by hand. The clock starts after the seeded
  archives, and its one tick is both a midnight and the end of a month.
- `Schedules`: a daily restart that defers and a dated closure, two days of two
  ticks (the second begun), three requests, releases or stops.
- `Watchers`: one channel that may be removed and added, one companion, one
  player, three edits, changes of what is watched, lines of the log or stops. Three
  lines and renewals are the least that make a log unread, and a renewed one
  unnoticed.

`CHECK_DEADLOCK FALSE` is set where the bounds (runs, requests, time) let the
system come to rest. `Coordination` never rests and is checked for deadlock.

### Fairness

- `RestoreWorker`: a running process executes its next statement. All its waits
  have a timeout.
- `OpLevels`: the worker runs on, ticks come, restarts are asked for again (the
  daily restart does).
- `Coordination`: clocks advance, both background threads keep polling (their
  loops catch every exception), a request that was begun goes on, the worker ends.
  Nothing is assumed of users, nor that the proxy ever fails or not; that a due
  closure is not held back for ever is the hypothesis of `ClosureHappens`.
- `TempBans`: time passes, requests go on, the scheduler's thread polls and
  catches every exception; faults are finite in number.
- `Backups`: the container ends, the watcher and the verifier tick; nothing is
  assumed of the schedule or of users.
- `Schedules`: both threads tick every two seconds, and a scan of a page that was
  begun goes on; nothing is assumed of players, Docker or the other workers, whose
  staying away is the hypothesis of `DueHappens` and `EndIsTold`.
- `Watchers`: each round polls everything, and the proxy and Prometheus answer
  again; a message ends (its requests have timeouts).

## Proofs

Proved by TLAPS for every value of the constants, subject to the named
assumptions of the modules (finite sets, positive limits, model values that
differ):

- `RestoreWorkerProofs`. `TypeCorrect` proves the types with `PathInv` (which
  statements each code path can be at) and `SourceInv` (the folders it reads exist).
  `StoppedIsMarked` needs `ServerInv`: between which statements Minecraft may be
  stopped and which phase the marker has there. `EndsOpenHolds` (Docker gives the
  address to one container: a start under a doorman that was not seen is refused, so
  a run that got past it found the post free), `ManualServesWholeHolds` (`LostInv`:
  where the marker is left without its rollback copy, the server was started before)
  and `StartsWhole`
  (from `WholeInv`: a truncated file in the data folder only while a whole rollback
  copy is there and the marker sends the next run to it) hold, like these, with
  clean-ups cut short and the start button pressed. `StoppedWhileCopyingHolds`
  assumes only `~AdminMayStart` (`CopyInv`: the server is stopped from the step
  after its stop to the end of the copy, on every path). The refinement
  `AtomicRestoreHolds` assumes that and `CleanupCompletes`, and adds `PhaseInv`
  (phase and rollback copy agree) and `FolderInv` (during a clone the copy
  agrees with the data folder outside `todo`; during a copy back the data folder
  agrees with the rollback copy outside `todo`; during the replacement with the
  overlay). Every step of the worker then maps to a step of `AtomicWorld` or to
  none: the one visible step is the marker that says "started", or the removal of
  the rollback copy.
- `RestoreWorkerProofs`, last part: `WorkerAsSeen`, that `RestoreWorker` implements
  the worker of `RestoreSeen` that may be killed (`WorkerDies`), nothing assumed:
  what `Coordination` lets that worker do covers every statement of the real one.
  Whether the world is of one piece cannot be read off the worker's variables (a
  killed run may have replaced every file or none), so a history variable `mixed`
  records it: set when a copy into the data folder begins, cleared when it is
  complete. It is a function of the step taken and forbids none (`RecordedRuns`: a
  recorded run is a run). `RecordInv` says that files are truncated only while the
  world is recorded as mixed, and that a rollback copy and its marker then exist, so
  that the next run can only put it back. At `w_rollback_failed` only the marker is
  left to be written, and the run counts as over.
- `LoginLimiterProofs`. `LimiterInv` is the conjunction of the types,
  `FlightIsLeases`, and `InOrder` for every bucket: failures and attempts together
  within the limit, and a lock only on a full count. No conjunct is inductive
  alone: a failure stays within the limit because its own attempt was counted
  (`FlightIsLeases`), and it never meets a running lock because a locked bucket is
  full and so has no attempt under way. From it `ReservationsExact`, `LimitHolds`,
  `LockMeansFull` and the action property `LocksLastAlways`.
- `OpLevelsProofs`, for any players, levels and number of faults, and any number of
  runs. Assumed (`Careful`): the final clean-up's own writes do not raise, and
  operators are not changed while an interrupted run waits for its recovery; the
  table above shows what breaks otherwise. `OpInv` relates the statement the worker
  is at to what is on disk: `PhaseInv` (the phase of the marker), `DiskInv` (what
  the next run relies on: without a marker nothing is left over; `ops.json` is the
  rollback copy or that copy with the batch applied; every entry of the marker's
  batch is still queued), `ServerInv`, `BatchInv` (from claim to commit) and
  `UndoInv` (the batch is back in the queue before its files go). Proof of a step:
  what the statement does to the disk (`StatementDisk`), then what the path it goes
  to needs there (`AtApply`, `AtUndo`, `AtCommit`, `AtIdle`). `ServerInv` says
  that between the worker's stop and its start Minecraft runs only if mc-admin started
  it meanwhile. From it follow `NeverForgotten`, `NeverUnderServer`, `NeverPromotes`
  and the refinement `BatchesAtomic`: the one visible step is the one that
  empties the applying file, or the kill that leaves "committed" on disk.
- `TempBansProofs`. `NoTimerAfterBan` holds under every interleaving if names are
  spelt alike (`OneSpelling`), and so does `OnlyDueLifted`, with requests cut anywhere
  and writes that fail, from `RoundInv`: an entry of the round is due still unless it
  is `stale`, and every request about a player of the round makes it so.
- `AccountsProofs`. The types need nothing; the rest assumes `Served`: one request
  at a time, a sessions file that can be written, an accounts file that is not
  replaced by a write answered as failed. `AccountsInv` says for every step of
  every request how memory and the files differ (`Loaded`, `InStep`), that the
  file holds an account or is about to get its first (`Populated`), that
  passwords, factors and sessions of a name in use were proved by its holder, and
  that those of the name being created are gone in the order they are removed
  (`Clean`), and that nothing older than the last password answered as chosen is
  left (`Renewed`). It speaks of the sessions that would survive a restart, not only
  of the live ones: a restart brings back what the file kept. `NobodyInherits`,
  `OutStaysOut` and `RestartHarmless` are its consequences.
- `BackupsProofs`. `AcceptedOnlyWhole`: every verdict, recorded or in the verifier's
  hand, is on a version dated before now (`Verified`), and every step leaves an
  archive as it was or dates it now (`Changes`), so no later version has the
  identity of one that was read. `NoMonthBare` uses `Covered`: for every archive
  completed there is one of the same profile and month that is not older and not
  listed for removal; retention preserves it because the newest of a month is never
  listed. `ScheduledOnce` assumes `WholeDays` (an interval of a day at least) and
  uses `Once`: a profile triggered today is marked so and is in no list to be
  triggered. `FailuresTrue` assumes `[]Prompt`: a cycle is concluded before its
  archives are older than retention keeps, which the watcher's tick of seconds
  justifies and the model's clock, free to run, does not.
- `BackupsProofs`, last part: `Coordination`, under the conditions its runs show to
  be needed. `BackupsKeepOff` assumes nothing: `LockInv` says that a restore request
  with the lock meets no backup, that the flag of a restoration or a worker refuses
  new ones from then on, and that the safety backup is over before the worker is
  launched. The others assume `Sequential` and use `TurnInv`: at most one request or
  tick at a time, begun with no restoration under way, and none can begin before its
  last call. `Exclusion` adds `~ProxyFails` and `ClosedInv`: the doorman holds the
  address for a maintenance only while no restoration is under way.
  `MixedWorldUnserved` adds `~WorkerDies` and `Starts # "always"`, but not
  `~ProxyFails`; `MixedInv`: a mixed world is in the hands of a worker that has
  stopped Minecraft, or is about to do so again, and no start is on its way.
- `SchedulesProofs`. `AnnouncedOnce` assumes that the mark of the day reaches the
  file (`MarksKept`) and uses `ArmInv`: an entry announced today has its day in the
  file, or its thread is about to write it, or was removed.
- `WatchersProofs`. `IncidentsTrue` assumes `OwnSubjects`: no two watched containers
  share the subject of their incidents, and the file of incidents can be replaced.
  `NotifiedAsConfigured` assumes nothing and uses `NotifierInv`: unless a refresh went
  astray there is one at most, and a cache dated as the file holds the file's
  channels unless that refresh is between its steps, in which case its thread
  carries them. `ShownTrue`
  uses `PlayersInv`: the last line about a player, in the log and in the batch read
  of it, says whether that player is on the server.

The proofs changed the models of the backups. `MonthsCovered` did not hold for an
archive written across the end of a month, which the earlier bounds never reached;
and `FailureIsTrue` said too little of a cycle still being written.

They changed that of the restore worker as well. The worker that `Coordination` used
to have left out what a run does when it undoes an earlier one; the attempt to show
that `RestoreWorker` implements it gave `RestoreSeen` its paths and the worker's
`stop` and `start` their two steps.

Only model-checked: liveness, which is out of the prover's reach (`EveryRunEnds`,
`EventuallyApplied`, `RestoreConcludes`, `ClosureHappens`, `TempBansEnd`,
`CyclesConclude`, `EventuallyVerified`, `DueHappens`, `EndIsTold`, `AlertsSettle`). Every
safety property of a passing run is a theorem. Only proved, and not checked again by
a run: the type invariants, `FlightIsLeases`, `LockedIsFull`, `PermanentHasNoTimer`,
`DemotedStaysDemoted`, and `WorkerAsSeen` with its history variable (which holds in
the instances of the two restore runs).

## Not modelled

Text handling (log lines, translations, pages), cryptography, network protocols
(RCON, ping, HTTP), contents of archives and audit: none of them decides what the
modelled parts do, beyond working or failing. Single commands to the server
(whitelist, kick, weather, game rules) and the list of administered servers change
one value that nothing else reads twice. Of the modelled parts, left out: warnings
in the game and the doorman's text, the snooze and the cache of the update page,
the integrity of worker images, cookies of earlier versions, display names and the
edition of `roles.yml`, the import of watched containers from the
environment, test messages, the history of closed incidents, commands, deaths, chat
and statistics of players, and a last line of the log read while half written.

## Plan

The modules, runs and proofs planned are there. What could be added are the parts
listed as not modelled in `PROJECT.json`, where a change of the code gives one of
them state that others rely on, and a composition of `Backups` with `Coordination`:
they meet in the profile's lock, which each models on its own side.
