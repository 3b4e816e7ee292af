------------------------------ MODULE Backups ------------------------------
(***************************************************************************)
(* Backup profiles: their file (adapters/backup_profiles.py), requests and *)
(* schedule (domain/services/backups.py, scheduler.py), the container that *)
(* writes the archives (adapters/backup.py) and the outcome told of every  *)
(* cycle.  Administrators, the scheduler, the watcher of outcomes and the  *)
(* container act concurrently; what a cycle knows of itself is in memory   *)
(* and is lost when mc-admin stops, while the container goes on.           *)
(***************************************************************************)
EXTENDS ArchiveChecks

CONSTANTS
  Seeded,        \* profiles of seed_from_legacy, with their configuration
  Configs,       \* what a form may ask: [plan, keep, full]
  DailyAt,       \* tick of the day at which a daily backup is due
  Every,         \* ticks between two backups of an "hours" plan
  Leftovers      \* whether a failed backup leaves its file: a set of Booleans

ASSUME BackupsAssumption ==
  /\ DOMAIN Seeded \subseteq Profiles /\ Range(Seeded) \subseteq Configs
  /\ Configs \subseteq [plan : {"none", "daily", "hours"}, keep : BOOLEAN, full : BOOLEAN]
  /\ "none" \notin Profiles
  /\ DailyAt \in 0..(DayLength - 1) /\ Every \in Nat \ {0}
  /\ Leftovers \subseteq BOOLEAN /\ Leftovers # {}

Never == -1
NoOne == "none"
Idle == [pc |-> "idle"]
Profile(c, enabled, last) ==
  [plan |-> c.plan, keep |-> c.keep, full |-> c.full, enabled |-> enabled, last |-> last]
Config(r) == [plan |-> r.plan, keep |-> r.keep, full |-> r.full]
Stored == [plan : {"none", "daily", "hours"}, keep : BOOLEAN, full : BOOLEAN,
           enabled : BOOLEAN, last : {Never} \cup (0..MaxTime)]

VARIABLES
  profiles,      \* the file of profiles
  edit,          \* a profile read by a request that will write it back
  run,           \* the container: read, its order, read yet or not; file, its archive
  startedAt, active, outcome,  \* _backup_started_at, _active_profile_id, _backup_result
  sched,         \* the scheduler, between marking a profile and triggering it
  scan,          \* the watcher, between seeing the container stopped and concluding
  fired,         \* scheduled backups of the day, by profile
  excused        \* <<p, "rewound">>: a last_run was written back; <<p, "overtaken">>

profileVars == <<profiles, edit>>
cycleVars == <<startedAt, active, outcome>>
ghostVars == <<fired, excused>>
vars == <<events, archiveVars, profileVars, cycleVars, run, sched, scan, ghostVars>>

Order == [who : Profiles, full : BOOLEAN]
TypeOK ==
  /\ ArchivesTypeOK
  /\ DOMAIN profiles \subseteq Profiles /\ Range(profiles) \subseteq Stored
  /\ edit \in [who : Profiles, to : Stored, new : BOOLEAN] \cup {Idle}
  /\ run \in [read : BOOLEAN, job : Order, file : {0} \cup Names] \cup {Idle}
  /\ startedAt \in [Profiles -> {Never} \cup (0..MaxTime)]
  /\ active \in Profiles \cup {NoOne}
  /\ outcome \in [who : Profiles, ok : BOOLEAN, whole : BOOLEAN] \cup {Idle}
  /\ sched \in [who : Profiles \cup {NoOne}, due : SUBSET Profiles] \cup {Idle}
  /\ scan \in Profiles \cup {NoOne}
  /\ fired \in [Profiles -> Nat]
  /\ excused \subseteq Profiles \X {"rewound", "overtaken"}

Init ==
  /\ ArchivesInit
  /\ profiles = [p \in DOMAIN Seeded |-> Profile(Seeded[p], TRUE, Never)]
  /\ edit = Idle /\ run = Idle
  /\ startedAt = [p \in Profiles |-> Never] /\ active = NoOne /\ outcome = Idle
  /\ sched = Idle /\ scan = NoOne
  /\ fired = [p \in Profiles |-> 0] /\ excused = {}

-----------------------------------------------------------------------------
(* Requests on the file of profiles.  An edit reads the profile and later  *)
(* writes all of it back, last_run included; no lock spans the two.        *)
CreateRead(p, c) ==
  /\ edit = Idle /\ p \notin DOMAIN profiles \cup DOMAIN Seeded
  /\ edit' = [who |-> p, to |-> Profile(c, TRUE, Never), new |-> TRUE]

EditRead(p, c, enabled) ==
  /\ edit = Idle /\ p \in DOMAIN profiles
  /\ Profile(c, enabled, profiles[p].last) # profiles[p]
  /\ edit' = [who |-> p, to |-> Profile(c, enabled, profiles[p].last), new |-> FALSE]

UpdateRead(p, c) == p \in DOMAIN profiles /\ EditRead(p, c, profiles[p].enabled)
ToggleRead(p) ==
  p \in DOMAIN profiles /\ EditRead(p, Config(profiles[p]), ~profiles[p].enabled)

Request ==
  /\ Event
  /\ \E p \in Profiles : ToggleRead(p) \/ \E c \in Configs : CreateRead(p, c) \/ UpdateRead(p, c)
  /\ UNCHANGED <<archiveVars, profiles, cycleVars, run, sched, scan, ghostVars>>

(* upsert.  A profile created anew starts its day afresh, unless a tick    *)
(* under way still has its namesake to trigger.                            *)
EditWrite ==
  LET p == edit.who
      rewinds == IF edit.new THEN sched # Idle /\ p \in sched.due
                 ELSE p \notin DOMAIN profiles \/ profiles[p].last # edit.to.last IN
  /\ edit # Idle /\ edit' = Idle
  /\ \E w \in Writes("profiles", profiles, With(profiles, p, edit.to)) : profiles' = w.data
  /\ fired' = IF edit.new THEN [fired EXCEPT ![p] = 0] ELSE fired
  /\ excused' = IF rewinds THEN excused \cup {<<p, "rewound">>} ELSE excused
  /\ UNCHANGED <<events, archiveVars, cycleVars, run, sched, scan>>

(* The profile whose backup runs is not deleted; nor any, when mc-admin    *)
(* does not know which one runs.                                           *)
Delete(p) ==
  /\ Event /\ p \in DOMAIN profiles
  /\ ~(run # Idle /\ active \in {NoOne, p})
  /\ \E w \in Writes("profiles", profiles, Without(profiles, {p})) : profiles' = w.data
  /\ UNCHANGED <<archiveVars, edit, cycleVars, run, sched, scan, ghostVars>>

-----------------------------------------------------------------------------
(* _trigger_profile_backup_locked: the order is written, then the          *)
(* container started unless it runs.  One that has not read its order yet  *)
(* will read the new one.                                                  *)
Ordered(p) ==
  LET job == [who |-> p, full |-> profiles[p].full] IN
  IF run = Idle THEN [read |-> FALSE, job |-> job, file |-> 0]
  ELSE IF run.read THEN run ELSE [run EXCEPT !.job = job]

NewCycle(p) == run = Idle \/ startedAt[p] = Never

Trigger(p) ==
  /\ p \in DOMAIN profiles
  /\ run' = Ordered(p)
  /\ IF NewCycle(p)
       THEN /\ active' = p
            /\ startedAt' = [startedAt EXCEPT ![p] = now]
            /\ outcome' = Idle
       ELSE UNCHANGED cycleVars
  /\ excused' = IF scan = p THEN excused \cup {<<p, "overtaken">>}
                ELSE IF NewCycle(p) THEN excused \ {<<p, "overtaken">>} ELSE excused

(* _backup_restore_lock is held by the scheduler from marking to trigger.  *)
TriggerBackup(p) ==
  /\ Event /\ sched = Idle  \* the lock
  /\ Trigger(p)
  /\ UNCHANGED <<archiveVars, profileVars, sched, scan, fired>>

Dismiss ==
  /\ outcome # Idle /\ outcome' = Idle
  /\ UNCHANGED <<events, archiveVars, profileVars, startedAt, active, run, sched, scan, ghostVars>>

-----------------------------------------------------------------------------
(* tick_backup_profiles, every minute.                                     *)
Day(t) == t \div DayLength
DueToday(r) ==
  /\ ~(r.last # Never /\ Day(r.last) = Day(now))
  /\ now % DayLength >= DailyAt
DueNoMemory(r) == now % DayLength >= DailyAt
DueDaily(r) == DueToday(r)

Due(r) ==
  r.enabled /\ \/ r.plan = "daily" /\ DueDaily(r)
               \/ r.plan = "hours" /\ r.last # Never /\ now - r.last >= Every

(* An "hours" plan that never ran: the first tick only starts its count.   *)
StartsCount(r) == r.enabled /\ r.plan = "hours" /\ r.last = Never

Marked(p) == [profiles EXCEPT ![p].last = now]

(* The list is read once, its profiles are then taken in turn, each marked *)
(* before it is triggered.                                                 *)
TickList ==
  /\ sched = Idle
  /\ \E p \in DOMAIN profiles : Due(profiles[p]) \/ StartsCount(profiles[p])
  /\ sched' = [who |-> NoOne,
               due |-> {p \in DOMAIN profiles : Due(profiles[p]) \/ StartsCount(profiles[p])}]
  /\ UNCHANGED <<events, archiveVars, profileVars, cycleVars, run, scan, ghostVars>>

Rest(p) == IF sched.due = {p} THEN Idle ELSE [who |-> NoOne, due |-> sched.due \ {p}]

(* A file that cannot be written ends the tick.                            *)
TickMark(p) ==
  /\ sched # Idle /\ sched.who = NoOne /\ p \in sched.due
  /\ \E w \in Writes("profiles", profiles, IF p \in DOMAIN profiles THEN Marked(p) ELSE profiles) :
       /\ profiles' = w.data
       /\ sched' = CASE ~w.ok -> Idle
                     [] w.ok /\ p \in DOMAIN profiles /\ StartsCount(profiles[p]) -> Rest(p)
                     [] OTHER -> [sched EXCEPT !.who = p]
  /\ UNCHANGED <<events, archiveVars, edit, cycleVars, run, scan, ghostVars>>

(* A restoration under way, the safety backup, a worker that does not      *)
(* match, a container that does not start or a profile that is gone make   *)
(* the trigger fail: the day's backup is skipped, the next profile taken.  *)
TickTrigger ==
  LET p == sched.who IN
  /\ sched # Idle /\ p # NoOne
  /\ sched' = Rest(p)
  /\ \/ Trigger(p) /\ fired' = [fired EXCEPT ![p] = @ + 1]
     \/ UNCHANGED <<run, cycleVars, excused, fired>>
  /\ UNCHANGED <<events, archiveVars, profileVars, scan>>

-----------------------------------------------------------------------------
(* The container, external: it reads its order some time after it is       *)
(* started, then writes its archive little by little.                      *)
Source ==
  /\ run # Idle /\ ~run.read
  /\ run' = [run EXCEPT !.read = TRUE]
  /\ UNCHANGED <<events, archiveVars, profileVars, cycleVars, sched, scan, ghostVars>>

Fresh == {n \in Names : n \notin DOMAIN archives /\ \A m \in DOMAIN archives : m < n}

OpenArchive(n) ==
  /\ run # Idle /\ run.read /\ run.file = 0
  /\ n \in Fresh /\ \A m \in Fresh : n <= m
  /\ run' = [run EXCEPT !.file = n]
  /\ Put(n, [dest |-> run.job.who, at |-> now, content |-> "partial"])
  /\ UNCHANGED <<events, now, checks, reading, purge, made, profileVars,
                 cycleVars, sched, scan, ghostVars>>

CloseArchive ==
  /\ run # Idle /\ run.file \in DOMAIN archives
  /\ run' = Idle
  /\ Put(run.file, [archives[run.file] EXCEPT
           !.at = now, !.content = IF run.job.full THEN "world" ELSE "files"])
  /\ made' = MadeWhenClosed(run.file) \cup {<<run.job.who, now>> : f \in {run.file} \ purge}
  /\ UNCHANGED <<events, now, checks, reading, purge, profileVars,
                 cycleVars, sched, scan, ghostVars>>

FailBackup ==
  /\ run # Idle /\ run' = Idle
  /\ IF run.file \in DOMAIN archives
       THEN \E stays \in Leftovers :
              /\ archives' = IF stays THEN archives ELSE Without(archives, {run.file})
              /\ made' = IF stays THEN made ELSE MadeBut(run.file)
       ELSE UNCHANGED <<archives, made>>
  /\ UNCHANGED <<events, now, checks, reading, purge, profileVars,
                 cycleVars, sched, scan, ghostVars>>

-----------------------------------------------------------------------------
(* _scan_backup_outcomes, called by every open page and by the background  *)
(* coordinator: a profile whose cycle began and whose container is seen    *)
(* stopped is concluded, by what is in its folder.                         *)
WatchedActive(p) == startedAt[p] # Never /\ active = p
Watched(p) == startedAt[p] # Never

ScanSee(p) ==
  /\ scan = NoOne /\ p \in DOMAIN profiles /\ Watched(p) /\ run = Idle
  /\ scan' = p
  /\ UNCHANGED <<events, archiveVars, profileVars, cycleVars, run, sched, ghostVars>>

Produced(p) == {n \in Own(p) : archives[n].at >= startedAt[p]}
ProducedAfter(p) == {n \in Own(p) : archives[n].at > startedAt[p]}
ProducedSince(p) == Produced(p)

(* _finalize_backup and, after a success, _auto_retention.                 *)
Retains(p) == p \in DOMAIN profiles /\ profiles[p].keep /\ p \in Deletable /\ purge = {}

(* What there is of the cycle in truth.                                    *)
Completed(p) == \E x \in made : x[1] = p /\ x[2] >= startedAt[p]
UnderWay(p) == run # Idle /\ run.job.who = p

Conclude(p) ==
  /\ scan = p /\ scan' = NoOne
  /\ startedAt' = [startedAt EXCEPT ![p] = Never]
  /\ IF startedAt[p] = Never THEN UNCHANGED <<outcome, archiveVars>>
     ELSE /\ outcome' = [who |-> p, ok |-> ProducedSince(p) # {},
                         whole |-> Completed(p) \/ UnderWay(p)]
          /\ IF ProducedSince(p) # {} /\ Retains(p) THEN RetentionPlan(p)
                                                    ELSE UNCHANGED archiveVars
  /\ UNCHANGED <<events, profileVars, active, run, sched, ghostVars>>

(* action_profile_retention                                                *)
Retention(p) ==
  /\ Event /\ p \in DOMAIN profiles /\ profiles[p].keep
  /\ RetentionPlan(p)
  /\ UNCHANGED <<profileVars, cycleVars, run, sched, scan, ghostVars>>

-----------------------------------------------------------------------------
Advance ==
  /\ now < MaxTime /\ sched = Idle /\ now' = now + 1
  /\ fired' = IF Day(now') = Day(now) THEN fired ELSE [p \in Profiles |-> 0]
  /\ excused' = IF Day(now') = Day(now) THEN excused
                ELSE {x \in excused : x[2] # "rewound"}
  /\ UNCHANGED <<events, archives, checks, reading, purge, made,
                 profileVars, cycleVars, run, sched, scan>>

(* mc-admin stops and starts again; the container and the files stay.      *)
Kill ==
  /\ Event
  /\ edit' = Idle /\ sched' = Idle /\ scan' = NoOne
  /\ startedAt' = [p \in Profiles |-> Never] /\ active' = NoOne /\ outcome' = Idle
  /\ reading' = NoReading /\ purge' = {}
  /\ excused' = {x \in excused : x[2] # "overtaken"}
  /\ UNCHANGED <<now, archives, checks, made, profiles, run,
                 fired>>

ReplaceByHand(n, c) ==
  Replace(n, c) /\ UNCHANGED <<profileVars, cycleVars, run, sched, scan, ghostVars>>

NotArchives == <<events, profileVars, cycleVars, run, sched, scan, ghostVars>>

Verify ==
  /\ (\E n \in Names : VerifyPick(n)) \/ VerifyRead \/ VerifyRecord
  /\ UNCHANGED NotArchives

Scan == \E p \in Profiles : ScanSee(p) \/ Conclude(p)
Work == Source \/ (\E n \in Names : OpenArchive(n)) \/ CloseArchive \/ FailBackup

Next ==
  \/ Request \/ EditWrite \/ Dismiss
  \/ \E p \in Profiles : Delete(p) \/ TriggerBackup(p) \/ Retention(p) \/ TickMark(p)
  \/ TickList \/ TickTrigger
  \/ Work \/ Scan
  \/ Verify
  \/ (VerifyIdle /\ UNCHANGED NotArchives)
  \/ \E n \in Names :
       \/ RetentionDelete(n) /\ UNCHANGED NotArchives
       \/ \E c \in Contents : ReplaceByHand(n, c)
  \/ Advance \/ Kill

(* The container ends, the coordinator scans and the verifier ticks every  *)
(* minute; nothing else is assumed to happen.                              *)
Fairness == WF_vars(Work) /\ WF_vars(Scan) /\ WF_vars(Verify)

Spec == Init /\ [][Next]_vars /\ Fairness

-----------------------------------------------------------------------------
(* A scheduled backup starts at most once a day for a profile, across      *)
(* restarts, edits of its plan and failed triggers (last_run is written    *)
(* first).  The exception is an edit that read the profile before the      *)
(* scheduler marked it and wrote the old last_run back.                    *)
OncePerDay == \A p \in Profiles : fired[p] > 1 => <<p, "rewound">> \in excused

(* A backup reported as failed completed no archive since its cycle began  *)
(* and is not being made, though cycles overlap, another profile is        *)
(* triggered while one runs and the container reads its order late         *)
(* (_finalize_backup).  The exception is a profile triggered again between *)
(* the two steps of the watcher.                                           *)
FailureIsTrue ==
  outcome # Idle /\ ~outcome.ok => ~outcome.whole \/ <<outcome.who, "overtaken">> \in excused

(* Cycles that began are concluded, all of them though they overlap,       *)
(* unless mc-admin stops or their profile is deleted                       *)
(* (_scan_backup_outcomes).                                                *)
Unconcluded == {p \in DOMAIN profiles : startedAt[p] # Never}
CyclesConclude == (Unconcluded # {}) ~> (Unconcluded = {})
=============================================================================
