--------------------------- MODULE ArchiveChecks ---------------------------
(***************************************************************************)
(* The archives on disk (adapters/backup_archives.py), the verdicts on     *)
(* them (adapters/archive_checks.py, archive_verifier.py), the test a      *)
(* restoration starts with and the retention of old archives               *)
(* (domain/services/backups.py).  The verifier reads an archive while it   *)
(* may grow, be replaced by hand or be removed; a restoration may only     *)
(* start from an archive whose present version was read to its end.        *)
(***************************************************************************)
EXTENDS Integers, FiniteSets, Functions, JsonFile

CONSTANTS
  Profiles,        \* ids of backup profiles, each with a folder of its own
  Deletable,       \* those whose folder is under profiles/ or is scheduled
  Seed,            \* archives present at the start: a function on 1..k
  MaxArchives,     \* bound: archives ever
  Start, MaxTime,  \* the clock's first and last value
  DayLength,       \* clock ticks per day
  MonthDays,       \* days per month, all months being as long as the longest
  KeepDays, KeepMonths,  \* retention_daily_days, retention_monthly_months
  MaxEvents        \* bound: requests, archives replaced by hand and stops of mc-admin

Names == 1..MaxArchives
Contents == {"partial", "files", "world"}  \* cut short; no world in it; a whole world
Archive == [dest : Profiles, at : 0..MaxTime, content : Contents]

ASSUME ArchivesAssumption ==
  /\ Deletable \subseteq Profiles
  /\ {MaxArchives, Start, MaxTime, MaxEvents, KeepMonths} \subseteq Nat
  /\ {DayLength, MonthDays, KeepDays} \subseteq Nat \ {0}
  /\ Start <= MaxTime /\ DOMAIN Seed \subseteq Names
  /\ \A n \in DOMAIN Seed : Seed[n] \in Archive /\ Seed[n].at < Start

(* st_mtime and st_size.  Within one tick only growth changes a file, and  *)
(* growth changes its size.                                                *)
Identity(a) == <<a.at, a.content = "partial">>
Identities == (0..MaxTime) \X BOOLEAN

NoReading == [name |-> 0]
Reading == [name : Names, id : Identities, result : Contents \cup {"unread", "gone"}]
Check == [id : Identities, ok : BOOLEAN, restorable : BOOLEAN]

(* inspect_archive reads the file to its end: it is whole, and a world.    *)
Verdict(id, c) ==
  [id |-> id, ok |-> c \notin {"partial", "gone"}, restorable |-> c = "world"]

VARIABLES
  now, archives, events,
  checks,            \* the file of verdicts
  reading,           \* what the verifier holds between listing and recording
  purge,             \* archives a retention under way has still to delete
  made               \* when every profile's archives were completed

archiveVars == <<now, archives, checks, reading, purge, made>>

ArchivesTypeOK ==
  /\ now \in Start..MaxTime /\ events \in 0..MaxEvents
  /\ DOMAIN archives \subseteq Names /\ Range(archives) \subseteq Archive
  /\ DOMAIN checks \subseteq Names /\ Range(checks) \subseteq Check
  /\ reading \in Reading \cup {NoReading}
  /\ purge \subseteq Names
  /\ made \subseteq Profiles \X (0..MaxTime)

ArchivesInit ==
  /\ now = Start /\ archives = Seed /\ events = 0
  /\ checks = [n \in DOMAIN Seed |-> Verdict(Identity(Seed[n]), Seed[n].content)]
  /\ reading = NoReading
  /\ purge = {}
  /\ made = {<<a.dest, a.at>> : a \in Range(Seed)}

-----------------------------------------------------------------------------
Without(f, S) == Restrict(f, DOMAIN f \ S)
With(f, x, y) == [z \in DOMAIN f \cup {x} |-> IF z = x THEN y ELSE f[z]]

Event == events < MaxEvents /\ events' = events + 1
Put(n, a) == archives' = With(archives, n, a)

(* list_archives: the files there are, with their size and time.           *)
Listed == DOMAIN archives

Month(t) == t \div (DayLength * MonthDays)
MadeBut(n) ==
  {x \in made : ~(x[1] = archives[n].dest /\ Month(x[2]) = Month(archives[n].at))}

(* An archive completed at last may leave the month it was counted in.     *)
MadeWhenClosed(n) == IF Month(archives[n].at) = Month(now) THEN made ELSE MadeBut(n)

(* An administrator replaces an archive on the volume.                     *)
Replace(n, c) ==
  /\ n \in DOMAIN archives /\ archives[n].at < now
  /\ Event
  /\ Put(n, [archives[n] EXCEPT !.at = now, !.content = c])
  /\ made' = MadeBut(n)
  /\ UNCHANGED <<now, checks, reading, purge>>

-----------------------------------------------------------------------------
(* ArchiveVerifier.tick.  The identity recorded with a verdict is the one  *)
(* listed before the file is read.                                         *)
Matches(n) == n \in DOMAIN checks /\ checks[n].id = Identity(archives[n])

(* No verdict, or one on another version.                                  *)
NeverChecked(n) == n \notin DOMAIN checks
Unverified(n) == ~Matches(n)

(* Still being written, perhaps: min_age_seconds, one tick here.           *)
Settled(n) == n \in Listed /\ archives[n].at < now
Ripe == {n \in Names : Settled(n) /\ Unverified(n)}

Forgotten == Restrict(checks, DOMAIN checks \cap Listed)

VerifyPick(n) ==
  /\ reading = NoReading
  /\ n \in Ripe /\ \A m \in Ripe : archives[m].at <= archives[n].at
  /\ \E w \in Writes("checks", checks, Forgotten) :
       /\ checks' = w.data
       /\ reading' = IF w.ok
                       THEN [name |-> n, id |-> Identity(archives[n]), result |-> "unread"]
                       ELSE NoReading
  /\ UNCHANGED <<now, archives, purge, made>>

VerifyRead ==
  /\ reading # NoReading /\ reading.result = "unread"
  /\ reading' = [reading EXCEPT !.result =
       IF reading.name \in DOMAIN archives THEN archives[reading.name].content ELSE "gone"]
  /\ UNCHANGED <<now, archives, checks, purge, made>>

(* The size and time kept from the listing, not those of the file now.     *)
IdentityListed == reading.id
IdentityAtRecord ==
  IF reading.name \in DOMAIN archives THEN Identity(archives[reading.name]) ELSE reading.id
RecordedIdentity == IdentityListed

VerifyRecord ==
  /\ reading # NoReading /\ reading.result # "unread"
  /\ \E w \in Writes("checks", checks,
                   With(checks, reading.name, Verdict(RecordedIdentity, reading.result))) :
       checks' = w.data
  /\ reading' = NoReading
  /\ UNCHANGED <<now, archives, purge, made>>

(* Nothing to verify: only verdicts of archives that are gone are removed. *)
VerifyIdle ==
  /\ reading = NoReading /\ Ripe = {}
  /\ checks' = Forgotten
  /\ UNCHANGED <<now, archives, reading, purge, made>>

(* _restore_archive_issues: the archive has a verdict, on this very        *)
(* version, and a good one.                                                *)
GoodVerdict(n) == n \in Listed /\ Matches(n) /\ checks[n].ok /\ checks[n].restorable

-----------------------------------------------------------------------------
(* backup_retention_plan: every archive of the last days is kept, then the *)
(* newest of each month, up to the age of KeepMonths months.               *)
Age(n) == now - archives[n].at
DailyAge == KeepDays * DayLength
MonthlyAge == IF KeepMonths * MonthDays > KeepDays
                THEN KeepMonths * MonthDays * DayLength ELSE DailyAge

Own(p) == {n \in Listed : archives[n].dest = p}
Newer(m, n) == archives[m].at > archives[n].at \/ (archives[m].at = archives[n].at /\ m > n)
FirstOfMonth(p, n) == \A m \in Own(p) : Newer(m, n) => Month(archives[m].at) # Month(archives[n].at)

(* A month once represented among the recent archives is never looked at   *)
(* again: the older ones of that month go as duplicates.                   *)
RecentOrMonthly(p) ==
  {n \in Own(p) : Age(n) <= DailyAge \/ (Age(n) <= MonthlyAge /\ FirstOfMonth(p, n))}

RecentOnly(p) == {n \in Own(p) : Age(n) <= DailyAge}

Kept(p) == RecentOrMonthly(p)

(* delete_archive refuses any other folder.                                *)
RetentionPlan(p) ==
  /\ purge = {} /\ purge' = {n \in Own(p) \ Kept(p) : p \in Deletable}
  /\ UNCHANGED <<now, archives, checks, reading, made>>

RetentionDelete(n) ==
  /\ n \in purge /\ purge' = purge \ {n}
  /\ archives' \in {Without(archives, {n}), archives}
  /\ UNCHANGED <<now, checks, reading, made>>

-----------------------------------------------------------------------------
(* An archive that a restoration would be accepted from holds, as it is at *)
(* that moment, a whole world: whatever the verifier, the backup container *)
(* and an administrator do to the file between the listing, the reading    *)
(* and the recording of its verdict (_restore_archive_issues).             *)
AcceptedIsRestorable == \A n \in Names : GoodVerdict(n) => archives[n].content = "world"

(* Retention never leaves a month bare: a month in which a profile         *)
(* completed an archive that is not older than the retention still has one *)
(* of that profile, however many retentions ran since, and whatever they   *)
(* took for duplicates (backup_retention_plan, delete_archive).  A month   *)
(* is given up only when one of its archives is replaced by hand, or was   *)
(* being written: such a file counts as the newest of its month, though it *)
(* may fail and be removed, or be completed in the next month; and one     *)
(* that was listed as old before it was completed does not count.          *)
MonthsCovered ==
  \A x \in made : now - x[2] <= MonthlyAge =>
    \E n \in Own(x[1]) : Month(archives[n].at) = Month(x[2])

(* Archives without a verdict on their present version get one, unless     *)
(* they are changed again or removed: a reading that was overtaken or cut  *)
(* short and newer archives taken first only put it off                    *)
(* (ArchiveVerifier.tick).                                                 *)
AllVerified == \A n \in Names : Settled(n) => Matches(n)
EventuallyVerified == ~AllVerified ~> AllVerified
=============================================================================
