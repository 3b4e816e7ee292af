--------------------------- MODULE BackupsProofs ---------------------------
(***************************************************************************)
(* Backup profiles and their archives, for any profiles, archives,         *)
(* lengths of the day and of the month, and any retention; and how backups *)
(* and the other operations on the server are kept apart (Coordination).   *)
(***************************************************************************)
EXTENDS Backups, Coordination, WellFoundedInduction, TLAPS

(* A write leaves the old content or the new one: the new one when it is   *)
(* answered as done.                                                       *)
LEMMA WriteResult ==
  ASSUME NEW file, NEW old, NEW new, NEW w \in Writes(file, old, new)
  PROVE  w.data \in {old, new} /\ (w.ok => w.data = new)
<1>1. \/ w = [data |-> new, ok |-> TRUE]
      \/ w = [data |-> old, ok |-> FALSE] /\ file \in FailsBefore
      \/ w = [data |-> new, ok |-> FALSE] /\ file \in FailsAfter
  BY DEF Writes
<1>2. QED
  BY <1>1

(* Finite maps: an entry written, entries removed.                         *)
LEMMA WithResult ==
  ASSUME NEW f, NEW x, NEW y
  PROVE  /\ DOMAIN With(f, x, y) = DOMAIN f \cup {x} /\ With(f, x, y)[x] = y
         /\ \A z \in DOMAIN f \ {x} : With(f, x, y)[z] = f[z]
BY DEF With

LEMMA RestrictResult ==
  ASSUME NEW f, NEW S
  PROVE  /\ DOMAIN Restrict(f, S) = S /\ \A z \in S : Restrict(f, S)[z] = f[z]
BY DEF Restrict

LEMMA WithoutResult ==
  ASSUME NEW f, NEW S
  PROVE  /\ DOMAIN Without(f, S) = DOMAIN f \ S
         /\ \A z \in DOMAIN f \ S : Without(f, S)[z] = f[z]
BY RestrictResult DEF Without

(* A map whose values all have a type.                                     *)
Maps(f, X, Y) == DOMAIN f \subseteq X /\ \A x \in DOMAIN f : f[x] \in Y

LEMMA MapsRange ==
  ASSUME NEW f, NEW X, NEW Y
  PROVE  Maps(f, X, Y) <=> DOMAIN f \subseteq X /\ Range(f) \subseteq Y
BY DEF Maps, Range

LEMMA MapsWith ==
  ASSUME NEW f, NEW X, NEW Y, Maps(f, X, Y), NEW x \in X, NEW y \in Y
  PROVE  Maps(With(f, x, y), X, Y)
<1> DEFINE g == With(f, x, y)
<1>1. DOMAIN g = DOMAIN f \cup {x}
  BY WithResult
<1>2. g[x] = y /\ \A z \in DOMAIN f \ {x} : g[z] = f[z]
  BY DEF With
<1> HIDE DEF g
<1>3. Maps(g, X, Y)
  BY <1>1, <1>2 DEF Maps
<1>4. QED
  BY <1>3 DEF g

LEMMA MapsWithout ==
  ASSUME NEW f, NEW X, NEW Y, Maps(f, X, Y), NEW S
  PROVE  Maps(Without(f, S), X, Y)
<1> DEFINE g == Without(f, S)
<1>1. DOMAIN g = DOMAIN f \ S /\ \A z \in DOMAIN f \ S : g[z] = f[z]
  BY WithoutResult
<1> HIDE DEF g
<1>2. Maps(g, X, Y)
  BY <1>1 DEF Maps
<1>3. QED
  BY <1>2 DEF g

(* The identity of a version and the verdict on it.                        *)
LEMMA IdentityType ==
  ASSUME NEW a \in Archive
  PROVE  Identity(a) \in Identities /\ Identity(a)[1] = a.at /\ a.at \in 0..MaxTime
         /\ a.content \in Contents /\ a.dest \in Profiles
<1>1. a.at \in 0..MaxTime /\ a.content \in Contents /\ a.dest \in Profiles
  BY DEF Archive
<1>2. (a.content = "partial") \in BOOLEAN
  BY Zenon
<1>3. Identity(a) \in Identities
  BY <1>1, <1>2, Zenon DEF Identity, Identities
<1>4. QED
  BY <1>1, <1>3 DEF Identity

LEMMA VerdictType ==
  ASSUME NEW id \in Identities, NEW c
  PROVE  /\ Verdict(id, c) \in Check /\ Verdict(id, c).id = id
         /\ Verdict(id, c).restorable <=> c = "world"
<1>1. (c \notin {"partial", "gone"}) \in BOOLEAN /\ (c = "world") \in BOOLEAN
  BY Zenon
<1>2. Verdict(id, c) \in Check
  BY <1>1, Zenon DEF Verdict, Check
<1>3. Verdict(id, c).id = id
  BY DEF Verdict
<1>4. Verdict(id, c).restorable <=> c = "world"
  BY DEF Verdict
<1>5. QED
  BY <1>2, <1>3, <1>4

LEMMA ForgottenType ==
  ASSUME Maps(checks, Names, Check)
  PROVE  Maps(Forgotten, Names, Check) /\ \A n \in DOMAIN Forgotten : n \in DOMAIN checks /\ Forgotten[n] = checks[n]
<1> DEFINE g == Forgotten
<1>1. DOMAIN g = DOMAIN checks \cap Listed /\ \A n \in DOMAIN g : g[n] = checks[n]
  BY RestrictResult DEF Forgotten
<1> HIDE DEF g
<1>2. Maps(g, Names, Check) /\ \A n \in DOMAIN g : n \in DOMAIN checks /\ g[n] = checks[n]
  BY <1>1 DEF Maps
<1>3. QED
  BY <1>2 DEF g

-----------------------------------------------------------------------------
(* The archives and their verdicts are well typed.                         *)
ArchivesTyped ==
  /\ now \in Start..MaxTime /\ events \in 0..MaxEvents
  /\ Maps(archives, Names, Archive) /\ Maps(checks, Names, Check)
  /\ reading \in Reading \cup {NoReading} /\ purge \subseteq Names
  /\ made \subseteq Profiles \X (0..MaxTime)

LEMMA ArchivesTypedOK == ArchivesTyped <=> ArchivesTypeOK
BY MapsRange DEF ArchivesTyped, ArchivesTypeOK

LEMMA Numbers ==
  /\ {MaxArchives, Start, MaxTime, MaxEvents, KeepMonths, DayLength, MonthDays, KeepDays} \subseteq Nat
  /\ DayLength > 0 /\ MonthDays > 0 /\ KeepDays > 0 /\ Start <= MaxTime
  /\ ArchivesTyped => now \in Nat /\ now \in 0..MaxTime /\ Names \subseteq Nat
BY ArchivesAssumption DEF ArchivesTyped, Names

LEMMA EventType ==
  ASSUME ArchivesTyped, Event
  PROVE  events' \in 0..MaxEvents
BY Numbers DEF ArchivesTyped, Event

LEMMA SeedType ==
  ASSUME ArchivesInit
  PROVE  ArchivesTyped
<1>1. Maps(archives, Names, Archive)
  BY ArchivesAssumption DEF ArchivesInit, Maps
<1>2. \A n \in DOMAIN checks : checks[n] \in Check
  BY ArchivesAssumption, IdentityType, VerdictType DEF ArchivesInit
<1>3. DOMAIN checks = DOMAIN Seed
  BY DEF ArchivesInit
<1>4. made \subseteq Profiles \X (0..MaxTime)
  <2>1. \A a \in Range(Seed) : a \in Archive
    BY ArchivesAssumption DEF Range
  <2>2. QED
    BY <2>1 DEF ArchivesInit, Archive
<1>5. now \in Start..MaxTime /\ events \in 0..MaxEvents
  BY Numbers DEF ArchivesInit
<1>6. QED
  BY <1>1, <1>2, <1>3, <1>4, <1>5, ArchivesAssumption DEF ArchivesInit, ArchivesTyped, Maps

LEMMA ReplaceType ==
  ASSUME ArchivesTyped, NEW n \in Names, NEW c \in Contents, Replace(n, c)
  PROVE  ArchivesTyped'
<1>1. /\ n \in DOMAIN archives /\ archives' = With(archives, n, [archives[n] EXCEPT !.at = now, !.content = c])
      /\ UNCHANGED <<now, checks, reading, purge>> /\ made' \subseteq made
  BY DEF Replace, Put, MadeBut
<1>2. [archives[n] EXCEPT !.at = now, !.content = c] \in Archive
  <2>1. archives[n] \in Archive /\ now \in 0..MaxTime
    BY <1>1, Numbers DEF ArchivesTyped, Maps
  <2>2. QED
    BY <2>1 DEF Archive
<1>3. Maps(archives', Names, Archive)
  BY <1>1, <1>2, MapsWith DEF ArchivesTyped
<1>4. events' \in 0..MaxEvents
  BY EventType DEF Replace
<1>5. QED
  BY <1>1, <1>3, <1>4 DEF ArchivesTyped

LEMMA VerifyType ==
  ASSUME ArchivesTyped, UNCHANGED events,
         (\E n \in Names : VerifyPick(n)) \/ VerifyRead \/ VerifyRecord \/ VerifyIdle
  PROVE  ArchivesTyped'
<1>0. UNCHANGED <<now, archives, purge, made>>
  BY DEF VerifyPick, VerifyRead, VerifyRecord, VerifyIdle
<1>k. reading # NoReading => reading \in Reading
  BY DEF ArchivesTyped
<1>1. ASSUME NEW n \in Names, VerifyPick(n) PROVE ArchivesTyped'
  <2>1. PICK w \in Writes("checks", checks, Forgotten) :
          /\ checks' = w.data
          /\ reading' = IF w.ok THEN [name |-> n, id |-> Identity(archives[n]), result |-> "unread"]
                        ELSE NoReading
    BY <1>1 DEF VerifyPick
  <2>2. checks' \in {checks, Forgotten}
    BY <2>1, WriteResult
  <2>3. Maps(checks', Names, Check)
    BY <2>2, ForgottenType DEF ArchivesTyped
  <2>4. archives[n] \in Archive
    BY <1>1 DEF VerifyPick, Ripe, Settled, Listed, ArchivesTyped, Maps
  <2>5. reading' \in Reading \cup {NoReading}
    BY <2>1, <2>4, IdentityType DEF Reading
  <2>6. QED
    BY <1>0, <2>3, <2>5 DEF ArchivesTyped
<1>2. ASSUME VerifyRead PROVE ArchivesTyped'
  <2>1. UNCHANGED checks /\ reading \in Reading
    BY <1>2, <1>k DEF VerifyRead
  <2> DEFINE r == IF reading.name \in DOMAIN archives THEN archives[reading.name].content ELSE "gone"
  <2>2. reading' = [reading EXCEPT !.result = r]
    BY <1>2 DEF VerifyRead
  <2>3. r \in Contents \cup {"gone"}
    <3>1. CASE reading.name \in DOMAIN archives
      <4>1. archives[reading.name] \in Archive
        BY <3>1 DEF ArchivesTyped, Maps
      <4>2. QED
        BY <3>1, <4>1, IdentityType
    <3>2. CASE reading.name \notin DOMAIN archives
      BY <3>2
    <3>3. QED
      BY <3>1, <3>2
  <2> HIDE DEF r
  <2>4. reading' \in Reading
    BY <2>1, <2>2, <2>3 DEF Reading
  <2>5. QED
    BY <1>0, <2>1, <2>4 DEF ArchivesTyped
<1>3. ASSUME VerifyRecord PROVE ArchivesTyped'
  <2>1. reading \in Reading /\ reading' = NoReading
    BY <1>3, <1>k DEF VerifyRecord
  <2>2. reading.name \in Names /\ reading.id \in Identities
    BY <2>1 DEF Reading
  <2>3. Maps(With(checks, reading.name, Verdict(RecordedIdentity, reading.result)), Names, Check)
    BY <2>2, VerdictType, MapsWith DEF RecordedIdentity, IdentityListed, ArchivesTyped
  <2>4. checks' \in {checks, With(checks, reading.name, Verdict(RecordedIdentity, reading.result))}
    BY <1>3, WriteResult DEF VerifyRecord
  <2>5. Maps(checks', Names, Check)
    BY <2>3, <2>4 DEF ArchivesTyped
  <2>6. QED
    BY <1>0, <2>1, <2>5 DEF ArchivesTyped
<1>4. ASSUME VerifyIdle PROVE ArchivesTyped'
  <2>1. checks' = Forgotten /\ UNCHANGED reading
    BY <1>4 DEF VerifyIdle
  <2>2. Maps(checks', Names, Check)
    BY <2>1, ForgottenType DEF ArchivesTyped
  <2>3. QED
    BY <1>0, <2>1, <2>2 DEF ArchivesTyped
<1>5. QED
  BY <1>1, <1>2, <1>3, <1>4

LEMMA PlanType ==
  ASSUME ArchivesTyped, NEW p, RetentionPlan(p), events' \in 0..MaxEvents
  PROVE  ArchivesTyped'
<1>1. UNCHANGED <<now, archives, checks, reading, made>> /\ purge' \subseteq DOMAIN archives
  BY DEF RetentionPlan, Own, Listed
<1>2. QED
  BY <1>1 DEF ArchivesTyped, Maps

LEMMA DeleteType ==
  ASSUME ArchivesTyped, NEW n, RetentionDelete(n), UNCHANGED events
  PROVE  ArchivesTyped'
<1>1. UNCHANGED <<now, checks, reading, made>> /\ purge' \subseteq purge
      /\ archives' \in {Without(archives, {n}), archives}
  BY DEF RetentionDelete
<1>2. Maps(archives', Names, Archive)
  BY <1>1, MapsWithout DEF ArchivesTyped
<1>3. QED
  BY <1>1, <1>2 DEF ArchivesTyped

-----------------------------------------------------------------------------
(* The profiles, the requests, the container and what is told of it.       *)
Edits == [who : Profiles, to : Stored, new : BOOLEAN]
Runs == [read : BOOLEAN, job : Order, file : {0} \cup Names]
Outcomes == [who : Profiles, ok : BOOLEAN, whole : BOOLEAN]
Ticks == [who : Profiles \cup {NoOne}, due : SUBSET Profiles]
Times == {Never} \cup (0..MaxTime)

ProfilesTyped == Maps(profiles, Profiles, Stored) /\ edit \in Edits \cup {Idle}
RunTyped == run \in Runs \cup {Idle}
CycleTyped ==
  /\ startedAt \in [Profiles -> Times] /\ active \in Profiles \cup {NoOne}
  /\ outcome \in Outcomes \cup {Idle}
SchedTyped ==
  /\ sched \in Ticks \cup {Idle} /\ scan \in Profiles \cup {NoOne}
  /\ fired \in [Profiles -> Nat]
ExcusedTyped == excused \subseteq Profiles \X {"rewound", "overtaken"}

Typed == ArchivesTyped /\ ProfilesTyped /\ RunTyped /\ CycleTyped /\ SchedTyped /\ ExcusedTyped

LEMMA TypedOK == Typed <=> TypeOK
<1>1. ProfilesTyped <=> /\ DOMAIN profiles \subseteq Profiles /\ Range(profiles) \subseteq Stored
                        /\ edit \in Edits \cup {Idle}
  BY MapsRange DEF ProfilesTyped
<1>2. QED
  BY <1>1, ArchivesTypedOK DEF Typed, TypeOK, RunTyped, CycleTyped, SchedTyped, ExcusedTyped,
       Edits, Runs, Outcomes, Ticks, Times

LEMMA ProfileType ==
  ASSUME NEW c, c.plan \in {"none", "daily", "hours"}, c.keep \in BOOLEAN, c.full \in BOOLEAN,
         NEW enabled \in BOOLEAN, NEW last \in Times
  PROVE  Profile(c, enabled, last) \in Stored
BY Zenon DEF Profile, Stored, Times

LEMMA StoredFields ==
  ASSUME NEW r \in Stored
  PROVE  /\ r.plan \in {"none", "daily", "hours"} /\ r.keep \in BOOLEAN /\ r.full \in BOOLEAN
         /\ r.enabled \in BOOLEAN /\ r.last \in Times
BY Zenon DEF Stored, Times

LEMMA ConfigFields ==
  ASSUME NEW c \in Configs
  PROVE  c.plan \in {"none", "daily", "hours"} /\ c.keep \in BOOLEAN /\ c.full \in BOOLEAN
<1>1. c \in [plan : {"none", "daily", "hours"}, keep : BOOLEAN, full : BOOLEAN]
  BY BackupsAssumption
<1>2. QED
  BY <1>1, Zenon

(* A profile made anew is enabled and never ran.                           *)
LEMMA NewProfileType ==
  ASSUME NEW c \in Configs
  PROVE  Profile(c, TRUE, Never) \in Stored
<1>1. c.plan \in {"none", "daily", "hours"} /\ c.keep \in BOOLEAN /\ c.full \in BOOLEAN
  BY ConfigFields
<1>2. \A e \in BOOLEAN : Profile(c, e, Never) \in Stored
  BY <1>1, Zenon DEF Profile, Stored
<1>3. QED
  BY <1>2

LEMMA InitType == ASSUME Init PROVE Typed
<1>1. ArchivesTyped
  BY SeedType DEF Init
<1>2. Maps(profiles, Profiles, Stored)
  <2>1. DOMAIN profiles = DOMAIN Seeded
    BY DEF Init
  <2>2. ASSUME NEW p \in DOMAIN Seeded PROVE profiles[p] \in Stored
    <3>1. Seeded[p] \in Configs /\ profiles[p] = Profile(Seeded[p], TRUE, Never)
      BY <2>2, BackupsAssumption DEF Init, Range
    <3>2. QED
      BY <3>1, NewProfileType
  <2>3. QED
    BY <2>1, <2>2, BackupsAssumption DEF Maps
<1>3. QED
  BY <1>1, <1>2 DEF Init, Typed, ProfilesTyped, RunTyped, CycleTyped, SchedTyped, ExcusedTyped, Times

LEMMA ReadType ==
  ASSUME Typed, NEW p \in Profiles,
         ToggleRead(p) \/ \E c \in Configs : CreateRead(p, c) \/ UpdateRead(p, c)
  PROVE  edit' \in Edits
<1>1. ASSUME NEW c \in Configs, CreateRead(p, c) PROVE edit' \in Edits
  <2>1. Profile(c, TRUE, Never) \in Stored
    BY NewProfileType
  <2>2. QED
    BY <1>1, <2>1 DEF CreateRead, Edits
<1>2. ASSUME NEW c, c.plan \in {"none", "daily", "hours"}, c.keep \in BOOLEAN, c.full \in BOOLEAN,
             NEW enabled \in BOOLEAN, EditRead(p, c, enabled)
      PROVE  edit' \in Edits
  <2>1. profiles[p] \in Stored
    BY <1>2 DEF EditRead, Typed, ProfilesTyped, Maps
  <2>2. Profile(c, enabled, profiles[p].last) \in Stored
    BY <1>2, <2>1, StoredFields, ProfileType
  <2>3. QED
    BY <1>2, <2>2 DEF EditRead, Edits
<1>3. ASSUME p \in DOMAIN profiles
      PROVE  profiles[p].enabled \in BOOLEAN /\ (~profiles[p].enabled) \in BOOLEAN
             /\ Config(profiles[p]).plan \in {"none", "daily", "hours"}
             /\ Config(profiles[p]).keep \in BOOLEAN /\ Config(profiles[p]).full \in BOOLEAN
  <2>1. profiles[p] \in Stored
    BY <1>3 DEF Typed, ProfilesTyped, Maps
  <2>2. QED
    BY <2>1, StoredFields DEF Config
<1>4. CASE ToggleRead(p)
  <2>1. p \in DOMAIN profiles /\ EditRead(p, Config(profiles[p]), ~profiles[p].enabled)
    BY <1>4 DEF ToggleRead
  <2> DEFINE e == ~profiles[p].enabled
           c == Config(profiles[p])
  <2>2. /\ EditRead(p, c, e) /\ e \in BOOLEAN /\ c.plan \in {"none", "daily", "hours"}
        /\ c.keep \in BOOLEAN /\ c.full \in BOOLEAN
    BY <1>3, <2>1, Zenon
  <2> HIDE DEF e, c
  <2>3. QED
    BY <1>2, <2>2
<1>5. CASE \E c \in Configs : UpdateRead(p, c)
  BY <1>2, <1>3, <1>5, ConfigFields DEF UpdateRead
<1>6. QED
  BY <1>1, <1>4, <1>5

LEMMA TriggerType ==
  ASSUME Typed, NEW p \in Profiles, Trigger(p)
  PROVE  RunTyped' /\ CycleTyped' /\ ExcusedTyped'
<1>1. profiles[p] \in Stored
  BY DEF Trigger, Typed, ProfilesTyped, Maps
<1>2. [who |-> p, full |-> profiles[p].full] \in Order
  BY <1>1, StoredFields DEF Order
<1>3. Ordered(p) \in Runs \cup {Idle}
  BY <1>2 DEF Ordered, Typed, RunTyped, Runs
<1>4. RunTyped'
  BY <1>3 DEF Trigger, RunTyped
<1>5. now \in Times
  BY Numbers DEF Typed, Times
<1>6. CycleTyped'
  <2>1. CASE NewCycle(p)
    <3>1. active' = p /\ startedAt' = [startedAt EXCEPT ![p] = now] /\ outcome' = Idle
      BY <2>1 DEF Trigger
    <3>2. QED
      BY <1>5, <3>1 DEF CycleTyped, Typed
  <2>2. CASE ~NewCycle(p)
    BY <2>2 DEF Trigger, CycleTyped, Typed, cycleVars
  <2>3. QED
    BY <2>1, <2>2
<1>7. ExcusedTyped'
  BY DEF Trigger, ExcusedTyped, Typed
<1>8. QED
  BY <1>4, <1>6, <1>7

LEMMA WorkType ==
  ASSUME Typed, UNCHANGED <<events, now, checks, reading, purge>>,
         (\E n \in Names : OpenArchive(n)) \/ CloseArchive \/ FailBackup
  PROVE  ArchivesTyped' /\ RunTyped'
<1>r. run # Idle => run \in Runs /\ run.job \in Order /\ run.job.who \in Profiles /\ run.job.full \in BOOLEAN
  BY DEF Typed, RunTyped, Runs, Order
<1>n. now \in 0..MaxTime
  BY Numbers DEF Typed
<1>1. ASSUME NEW n \in Names, OpenArchive(n) PROVE ArchivesTyped' /\ RunTyped'
  <2>1. /\ archives' = With(archives, n, [dest |-> run.job.who, at |-> now, content |-> "partial"])
        /\ UNCHANGED made /\ run \in Runs /\ run' = [run EXCEPT !.file = n]
    BY <1>1, <1>r DEF OpenArchive, Put
  <2>2. [dest |-> run.job.who, at |-> now, content |-> "partial"] \in Archive
    BY <1>1, <1>r, <1>n DEF Archive, Contents, OpenArchive
  <2>3. Maps(archives', Names, Archive)
    BY <2>1, <2>2, MapsWith DEF Typed, ArchivesTyped
  <2>4. RunTyped'
    BY <2>1 DEF RunTyped, Runs
  <2>5. QED
    BY <2>1, <2>3, <2>4 DEF Typed, ArchivesTyped
<1>2. ASSUME CloseArchive PROVE ArchivesTyped' /\ RunTyped'
  <2> DEFINE c == IF run.job.full THEN "world" ELSE "files"
  <2>1. /\ run.file \in DOMAIN archives
        /\ archives' = With(archives, run.file, [archives[run.file] EXCEPT !.at = now, !.content = c])
        /\ run' = Idle
    BY <1>2 DEF CloseArchive, Put
  <2>2. made' \subseteq made \cup {<<run.job.who, now>>}
    BY <1>2 DEF CloseArchive, MadeWhenClosed, MadeBut
  <2>3. c \in Contents
    BY DEF Contents
  <2> HIDE DEF c
  <2>4. archives[run.file] \in Archive /\ run.file \in Names
    BY <2>1 DEF Typed, ArchivesTyped, Maps
  <2>5. [archives[run.file] EXCEPT !.at = now, !.content = c] \in Archive
    BY <2>3, <2>4, <1>n DEF Archive
  <2>6. Maps(archives', Names, Archive)
    BY <2>1, <2>4, <2>5, MapsWith DEF Typed, ArchivesTyped
  <2>7. made' \subseteq Profiles \X (0..MaxTime)
    BY <1>2, <2>2, <1>r, <1>n DEF Typed, ArchivesTyped, CloseArchive
  <2>8. QED
    BY <2>1, <2>6, <2>7 DEF Typed, ArchivesTyped, RunTyped
<1>3. ASSUME FailBackup PROVE ArchivesTyped' /\ RunTyped'
  <2>1. /\ run' = Idle /\ archives' \in {archives, Without(archives, {run.file})}
        /\ made' \subseteq made
    BY <1>3 DEF FailBackup, MadeBut
  <2>2. Maps(archives', Names, Archive)
    BY <2>1, MapsWithout DEF Typed, ArchivesTyped
  <2>3. QED
    BY <2>1, <2>2 DEF Typed, ArchivesTyped, RunTyped
<1>4. QED
  BY <1>1, <1>2, <1>3

LEMMA EditWriteType ==
  ASSUME Typed, EditWrite
  PROVE  ProfilesTyped' /\ SchedTyped' /\ ExcusedTyped'
<1>1. edit \in Edits /\ edit.who \in Profiles /\ edit.to \in Stored
  BY DEF EditWrite, Typed, ProfilesTyped, Edits
<1>2. profiles' \in {profiles, With(profiles, edit.who, edit.to)} /\ edit' = Idle
  BY WriteResult DEF EditWrite
<1>3. ProfilesTyped'
  <2>1. Maps(With(profiles, edit.who, edit.to), Profiles, Stored)
    BY <1>1, MapsWith DEF Typed, ProfilesTyped
  <2>2. Maps(profiles', Profiles, Stored)
    BY <1>2, <2>1 DEF Typed, ProfilesTyped
  <2>3. QED
    BY <1>2, <2>2 DEF ProfilesTyped
<1>4. UNCHANGED <<sched, scan>> /\ fired' \in {fired, [fired EXCEPT ![edit.who] = 0]}
  BY DEF EditWrite
<1>5. SchedTyped'
  BY <1>1, <1>4 DEF SchedTyped, Typed
<1>6. excused' \subseteq excused \cup {<<edit.who, "rewound">>}
  BY DEF EditWrite
<1>7. ExcusedTyped'
  BY <1>1, <1>6 DEF ExcusedTyped, Typed
<1>8. QED
  BY <1>3, <1>5, <1>7

LEMMA TickMarkType ==
  ASSUME Typed, NEW p \in Profiles, TickMark(p)
  PROVE  ProfilesTyped' /\ SchedTyped'
<1> DEFINE data == IF p \in DOMAIN profiles THEN Marked(p) ELSE profiles
<1>1. PICK w \in Writes("profiles", profiles, data) :
        /\ profiles' = w.data
        /\ sched' = CASE ~w.ok -> Idle
                      [] w.ok /\ p \in DOMAIN profiles /\ StartsCount(profiles[p]) -> Rest(p)
                      [] OTHER -> [sched EXCEPT !.who = p]
  BY DEF TickMark
<1>2. profiles' \in {profiles, data}
  BY <1>1, WriteResult
<1>3. Maps(data, Profiles, Stored)
  <2>1. CASE p \in DOMAIN profiles
    <3>1. data = [profiles EXCEPT ![p].last = now]
      BY <2>1 DEF Marked
    <3>2. profiles[p] \in Stored /\ now \in Times
      BY <2>1, Numbers DEF Typed, ProfilesTyped, Maps, Times
    <3>3. [profiles[p] EXCEPT !.last = now] \in Stored
      BY <3>2 DEF Stored, Times
    <3> HIDE DEF data
    <3>4. DOMAIN data = DOMAIN profiles /\ data[p] = [profiles[p] EXCEPT !.last = now]
          /\ \A q \in DOMAIN profiles : q # p => data[q] = profiles[q]
      BY <2>1, <3>1
    <3>5. QED
      BY <3>3, <3>4 DEF Typed, ProfilesTyped, Maps
  <2>2. CASE p \notin DOMAIN profiles
    BY <2>2 DEF Typed, ProfilesTyped
  <2>3. QED
    BY <2>1, <2>2
<1> HIDE DEF data
<1>4. ProfilesTyped'
  <2>1. UNCHANGED edit
    BY DEF TickMark
  <2>2. QED
    BY <1>2, <1>3, <2>1 DEF Typed, ProfilesTyped
<1>5. sched \in Ticks
  BY DEF TickMark, Typed, SchedTyped
<1>6. Rest(p) \in Ticks \cup {Idle} /\ [sched EXCEPT !.who = p] \in Ticks
  BY <1>5 DEF Rest, Ticks
<1>7. sched' = Idle \/ sched' = Rest(p) \/ sched' = [sched EXCEPT !.who = p]
  BY <1>1
<1>8. SchedTyped'
  <2>1. UNCHANGED <<scan, fired>>
    BY DEF TickMark, ghostVars
  <2>2. QED
    BY <1>6, <1>7, <2>1 DEF Typed, SchedTyped
<1>9. QED
  BY <1>4, <1>8

LEMMA TickTriggerType ==
  ASSUME Typed, TickTrigger
  PROVE  RunTyped' /\ CycleTyped' /\ SchedTyped' /\ ExcusedTyped'
<1>1. sched \in Ticks /\ sched.who \in Profiles
  BY DEF TickTrigger, Typed, SchedTyped, Ticks
<1>2. Rest(sched.who) \in Ticks \cup {Idle}
  BY <1>1 DEF Rest, Ticks
<1>3. sched' = Rest(sched.who) /\ UNCHANGED scan
  BY DEF TickTrigger
<1>4. CASE Trigger(sched.who) /\ fired' = [fired EXCEPT ![sched.who] = @ + 1]
  <2>1. RunTyped' /\ CycleTyped' /\ ExcusedTyped'
    BY <1>1, <1>4, TriggerType
  <2>2. fired' \in [Profiles -> Nat]
    BY <1>1, <1>4 DEF Typed, SchedTyped
  <2>3. QED
    BY <1>2, <1>3, <2>1, <2>2 DEF Typed, SchedTyped
<1>5. CASE UNCHANGED <<run, cycleVars, excused, fired>>
  BY <1>2, <1>3, <1>5 DEF Typed, RunTyped, CycleTyped, SchedTyped, ExcusedTyped, cycleVars
<1>6. QED
  BY <1>4, <1>5 DEF TickTrigger

LEMMA ConcludeType ==
  ASSUME Typed, NEW p \in Profiles, Conclude(p)
  PROVE  ArchivesTyped' /\ CycleTyped' /\ SchedTyped'
<1>1. /\ scan' = NoOne /\ startedAt' = [startedAt EXCEPT ![p] = Never]
      /\ UNCHANGED <<events, active, sched, fired>>
  BY DEF Conclude, ghostVars
<1>2. SchedTyped'
  BY <1>1 DEF Typed, SchedTyped
<1>3. startedAt' \in [Profiles -> Times] /\ active' \in Profiles \cup {NoOne}
  BY <1>1 DEF Typed, CycleTyped, Times
<1>4. ASSUME UNCHANGED archiveVars PROVE ArchivesTyped'
  BY <1>1, <1>4 DEF Typed, ArchivesTyped, archiveVars
<1>5. CASE startedAt[p] = Never
  BY <1>2, <1>3, <1>4, <1>5 DEF Conclude, Typed, CycleTyped
<1>6. CASE startedAt[p] # Never
  <2> DEFINE ok == ProducedSince(p) # {}
           whole == Completed(p) \/ UnderWay(p)
  <2>1. outcome' = [who |-> p, ok |-> ok, whole |-> whole]
    BY <1>6 DEF Conclude
  <2>2. ok \in BOOLEAN /\ whole \in BOOLEAN
    BY Zenon
  <2> HIDE DEF ok, whole
  <2>3. outcome' \in Outcomes
    BY <2>1, <2>2 DEF Outcomes
  <2>4. ArchivesTyped'
    <3>1. RetentionPlan(p) \/ UNCHANGED archiveVars
      BY <1>6 DEF Conclude
    <3>2. QED
      BY <1>1, <1>4, <3>1, PlanType DEF Typed, ArchivesTyped
  <2>5. QED
    BY <1>2, <1>3, <2>3, <2>4 DEF CycleTyped
<1>7. QED
  BY <1>5, <1>6

LEMMA KillType ==
  ASSUME Typed, Kill
  PROVE  Typed'
<1>1. /\ edit' = Idle /\ sched' = Idle /\ scan' = NoOne
      /\ startedAt' = [p \in Profiles |-> Never] /\ active' = NoOne /\ outcome' = Idle
      /\ reading' = NoReading /\ purge' = {} /\ excused' \subseteq excused
      /\ UNCHANGED <<now, archives, checks, made, profiles, run, fired>>
  BY DEF Kill
<1>2. ArchivesTyped'
  BY <1>1, EventType DEF Kill, Typed, ArchivesTyped
<1>3. CycleTyped'
  BY <1>1 DEF CycleTyped, Times
<1>4. QED
  BY <1>1, <1>2, <1>3 DEF Typed, ProfilesTyped, RunTyped, SchedTyped, ExcusedTyped

LEMMA AdvanceType ==
  ASSUME Typed, Advance
  PROVE  Typed'
<1>1. /\ now < MaxTime /\ now' = now + 1
      /\ fired' \in {fired, [p \in Profiles |-> 0]} /\ excused' \subseteq excused
      /\ UNCHANGED <<events, archives, checks, reading, purge, made, profiles, edit, run,
                     startedAt, active, outcome, sched, scan>>
  BY DEF Advance, profileVars, cycleVars
<1>2. ArchivesTyped'
  BY <1>1, Numbers DEF Typed, ArchivesTyped
<1>3. SchedTyped'
  BY <1>1 DEF Typed, SchedTyped
<1>4. QED
  BY <1>1, <1>2, <1>3 DEF Typed, ProfilesTyped, RunTyped, CycleTyped, ExcusedTyped

(* The type invariant holds through every step.                            *)
LEMMA NextType ==
  ASSUME Typed, [Next]_vars
  PROVE  Typed'
<1> USE DEF Typed
<1>a. ASSUME UNCHANGED <<archiveVars, events>> PROVE ArchivesTyped'
  BY <1>a DEF ArchivesTyped, archiveVars
<1>b. ASSUME UNCHANGED archiveVars, Event PROVE ArchivesTyped'
  BY <1>b, EventType DEF ArchivesTyped, archiveVars
<1>c. ASSUME UNCHANGED profileVars PROVE ProfilesTyped'
  BY <1>c DEF ProfilesTyped, profileVars
<1>d. ASSUME UNCHANGED run PROVE RunTyped'
  BY <1>d DEF RunTyped
<1>e. ASSUME UNCHANGED cycleVars PROVE CycleTyped'
  BY <1>e DEF CycleTyped, cycleVars
<1>f. ASSUME UNCHANGED <<sched, scan, fired>> PROVE SchedTyped'
  BY <1>f DEF SchedTyped
<1>g. ASSUME UNCHANGED excused PROVE ExcusedTyped'
  BY <1>g DEF ExcusedTyped
<1>h. ASSUME UNCHANGED NotArchives
      PROVE  UNCHANGED <<profileVars, run, cycleVars, sched, scan, fired, excused, events>>
  BY <1>h DEF NotArchives, profileVars, cycleVars, ghostVars
<1>0. CASE UNCHANGED vars
  BY <1>0, <1>a, <1>c, <1>d, <1>e, <1>f, <1>g DEF vars, archiveVars, profileVars, cycleVars, ghostVars
<1>1. CASE Request
  <2>1. edit' \in Edits /\ UNCHANGED profiles
    BY <1>1, ReadType DEF Request
  <2>2. ProfilesTyped'
    BY <2>1 DEF ProfilesTyped
  <2>3. QED
    BY <1>1, <1>b, <1>d, <1>e, <1>f, <1>g, <2>2 DEF Request, ghostVars
<1>2. CASE EditWrite
  BY <1>2, <1>a, <1>d, <1>e, EditWriteType DEF EditWrite
<1>3. CASE Dismiss
  <2>1. CycleTyped'
    BY <1>3 DEF Dismiss, CycleTyped
  <2>2. QED
    BY <1>3, <1>a, <1>c, <1>d, <1>f, <1>g, <2>1 DEF Dismiss, ghostVars
<1>4. ASSUME NEW p \in Profiles, Delete(p) PROVE Typed'
  <2>1. profiles' \in {profiles, Without(profiles, {p})} /\ UNCHANGED edit
    BY <1>4, WriteResult DEF Delete
  <2>2. ProfilesTyped'
    BY <2>1, MapsWithout DEF ProfilesTyped
  <2>3. QED
    BY <1>4, <1>b, <1>d, <1>e, <1>f, <1>g, <2>2 DEF Delete, ghostVars
<1>5. ASSUME NEW p \in Profiles, TriggerBackup(p) PROVE Typed'
  BY <1>5, <1>b, <1>c, <1>f, TriggerType DEF TriggerBackup
<1>6. ASSUME NEW p \in Profiles, Retention(p) PROVE Typed'
  BY <1>6, <1>c, <1>d, <1>e, <1>f, <1>g, PlanType, EventType DEF Retention, ghostVars
<1>7. ASSUME NEW p \in Profiles, TickMark(p) PROVE Typed'
  BY <1>7, <1>a, <1>d, <1>e, <1>g, TickMarkType DEF TickMark, ghostVars
<1>8. CASE TickList
  <2>1. sched' \in Ticks /\ UNCHANGED <<scan, fired>>
    BY <1>8 DEF TickList, Ticks, ProfilesTyped, Maps, ghostVars
  <2>2. SchedTyped'
    BY <2>1 DEF SchedTyped
  <2>3. QED
    BY <1>8, <1>a, <1>c, <1>d, <1>e, <1>g, <2>2 DEF TickList, ghostVars
<1>9. CASE TickTrigger
  BY <1>9, <1>a, <1>c, TickTriggerType DEF TickTrigger
<1>10. CASE Source
  <2>1. RunTyped'
    BY <1>10 DEF Source, RunTyped, Runs
  <2>2. QED
    BY <1>10, <1>a, <1>c, <1>e, <1>f, <1>g, <2>1 DEF Source, ghostVars
<1>11. CASE (\E n \in Names : OpenArchive(n)) \/ CloseArchive \/ FailBackup
  <2>1. /\ UNCHANGED <<events, now, checks, reading, purge>>
        /\ UNCHANGED <<profileVars, cycleVars, sched, scan, ghostVars>>
    BY <1>11 DEF OpenArchive, CloseArchive, FailBackup
  <2>2. QED
    BY <1>11, <1>c, <1>e, <1>f, <1>g, <2>1, WorkType DEF ghostVars
<1>12. ASSUME NEW p \in Profiles, ScanSee(p) PROVE Typed'
  <2>1. SchedTyped'
    BY <1>12 DEF ScanSee, SchedTyped, ghostVars
  <2>2. QED
    BY <1>12, <1>a, <1>c, <1>d, <1>e, <1>g, <2>1 DEF ScanSee, ghostVars
<1>13. ASSUME NEW p \in Profiles, Conclude(p) PROVE Typed'
  BY <1>13, <1>c, <1>d, <1>g, ConcludeType DEF Conclude, ghostVars
<1>14. CASE Verify \/ (VerifyIdle /\ UNCHANGED NotArchives)
  BY <1>14, <1>c, <1>d, <1>e, <1>f, <1>g, <1>h, VerifyType DEF Verify
<1>15. ASSUME NEW n \in Names, RetentionDelete(n), UNCHANGED NotArchives PROVE Typed'
  BY <1>15, <1>c, <1>d, <1>e, <1>f, <1>g, <1>h, DeleteType
<1>16. ASSUME NEW n \in Names, NEW c \in Contents, ReplaceByHand(n, c) PROVE Typed'
  BY <1>16, <1>c, <1>d, <1>e, <1>f, <1>g, ReplaceType DEF ReplaceByHand, ghostVars
<1>17. CASE Advance
  BY <1>17, AdvanceType
<1>18. CASE Kill
  BY <1>18, KillType
<1>19. QED
  BY <1>0, <1>1, <1>2, <1>3, <1>4, <1>5, <1>6, <1>7, <1>8, <1>9, <1>10, <1>11, <1>12, <1>13,
     <1>14, <1>15, <1>16, <1>17, <1>18 DEF Next, Work, Scan

(* Profiles, archives, verdicts and cycles always have their form, through *)
(* concurrent edits, failed writes of the file of profiles and stops of    *)
(* mc-admin: no step marks a profile that is gone, and none counts an      *)
(* archive of nobody (adapters/backup_profiles.py, backup_archives.py).    *)
THEOREM BackupsTyped == Spec => []TypeOK
<1>1. Init => Typed
  BY InitType
<1>2. Typed /\ [Next]_vars => Typed'
  BY NextType
<1>3. Typed => TypeOK
  BY TypedOK
<1>4. QED
  BY <1>1, <1>2, <1>3, PTL DEF Spec

-----------------------------------------------------------------------------
(* An archive that changes is dated now: whatever the step, every archive  *)
(* after it is one there was, as it was, or one written at this moment.    *)
Dated == \A n \in DOMAIN archives : archives[n].at <= now

Rewritten ==
  /\ now' = now
  /\ \A n \in DOMAIN archives' :
       archives'[n].at = now \/ (n \in DOMAIN archives /\ archives'[n] = archives[n])

LEMMA Changes ==
  ASSUME Typed, [Next]_vars
  PROVE  Rewritten \/ (now' = now + 1 /\ UNCHANGED <<archives, checks, reading>>)
<1>a. ASSUME UNCHANGED <<now, archives>> PROVE Rewritten
  BY <1>a DEF Rewritten
<1>b. ASSUME NEW n, NEW a \in Archive, archives' = With(archives, n, a), a.at = now, UNCHANGED now PROVE Rewritten
  <2>1. DOMAIN archives' = DOMAIN archives \cup {n} /\ archives'[n] = a
    BY <1>b DEF With
  <2>2. \A m \in DOMAIN archives \ {n} : archives'[m] = archives[m]
    BY <1>b DEF With
  <2>3. ASSUME NEW m \in DOMAIN archives'
        PROVE  archives'[m].at = now \/ (m \in DOMAIN archives /\ archives'[m] = archives[m])
    <3>1. CASE m = n
      <4>1. archives'[m] = a /\ a.at = now
        BY <1>b, <2>1, <3>1
      <4>2. QED
        BY <4>1 DEF Archive
    <3>2. CASE m # n
      BY <2>1, <2>2, <2>3, <3>2
    <3>3. QED
      BY <3>1, <3>2
  <2>4. QED
    BY <1>b, <2>3 DEF Rewritten
<1>c. ASSUME DOMAIN archives' \subseteq DOMAIN archives, UNCHANGED now,
             \A m \in DOMAIN archives' : archives'[m] = archives[m]
      PROVE  Rewritten
  BY <1>c DEF Rewritten
<1>d. ASSUME NEW n, n \in DOMAIN archives, NEW c \in Contents,
             archives' = With(archives, n, [archives[n] EXCEPT !.at = now, !.content = c]), UNCHANGED now
      PROVE  Rewritten
  <2>1. archives[n] \in Archive /\ now \in 0..MaxTime
    BY <1>d, Numbers DEF Typed, ArchivesTyped, Maps
  <2>2. /\ [archives[n] EXCEPT !.at = now, !.content = c] \in Archive
        /\ [archives[n] EXCEPT !.at = now, !.content = c].at = now
    BY <1>d, <2>1 DEF Archive
  <2>3. QED
    BY <1>b, <1>d, <2>2
<1>0. CASE UNCHANGED vars
  BY <1>0, <1>a DEF vars, archiveVars
<1>1. CASE \/ Request \/ EditWrite \/ Dismiss \/ TickList \/ TickTrigger \/ Source
           \/ \E p \in Profiles : Delete(p) \/ TriggerBackup(p) \/ TickMark(p) \/ ScanSee(p)
  <2>1. UNCHANGED archiveVars
    BY <1>1 DEF Request, EditWrite, Dismiss, TickList, TickTrigger, Source, Delete, TriggerBackup,
         TickMark, ScanSee
  <2>2. QED
    BY <1>a, <2>1 DEF archiveVars
<1>2. CASE Verify \/ VerifyIdle \/ Kill \/ \E p \in Profiles : Retention(p) \/ Conclude(p)
  <2>1. UNCHANGED <<now, archives>>
    BY <1>2 DEF Verify, VerifyPick, VerifyRead, VerifyRecord, VerifyIdle, Kill, Retention, Conclude,
         RetentionPlan, archiveVars
  <2>2. QED
    BY <1>a, <2>1
<1>3. ASSUME NEW n \in Names, OpenArchive(n) PROVE Rewritten
  <2>1. archives' = With(archives, n, [dest |-> run.job.who, at |-> now, content |-> "partial"])
        /\ UNCHANGED now
    BY <1>3 DEF OpenArchive, Put
  <2>2. [dest |-> run.job.who, at |-> now, content |-> "partial"] \in Archive
    <3>1. run.job.who \in Profiles /\ now \in 0..MaxTime
      BY <1>3, Numbers DEF OpenArchive, Typed, RunTyped, Runs, Order
    <3>2. QED
      BY <3>1 DEF Archive, Contents
  <2>3. QED
    BY <1>b, <2>1, <2>2
<1>4. CASE CloseArchive
  <2>1. (IF run.job.full THEN "world" ELSE "files") \in Contents
    BY DEF Contents
  <2>2. QED
    BY <1>4, <1>d, <2>1 DEF CloseArchive, Put
<1>5. CASE FailBackup
  <2>1. archives' = archives \/ archives' = Without(archives, {run.file})
    BY <1>5 DEF FailBackup
  <2>2. DOMAIN archives' \subseteq DOMAIN archives /\ \A m \in DOMAIN archives' : archives'[m] = archives[m]
    BY <2>1 DEF Without, Restrict
  <2>3. QED
    BY <1>5, <1>c, <2>2 DEF FailBackup
<1>6. ASSUME NEW n \in Names, RetentionDelete(n) PROVE Rewritten
  <2>1. archives' = archives \/ archives' = Without(archives, {n})
    BY <1>6 DEF RetentionDelete
  <2>2. DOMAIN archives' \subseteq DOMAIN archives /\ \A m \in DOMAIN archives' : archives'[m] = archives[m]
    BY <2>1 DEF Without, Restrict
  <2>3. QED
    BY <1>6, <1>c, <2>2 DEF RetentionDelete
<1>7. ASSUME NEW n \in Names, NEW c \in Contents, ReplaceByHand(n, c) PROVE Rewritten
  BY <1>7, <1>d DEF ReplaceByHand, Replace, Put
<1>8. CASE Advance
  BY <1>8 DEF Advance
<1>9. QED
  BY <1>0, <1>1, <1>2, <1>3, <1>4, <1>5, <1>6, <1>7, <1>8 DEF Next, Work, Scan

LEMMA DatedNext ==
  ASSUME Typed, Dated, [Next]_vars
  PROVE  Dated'
<1>1. now \in Int
  BY Numbers DEF Typed
<1>2. \A n \in DOMAIN archives : archives[n].at \in Int
  BY DEF Typed, ArchivesTyped, Maps, Archive
<1>3. QED
  BY <1>1, <1>2, Changes DEF Dated, Rewritten

(* A verdict, recorded or about to be, on the version id of archive n: it  *)
(* is older than now, and good only when that version is still there and   *)
(* whole, or is gone.                                                      *)
Fits(id, n, good, t, files) ==
  /\ id[1] < t
  /\ n \in DOMAIN files /\ id = Identity(files[n]) /\ good => files[n].content = "world"

Verified ==
  /\ \A n \in DOMAIN checks : Fits(checks[n].id, n, checks[n].restorable, now, archives)
  /\ reading # NoReading =>
       Fits(reading.id, reading.name, reading.result = "world", now, archives)

LEMMA FitsStill ==
  ASSUME Typed, [Next]_vars, NEW id \in Identities, NEW n, NEW good, Fits(id, n, good, now, archives)
  PROVE  Fits(id, n, good, now', archives')
<1>1. now \in Int /\ id[1] \in Int
  BY Numbers DEF Typed, Identities
<1>2. id[1] < now'
  BY <1>1, Changes DEF Fits, Rewritten
<1>3. ASSUME n \in DOMAIN archives', id = Identity(archives'[n]), good PROVE archives'[n].content = "world"
  <2>1. archives'[n].at # now
    BY <1>1, <1>3 DEF Fits, Identity
  <2>2. n \in DOMAIN archives /\ archives'[n] = archives[n]
    BY <1>3, <2>1, Changes DEF Rewritten
  <2>3. QED
    BY <1>3, <2>2 DEF Fits
<1>4. QED
  BY <1>2, <1>3 DEF Fits

(* What happens to the verdicts in a step.                                 *)
LEMMA VerifiedNext ==
  ASSUME Typed, Verified, [Next]_vars
  PROVE  Verified'
<1> USE DEF Typed
<1>a. \A n \in DOMAIN checks : checks[n].id \in Identities /\ n \in Names
  BY DEF ArchivesTyped, Maps, Check
<1>b. \A n \in DOMAIN checks : Fits(checks[n].id, n, checks[n].restorable, now', archives')
  BY <1>a, FitsStill DEF Verified
<1>c. reading # NoReading => Fits(reading.id, reading.name, reading.result = "world", now', archives')
  <2>1. ASSUME reading # NoReading PROVE reading.id \in Identities
    BY <2>1 DEF ArchivesTyped, Reading
  <2>2. QED
    BY <2>1, FitsStill DEF Verified
<1>d. \A n \in DOMAIN Forgotten : Fits(Forgotten[n].id, n, Forgotten[n].restorable, now', archives')
  BY <1>b, ForgottenType DEF ArchivesTyped
<1>1. ASSUME UNCHANGED <<checks, reading>> PROVE Verified'
  BY <1>1, <1>b, <1>c DEF Verified
<1>2. ASSUME NEW n \in Names, VerifyPick(n) PROVE Verified'
  <2>1. PICK w \in Writes("checks", checks, Forgotten) :
          /\ checks' = w.data
          /\ reading' = IF w.ok THEN [name |-> n, id |-> Identity(archives[n]), result |-> "unread"]
                        ELSE NoReading
    BY <1>2 DEF VerifyPick
  <2>2. checks' \in {checks, Forgotten}
    BY <2>1, WriteResult
  <2>3. \A m \in DOMAIN checks' : Fits(checks'[m].id, m, checks'[m].restorable, now', archives')
    BY <2>2, <1>b, <1>d
  <2>4. Fits(Identity(archives[n]), n, FALSE, now', archives')
    <3>1. n \in DOMAIN archives /\ archives[n].at < now /\ UNCHANGED <<now, archives>>
      BY <1>2 DEF VerifyPick, Ripe, Settled, Listed
    <3>2. QED
      BY <3>1 DEF Fits, Identity
  <2>5. ASSUME reading' # NoReading
        PROVE  Fits(reading'.id, reading'.name, reading'.result = "world", now', archives')
    <3>1. reading'.id = Identity(archives[n]) /\ reading'.name = n /\ reading'.result # "world"
      BY <2>1, <2>5
    <3>2. QED
      BY <2>4, <3>1 DEF Fits
  <2>6. QED
    BY <2>3, <2>5 DEF Verified
<1>3. CASE VerifyRead
  <2>1. UNCHANGED <<now, archives, checks>> /\ reading # NoReading /\ reading \in Reading
    BY <1>3 DEF VerifyRead, ArchivesTyped
  <2> DEFINE r == IF reading.name \in DOMAIN archives THEN archives[reading.name].content ELSE "gone"
  <2>2. reading'.id = reading.id /\ reading'.name = reading.name /\ reading'.result = r
    BY <1>3, <2>1 DEF VerifyRead, Reading
  <2>3. reading.name \in DOMAIN archives => r = archives[reading.name].content
    OBVIOUS
  <2> HIDE DEF r
  <2>4. Fits(reading'.id, reading'.name, reading'.result = "world", now', archives')
    BY <2>1, <2>2, <2>3 DEF Fits, Verified
  <2>5. QED
    BY <1>b, <2>1, <2>4 DEF Verified
<1>4. CASE VerifyRecord
  <2> DEFINE v == Verdict(reading.id, reading.result)
           new == With(checks, reading.name, v)
  <2>1. UNCHANGED <<now, archives>> /\ reading # NoReading /\ reading \in Reading /\ reading' = NoReading
    BY <1>4 DEF VerifyRecord, ArchivesTyped
  <2>2. checks' \in {checks, new}
    BY <1>4, WriteResult DEF VerifyRecord, RecordedIdentity, IdentityListed
  <2>3. v.id = reading.id /\ (v.restorable <=> reading.result = "world")
    <3>1. reading.id \in Identities
      BY <2>1 DEF Reading
    <3>2. QED
      BY <3>1, VerdictType
  <2>4. DOMAIN new = DOMAIN checks \cup {reading.name} /\ new[reading.name] = v
    BY DEF With
  <2>5. \A m \in DOMAIN checks \ {reading.name} : new[m] = checks[m]
    BY DEF With
  <2> HIDE DEF v, new
  <2>6. Fits(v.id, reading.name, v.restorable, now', archives')
    BY <1>c, <2>1, <2>3 DEF Fits
  <2>7. \A m \in DOMAIN new : Fits(new[m].id, m, new[m].restorable, now', archives')
    BY <2>4, <2>5, <2>6, <1>b
  <2>8. QED
    BY <2>1, <2>2, <2>7, <1>b DEF Verified
<1>5. CASE VerifyIdle
  BY <1>5, <1>c, <1>d DEF VerifyIdle, Verified
<1>6. CASE Kill
  BY <1>6, <1>b DEF Kill, Verified
<1>7. CASE UNCHANGED vars
  BY <1>1, <1>7 DEF vars, archiveVars
<1>8. CASE \/ Request \/ EditWrite \/ Dismiss \/ TickList \/ TickTrigger \/ Source \/ Advance
           \/ CloseArchive \/ FailBackup \/ \E n \in Names : OpenArchive(n) \/ RetentionDelete(n)
  BY <1>1, <1>8 DEF Request, EditWrite, Dismiss, TickList, TickTrigger, Source, Advance,
       CloseArchive, FailBackup, OpenArchive, RetentionDelete, archiveVars
<1>9. CASE \/ \E p \in Profiles : Delete(p) \/ TriggerBackup(p) \/ TickMark(p) \/ ScanSee(p)
                                  \/ Retention(p) \/ Conclude(p)
           \/ \E n \in Names : \E c \in Contents : ReplaceByHand(n, c)
  BY <1>1, <1>9 DEF Delete, TriggerBackup, TickMark, ScanSee, Retention, Conclude, RetentionPlan,
       ReplaceByHand, Replace, archiveVars
<1>10. QED
  BY <1>2, <1>3, <1>4, <1>5, <1>6, <1>7, <1>8, <1>9 DEF Next, Work, Scan, Verify

LEMMA VerifiedInit ==
  ASSUME Init
  PROVE  Verified /\ Dated
<1>1. /\ now = Start /\ archives = Seed /\ reading = NoReading
      /\ checks = [n \in DOMAIN Seed |-> Verdict(Identity(Seed[n]), Seed[n].content)]
  BY DEF Init, ArchivesInit
<1>2. ASSUME NEW n \in DOMAIN Seed
      PROVE  /\ Seed[n].at < Start /\ Seed[n].at \in Int /\ Start \in Int
             /\ Fits(checks[n].id, n, checks[n].restorable, now, archives)
  <2>1. Seed[n] \in Archive /\ Seed[n].at < Start /\ Start \in Int
    BY <1>2, ArchivesAssumption
  <2>2. Identity(Seed[n]) \in Identities /\ Identity(Seed[n])[1] = Seed[n].at /\ Seed[n].at \in Int
    BY <2>1, IdentityType
  <2>3. checks[n].id = Identity(Seed[n]) /\ (checks[n].restorable <=> Seed[n].content = "world")
    BY <1>1, <1>2, <2>2, VerdictType
  <2>4. QED
    BY <1>1, <2>1, <2>2, <2>3 DEF Fits
<1>3. QED
  BY <1>1, <1>2 DEF Verified, Dated

(* A restoration is only accepted from an archive that is, at that moment, *)
(* a whole world: the verdict belongs to the version on disk, whatever     *)
(* happened to the file between its listing, its reading and the recording *)
(* of the verdict, with writes of the file of verdicts that fail           *)
(* (ArchiveVerifier.tick, _restore_archive_issues).                        *)
THEOREM AcceptedOnlyWhole == Spec => []AcceptedIsRestorable
<1>1. Init => Typed /\ Verified
  BY InitType, VerifiedInit
<1>2. Typed /\ Verified /\ [Next]_vars => (Typed /\ Verified)'
  BY NextType, VerifiedNext
<1>3. Verified => AcceptedIsRestorable
  BY DEF Verified, Fits, AcceptedIsRestorable, GoodVerdict, Matches, Listed
<1>4. QED
  BY <1>1, <1>2, <1>3, PTL DEF Spec

-----------------------------------------------------------------------------
(* A set of numbers up to a bound has a largest one, and a set of archives *)
(* a newest one.                                                           *)
LEMMA Largest ==
  ASSUME NEW N \in Nat, NEW T, T \subseteq 0..N, T # {}
  PROVE  \E x \in T : \A y \in T : y <= x
<1> DEFINE U == {N - y : y \in T}
         Less == {ss \in Nat \X Nat : ss[1] < ss[2]}
<1>0. IsWellFoundedOn(Less, Nat)
  BY NatLessThanWellFounded, Zenon DEF OpToRel
<1>u. PICK z \in T : TRUE
  OBVIOUS
<1>v. N - z \in U
  BY <1>u
<1>1. U \subseteq Nat /\ U # {}
  BY <1>v
<1>w. \A v \in Nat : \A w \in Nat : v < w => <<v, w>> \in Less
  BY Zenon
<1> HIDE DEF U, Less
<1>2. PICK u \in U : \A v \in U : ~(<<v, u>> \in Less)
  BY <1>0, <1>1, WFMin, Zenon
<1>3. \A v \in U : u <= v
  <2>1. ASSUME NEW v \in U PROVE ~(v < u)
    BY <1>1, <1>2, <1>w, <2>1, Zenon
  <2>2. QED
    BY <1>1, <2>1
<1>4. PICK x \in T : u = N - x
  BY DEF U
<1>5. \A y \in T : N - y \in U
  BY DEF U
<1>6. \A y \in T : y <= x
  BY <1>3, <1>4, <1>5
<1>7. QED
  BY <1>6

LEMMA Newest ==
  ASSUME Typed, NEW S, S \subseteq DOMAIN archives, S # {}
  PROVE  \E n \in S : \A m \in S : ~Newer(m, n)
<1>a. MaxTime \in Nat /\ MaxArchives \in Nat
  BY Numbers
<1>b. \A n \in S : n \in 0..MaxArchives /\ archives[n].at \in 0..MaxTime
  BY DEF Typed, ArchivesTyped, Maps, Archive, Names
<1> DEFINE T == {archives[n].at : n \in S}
<1>1. T \subseteq 0..MaxTime /\ T # {}
  BY <1>b
<1>2. PICK t \in T : \A u \in T : u <= t
  BY <1>1, <1>a, Largest
<1> DEFINE R == {n \in S : archives[n].at = t}
<1>3. R \subseteq 0..MaxArchives /\ R # {}
  BY <1>b
<1>4. PICK n \in R : \A m \in R : m <= n
  BY <1>3, <1>a, Largest
<1>5. \A m \in S : archives[m].at <= archives[n].at /\ (archives[m].at = archives[n].at => m <= n)
  BY <1>2, <1>4
<1>6. QED
  BY <1>4, <1>5, <1>b DEF Newer

-----------------------------------------------------------------------------
(* The archive the container writes is in the folder of the profile whose  *)
(* order it read: it has none before it has read one.                      *)
OwnFile ==
  run # Idle => /\ ~run.read => run.file = 0
                /\ run.file \in DOMAIN archives => archives[run.file].dest = run.job.who

LEMMA OwnFileTrigger ==
  ASSUME Typed, OwnFile, NEW p \in Profiles, Trigger(p), UNCHANGED archives
  PROVE  OwnFile'
<1>1. 0 \notin DOMAIN archives
  BY Numbers DEF Typed, ArchivesTyped, Maps, Names
<1>2. run' = Ordered(p)
  BY DEF Trigger
<1>3. CASE run = Idle
  <2>1. run'.file = 0
    BY <1>2, <1>3 DEF Ordered
  <2>2. QED
    BY <1>1, <2>1 DEF OwnFile
<1>4. CASE run # Idle
  <2>1. run \in Runs
    BY <1>4 DEF Typed, RunTyped
  <2>2. CASE run.read
    BY <1>2, <1>4, <2>2 DEF Ordered, OwnFile
  <2>3. CASE ~run.read
    <3>1. run' = [run EXCEPT !.job = [who |-> p, full |-> profiles[p].full]]
      BY <1>2, <1>4, <2>3 DEF Ordered
    <3>2. run'.file = run.file /\ run.file = 0
      BY <1>4, <2>1, <2>3, <3>1 DEF Runs, OwnFile
    <3>3. QED
      BY <1>1, <3>2 DEF OwnFile
  <2>4. QED
    BY <2>2, <2>3
<1>5. QED
  BY <1>3, <1>4

LEMMA OwnFileNext ==
  ASSUME Typed, OwnFile, [Next]_vars
  PROVE  OwnFile'
<1>a. ASSUME UNCHANGED <<run, archives>> PROVE OwnFile'
  BY <1>a DEF OwnFile
<1>b. ASSUME UNCHANGED run, DOMAIN archives' \subseteq DOMAIN archives,
             \A m \in DOMAIN archives' : archives'[m].dest = archives[m].dest
      PROVE  OwnFile'
  BY <1>b DEF OwnFile
<1>0. CASE UNCHANGED vars
  BY <1>0, <1>a DEF vars, archiveVars
<1>1. CASE \/ Request \/ EditWrite \/ Dismiss \/ TickList \/ Advance \/ Kill
           \/ Verify \/ (VerifyIdle /\ UNCHANGED NotArchives)
           \/ \E p \in Profiles : Delete(p) \/ TickMark(p) \/ ScanSee(p) \/ Retention(p) \/ Conclude(p)
  <2>1. UNCHANGED <<run, archives>>
    BY <1>1 DEF Request, EditWrite, Dismiss, TickList, Advance, Kill, Verify, VerifyPick, VerifyRead,
         VerifyRecord, VerifyIdle, NotArchives, Delete, TickMark, ScanSee, Retention, Conclude,
         RetentionPlan, archiveVars
  <2>2. QED
    BY <1>a, <2>1
<1>2. ASSUME NEW p \in Profiles, TriggerBackup(p) PROVE OwnFile'
  BY <1>2, OwnFileTrigger DEF TriggerBackup, archiveVars
<1>3. CASE TickTrigger
  <2>1. sched.who \in Profiles /\ UNCHANGED archives
    BY <1>3 DEF TickTrigger, Typed, SchedTyped, Ticks, archiveVars
  <2>2. CASE Trigger(sched.who)
    BY <2>1, <2>2, OwnFileTrigger
  <2>3. CASE UNCHANGED run
    BY <1>a, <2>1, <2>3
  <2>4. QED
    BY <1>3, <2>2, <2>3 DEF TickTrigger
<1>4. CASE Source
  <2>1. run \in Runs /\ ~run.read /\ run # Idle /\ UNCHANGED archives
    BY <1>4 DEF Source, Typed, RunTyped, archiveVars
  <2>2. run'.file = 0 /\ run'.read
    BY <1>4, <2>1 DEF Source, Runs, OwnFile
  <2>3. 0 \notin DOMAIN archives
    BY Numbers DEF Typed, ArchivesTyped, Maps, Names
  <2>4. QED
    BY <2>1, <2>2, <2>3 DEF OwnFile
<1>5. ASSUME NEW n \in Names, OpenArchive(n) PROVE OwnFile'
  <2>1. run \in Runs /\ run.read /\ run' = [run EXCEPT !.file = n]
        /\ archives' = With(archives, n, [dest |-> run.job.who, at |-> now, content |-> "partial"])
    BY <1>5 DEF OpenArchive, Put, Typed, RunTyped
  <2>2. run'.file = n /\ run'.read /\ run'.job = run.job
    BY <2>1 DEF Runs
  <2>3. archives'[n] = [dest |-> run.job.who, at |-> now, content |-> "partial"]
    BY <2>1 DEF With
  <2>4. archives'[n].dest = run.job.who
    BY <2>3
  <2>5. QED
    BY <2>2, <2>4 DEF OwnFile
<1>6. CASE CloseArchive \/ FailBackup
  BY <1>6 DEF CloseArchive, FailBackup, OwnFile
<1>7. ASSUME NEW n \in Names, RetentionDelete(n), UNCHANGED NotArchives PROVE OwnFile'
  <2>1. archives' = archives \/ archives' = Without(archives, {n})
    BY <1>7 DEF RetentionDelete
  <2>2. DOMAIN archives' \subseteq DOMAIN archives /\ \A m \in DOMAIN archives' : archives'[m] = archives[m]
    BY <2>1 DEF Without, Restrict
  <2>3. QED
    BY <1>7, <1>b, <2>2 DEF NotArchives
<1>8. ASSUME NEW n \in Names, NEW c \in Contents, ReplaceByHand(n, c) PROVE OwnFile'
  <2> DEFINE a == [archives[n] EXCEPT !.at = now, !.content = c]
  <2>1. n \in DOMAIN archives /\ archives' = With(archives, n, a) /\ UNCHANGED run
    BY <1>8 DEF ReplaceByHand, Replace, Put
  <2>2. archives[n] \in Archive
    BY <2>1 DEF Typed, ArchivesTyped, Maps
  <2>3. a.dest = archives[n].dest
    BY <2>2 DEF Archive
  <2> HIDE DEF a
  <2>4. DOMAIN archives' = DOMAIN archives /\ archives'[n] = a
        /\ \A m \in DOMAIN archives : m # n => archives'[m] = archives[m]
    BY <2>1 DEF With
  <2>5. \A m \in DOMAIN archives' : archives'[m].dest = archives[m].dest
    BY <2>3, <2>4
  <2>6. QED
    BY <1>b, <2>1, <2>4, <2>5
<1>9. QED
  BY <1>0, <1>1, <1>2, <1>3, <1>4, <1>5, <1>6, <1>7, <1>8 DEF Next, Work, Scan

-----------------------------------------------------------------------------
(* Archive n stands for the month of x: it is of the same profile and      *)
(* month, not older than x, and is not about to be deleted.                *)
Covers(n, x, files, del) ==
  /\ n \in DOMAIN files /\ n \notin del /\ files[n].dest = x[1]
  /\ Month(files[n].at) = Month(x[2]) /\ x[2] <= files[n].at

Covered ==
  \A x \in made : now - x[2] <= MonthlyAge => \E n \in Names : Covers(n, x, archives, purge)

LEMMA Ages ==
  /\ MonthlyAge \in Int /\ DailyAge \in Int
  /\ Typed => now \in Int /\ \A x \in made : x[2] \in Int /\ x[1] \in Profiles
  /\ Typed => \A n \in DOMAIN archives : archives[n].at \in Int /\ archives[n] \in Archive /\ n \in Names
<1>1. DayLength \in Int /\ MonthDays \in Int /\ KeepDays \in Int /\ KeepMonths \in Int
  BY Numbers
<1>2. DailyAge \in Int
  BY <1>1 DEF DailyAge
<1>3. MonthlyAge \in Int
  <2>1. KeepMonths * MonthDays \in Int
    BY <1>1
  <2>2. KeepMonths * MonthDays * DayLength \in Int
    BY <1>1, <2>1
  <2>3. QED
    BY <1>2, <2>2 DEF MonthlyAge
<1>4. QED
  BY <1>2, <1>3, Numbers DEF Typed, ArchivesTyped, Maps, Archive

(* Nothing is lost when what stood for a month still does, or something    *)
(* else does.                                                              *)
LEMMA CoveredStill ==
  ASSUME Typed, Covered, made' \subseteq made, now' \in {now, now + 1},
         \A x \in made' : \A n \in Names :
           Covers(n, x, archives, purge) /\ now - x[2] <= MonthlyAge
             => \E m \in Names : Covers(m, x, archives', purge')
  PROVE  Covered'
<1>1. MonthlyAge' = MonthlyAge
  BY DEF MonthlyAge, DailyAge
<1>2. ASSUME NEW x \in made', now' - x[2] <= MonthlyAge
      PROVE  \E m \in Names : Covers(m, x, archives', purge')
  <2>1. now - x[2] <= MonthlyAge
    BY <1>2, Ages
  <2>2. PICK n \in Names : Covers(n, x, archives, purge)
    BY <2>1 DEF Covered
  <2>3. QED
    BY <2>1, <2>2
<1>3. QED
  BY <1>1, <1>2 DEF Covered

(* The plan of a retention keeps, for every month it may keep, the newest. *)
LEMMA CoveredPlan ==
  ASSUME Typed, Covered, NEW p \in Profiles, RetentionPlan(p)
  PROVE  Covered'
<1>1. purge = {} /\ UNCHANGED <<now, archives, made>> /\ purge' \subseteq Own(p) \ Kept(p)
  BY DEF RetentionPlan
<1>2. ASSUME NEW x \in made', NEW n \in Names, Covers(n, x, archives, purge), now - x[2] <= MonthlyAge
      PROVE  \E m \in Names : Covers(m, x, archives', purge')
  <2>0. x \in made /\ x[2] \in Int /\ now \in Int /\ MonthlyAge \in Int
    BY <1>1, <1>2, Ages
  <2>1. CASE x[1] # p
    <3>1. n \notin purge'
      BY <1>1, <1>2, <2>1 DEF Covers, Own
    <3>2. QED
      BY <1>1, <1>2, <3>1 DEF Covers
  <2>2. CASE x[1] = p
    <3> DEFINE S == {k \in Own(p) : Month(archives[k].at) = Month(archives[n].at)}
    <3>1. n \in S /\ S \subseteq DOMAIN archives
      BY <1>2, <2>2 DEF Covers, Own, Listed
    <3>2. PICK m \in S : \A k \in S : ~Newer(k, m)
      BY <3>1, Newest
    <3>3. m \in Own(p) /\ m \in DOMAIN archives /\ Month(archives[m].at) = Month(archives[n].at)
      BY DEF Own, Listed
    <3>4. FirstOfMonth(p, m)
      BY <3>2, <3>3 DEF FirstOfMonth
    <3>5. archives[n].at <= archives[m].at
      BY <3>1, <3>2, <3>3, Ages DEF Newer
    <3>6. x[2] <= archives[m].at /\ Age(m) <= MonthlyAge
      BY <1>2, <2>0, <3>1, <3>3, <3>5, Ages DEF Covers, Age
    <3>7. m \in Kept(p)
      BY <3>3, <3>4, <3>6 DEF Kept, RecentOrMonthly
    <3>8. Covers(m, x, archives', purge')
      BY <1>1, <1>2, <2>2, <3>3, <3>6, <3>7 DEF Covers, Own
    <3>9. QED
      BY <3>3, <3>8, Ages
  <2>3. QED
    BY <2>1, <2>2
<1>3. QED
  BY <1>1, <1>2, CoveredStill

(* An archive that leaves its month takes with it what was counted there.  *)
LEMMA CoveredBut ==
  ASSUME Typed, Covered, NEW STATE n, n \in DOMAIN archives, made' \subseteq MadeBut(n), UNCHANGED <<now, purge>>,
         \A m \in DOMAIN archives : m # n => m \in DOMAIN archives' /\ archives'[m] = archives[m]
  PROVE  Covered'
<1>1. made' \subseteq made
  BY DEF MadeBut
<1>2. ASSUME NEW x \in made', NEW m \in Names, Covers(m, x, archives, purge)
      PROVE  Covers(m, x, archives', purge')
  <2>1. ~(x[1] = archives[n].dest /\ Month(x[2]) = Month(archives[n].at))
    BY <1>2 DEF MadeBut
  <2>2. m # n
    BY <1>2, <2>1 DEF Covers
  <2>3. QED
    BY <1>2, <2>2 DEF Covers
<1>3. QED
  BY <1>1, <1>2, CoveredStill

LEMMA CoveredClose ==
  ASSUME Typed, Dated, OwnFile, Covered, CloseArchive
  PROVE  Covered'
<1> DEFINE f == run.file
         c == IF run.job.full THEN "world" ELSE "files"
         a == [archives[f] EXCEPT !.at = now, !.content = c]
<1>1. /\ f \in DOMAIN archives /\ archives' = With(archives, f, a) /\ UNCHANGED <<now, purge>>
      /\ made' = MadeWhenClosed(f) \cup {<<run.job.who, now>> : g \in {f} \ purge}
      /\ archives[f].dest = run.job.who
  BY DEF CloseArchive, Put, OwnFile
<1>2. archives[f] \in Archive /\ f \in Names /\ archives[f].at \in Int /\ now \in Int /\ archives[f].at <= now
  BY <1>1, Ages DEF Dated
<1>3. a.at = now /\ a.dest = archives[f].dest
  BY <1>2 DEF Archive
<1> HIDE DEF a, c
<1>4. f \in DOMAIN archives' /\ archives'[f] = a
  BY <1>1 DEF With
<1>5. \A m \in DOMAIN archives : m # f => m \in DOMAIN archives' /\ archives'[m] = archives[m]
  BY <1>1 DEF With
<1> HIDE DEF f
<1>6. MonthlyAge' = MonthlyAge
  BY DEF MonthlyAge, DailyAge
<1>7. ASSUME NEW x \in made', now' - x[2] <= MonthlyAge
      PROVE  \E m \in Names : Covers(m, x, archives', purge')
  <2>1. CASE x \in MadeWhenClosed(f)
    <3>1. x \in made
      BY <2>1 DEF MadeWhenClosed, MadeBut
    <3>2. PICK m \in Names : Covers(m, x, archives, purge)
      BY <1>1, <1>7, <3>1 DEF Covered
    <3>3. CASE m # f
      BY <1>1, <1>5, <3>2, <3>3 DEF Covers
    <3>4. CASE m = f
      <4>1. Month(archives[f].at) = Month(now)
        BY <2>1, <3>2, <3>4 DEF MadeWhenClosed, MadeBut, Covers
      <4>2. x[2] <= now
        BY <1>2, <3>1, <3>2, <3>4, Ages DEF Covers
      <4>3. Covers(f, x, archives', purge')
        BY <1>1, <1>3, <1>4, <3>2, <3>4, <4>1, <4>2 DEF Covers
      <4>4. QED
        BY <1>2, <4>3
    <3>5. QED
      BY <3>3, <3>4
  <2>2. CASE x = <<run.job.who, now>> /\ f \notin purge
    <3>1. x[1] = archives[f].dest /\ x[2] = now
      BY <1>1, <2>2
    <3>2. Covers(f, x, archives', purge')
      BY <1>1, <1>2, <1>3, <1>4, <2>2, <3>1 DEF Covers
    <3>3. QED
      BY <1>2, <3>2
  <2>3. QED
    BY <1>1, <1>7, <2>1, <2>2
<1>8. QED
  BY <1>6, <1>7 DEF Covered

LEMMA CoveredNext ==
  ASSUME Typed, Dated, OwnFile, Covered, [Next]_vars
  PROVE  Covered'
<1>a. ASSUME UNCHANGED <<archives, made>>, purge' \subseteq purge, now' \in {now, now + 1} PROVE Covered'
  <2>1. \A x \in made' : \A n \in Names : Covers(n, x, archives, purge) => Covers(n, x, archives', purge')
    BY <1>a DEF Covers
  <2>2. QED
    BY <1>a, <2>1, CoveredStill
<1>0. CASE UNCHANGED vars
  BY <1>0, <1>a DEF vars, archiveVars
<1>1. CASE \/ Request \/ EditWrite \/ Dismiss \/ TickList \/ TickTrigger \/ Source
           \/ \E p \in Profiles : Delete(p) \/ TriggerBackup(p) \/ TickMark(p) \/ ScanSee(p)
  <2>1. UNCHANGED archiveVars
    BY <1>1 DEF Request, EditWrite, Dismiss, TickList, TickTrigger, Source, Delete, TriggerBackup,
         TickMark, ScanSee
  <2>2. QED
    BY <1>a, <2>1 DEF archiveVars
<1>2. CASE Verify \/ VerifyIdle \/ Kill \/ Advance
  <2>1. UNCHANGED <<archives, made>> /\ purge' \subseteq purge /\ now' \in {now, now + 1}
    BY <1>2 DEF Verify, VerifyPick, VerifyRead, VerifyRecord, VerifyIdle, Kill, Advance
  <2>2. QED
    BY <1>a, <2>1
<1>3. ASSUME NEW p \in Profiles, Retention(p) PROVE Covered'
  BY <1>3, CoveredPlan DEF Retention
<1>4. ASSUME NEW p \in Profiles, Conclude(p) PROVE Covered'
  <2>1. RetentionPlan(p) \/ UNCHANGED archiveVars
    BY <1>4 DEF Conclude
  <2>2. QED
    BY <1>a, <2>1, CoveredPlan DEF archiveVars
<1>5. ASSUME NEW n \in Names, OpenArchive(n) PROVE Covered'
  <2>1. UNCHANGED <<now, purge, made>> /\ n \notin DOMAIN archives
        /\ archives' = With(archives, n, [dest |-> run.job.who, at |-> now, content |-> "partial"])
    BY <1>5 DEF OpenArchive, Put, Fresh
  <2>2. \A m \in DOMAIN archives : m \in DOMAIN archives' /\ archives'[m] = archives[m]
    BY <2>1 DEF With
  <2>3. \A x \in made' : \A m \in Names : Covers(m, x, archives, purge) => Covers(m, x, archives', purge')
    BY <2>1, <2>2 DEF Covers
  <2>4. QED
    BY <2>1, <2>3, CoveredStill
<1>6. CASE CloseArchive
  BY <1>6, CoveredClose
<1>7. CASE FailBackup
  <2>1. UNCHANGED <<now, purge>>
    BY <1>7 DEF FailBackup
  <2>2. CASE UNCHANGED <<archives, made>>
    BY <1>a, <2>1, <2>2
  <2>3. CASE run.file \in DOMAIN archives /\ archives' = Without(archives, {run.file}) /\ made' = MadeBut(run.file)
    <3>1. \A m \in DOMAIN archives : m # run.file => m \in DOMAIN archives' /\ archives'[m] = archives[m]
      BY <2>3 DEF Without, Restrict
    <3>2. QED
      BY <2>1, <2>3, <3>1, CoveredBut
  <2>4. QED
    BY <1>7, <2>2, <2>3 DEF FailBackup
<1>8. ASSUME NEW n \in Names, RetentionDelete(n) PROVE Covered'
  <2>1. /\ archives' = archives \/ archives' = Without(archives, {n})
        /\ n \in purge /\ purge' = purge \ {n} /\ UNCHANGED <<now, made>>
    BY <1>8 DEF RetentionDelete
  <2>2. \A m \in DOMAIN archives : m # n => m \in DOMAIN archives' /\ archives'[m] = archives[m]
    BY <2>1 DEF Without, Restrict
  <2>3. \A x \in made' : \A m \in Names : Covers(m, x, archives, purge) => Covers(m, x, archives', purge')
    BY <2>1, <2>2 DEF Covers
  <2>4. QED
    BY <2>1, <2>3, CoveredStill
<1>9. ASSUME NEW n \in Names, NEW c \in Contents, ReplaceByHand(n, c) PROVE Covered'
  <2>1. /\ n \in DOMAIN archives /\ UNCHANGED <<now, purge>> /\ made' = MadeBut(n)
        /\ archives' = With(archives, n, [archives[n] EXCEPT !.at = now, !.content = c])
    BY <1>9 DEF ReplaceByHand, Replace, Put
  <2>2. \A m \in DOMAIN archives : m # n => m \in DOMAIN archives' /\ archives'[m] = archives[m]
    BY <2>1 DEF With
  <2>3. QED
    BY <2>1, <2>2, CoveredBut
<1>10. QED
  BY <1>0, <1>1, <1>2, <1>3, <1>4, <1>5, <1>6, <1>7, <1>8, <1>9 DEF Next, Work, Scan

LEMMA CoveredInit ==
  ASSUME Init
  PROVE  OwnFile /\ Covered
<1>1. /\ archives = Seed /\ purge = {} /\ made = {<<b.dest, b.at>> : b \in Range(Seed)} /\ run = Idle
  BY DEF Init, ArchivesInit
<1>2. ASSUME NEW x \in made PROVE \E n \in Names : Covers(n, x, archives, purge)
  <2>1. PICK n \in DOMAIN Seed : x = <<Seed[n].dest, Seed[n].at>>
    BY <1>1, <1>2 DEF Range
  <2>2. Seed[n] \in Archive /\ n \in Names /\ Seed[n].at \in Int
    BY ArchivesAssumption, IdentityType
  <2>3. Covers(n, x, archives, purge)
    BY <1>1, <2>1, <2>2 DEF Covers
  <2>4. QED
    BY <2>2, <2>3
<1>3. QED
  BY <1>1, <1>2 DEF OwnFile, Covered

BackupsInv == Typed /\ Dated /\ OwnFile /\ Covered

LEMMA BackupsInvHolds == Spec => []BackupsInv
<1>1. Init => BackupsInv
  BY InitType, VerifiedInit, CoveredInit DEF BackupsInv
<1>2. BackupsInv /\ [Next]_vars => BackupsInv'
  BY NextType, DatedNext, OwnFileNext, CoveredNext DEF BackupsInv
<1>3. QED
  BY <1>1, <1>2, PTL DEF Spec

(* No retention, nor any sequence of them, automatic or asked for, cut     *)
(* short by a stop of mc-admin or by a file that cannot be deleted, leaves *)
(* a month bare that it should keep, for any retention, any archives and   *)
(* any length of the day and of the month (backup_retention_plan,          *)
(* delete_archive).                                                        *)
THEOREM NoMonthBare == Spec => []MonthsCovered
<1>1. BackupsInv => MonthsCovered
  <2>1. \A x \in made : \A n \in Names :
          Covers(n, x, archives, purge) => n \in Own(x[1]) /\ Month(archives[n].at) = Month(x[2])
    BY DEF Covers, Own, Listed
  <2>2. QED
    BY <2>1 DEF BackupsInv, Covered, MonthsCovered
<1>2. QED
  BY <1>1, BackupsInvHolds, PTL

-----------------------------------------------------------------------------
(* An interval of the "hours" plan is a day at least; of a shorter one     *)
(* several backups a day are wanted.                                       *)
WholeDays == Every >= DayLength

Today(p) == p \in DOMAIN profiles => profiles[p].last # Never /\ Day(profiles[p].last) = Day(now)
DueNow == IF sched = Idle THEN {} ELSE sched.due
Marking == IF sched = Idle THEN NoOne ELSE sched.who

(* A profile triggered today is marked so and is not to be triggered       *)
(* again; one between its mark and its trigger is marked.                  *)
Daily(p) ==
  /\ fired[p] \in {0, 1}
  /\ fired[p] = 1 => Today(p) /\ p \notin DueNow
  /\ Marking = p => Today(p)

Rewound(p) == <<p, "rewound">> \in excused

Once ==
  /\ Marking \in DueNow \cup {NoOne}
  /\ edit # Idle => (edit.new => edit.who \notin DOMAIN profiles)
  /\ \A p \in Profiles : ~Rewound(p) => Daily(p)

LEMMA NotDueTwice ==
  ASSUME Typed, WholeDays, NEW p \in DOMAIN profiles, Due(profiles[p]) \/ StartsCount(profiles[p])
  PROVE  ~Today(p)
<1>1. profiles[p].last \in Times /\ profiles[p].enabled \in BOOLEAN
  BY StoredFields DEF Typed, ProfilesTyped, Maps
<1>2. now \in Nat /\ DayLength \in Nat /\ DayLength > 0 /\ Every \in Nat
  BY Numbers, BackupsAssumption DEF Typed
<1>3. ASSUME profiles[p].last # Never, now - profiles[p].last >= Every
      PROVE  Day(profiles[p].last) # Day(now)
  <2>1. profiles[p].last \in Nat
    BY <1>1, <1>3, Numbers DEF Times
  <2> DEFINE l == profiles[p].last
           q == l \div DayLength
  <2>2. \A t \in Nat : t = DayLength * (t \div DayLength) + (t % DayLength) /\ t % DayLength \in 0..(DayLength - 1)
    BY <1>2
  <2>3. l = DayLength * q + (l % DayLength) /\ l % DayLength >= 0
    BY <2>1, <2>2
  <2>4. now = DayLength * (now \div DayLength) + (now % DayLength) /\ now % DayLength < DayLength
    BY <1>2, <2>2
  <2>5. ASSUME q = now \div DayLength PROVE FALSE
    <3> DEFINE m == DayLength * q
             rn == now % DayLength
             rl == l % DayLength
    <3>1. now = m + rn /\ l = m + rl
      BY <2>3, <2>4, <2>5
    <3>2. m \in Int /\ rn \in Int /\ rl \in Int /\ rl >= 0 /\ rn < DayLength
      BY <1>2, <2>1, <2>3, <2>4
    <3>3. now - l >= Every
      BY <1>3
    <3> HIDE DEF m, q, rn, rl, l
    <3>4. QED
      BY <1>2, <3>1, <3>2, <3>3 DEF WholeDays
  <2>6. QED
    BY <2>5 DEF Day
<1>4. CASE Due(profiles[p])
  <2>1. CASE profiles[p].plan = "daily" /\ DueDaily(profiles[p])
    BY <2>1 DEF DueDaily, DueToday, Today
  <2>2. CASE profiles[p].last # Never /\ now - profiles[p].last >= Every
    BY <1>3, <2>2 DEF Today
  <2>3. QED
    BY <1>4, <2>1, <2>2 DEF Due
<1>5. CASE StartsCount(profiles[p])
  BY <1>5 DEF StartsCount, Today
<1>6. QED
  BY <1>4, <1>5

LEMMA OnceFrame ==
  ASSUME Once, UNCHANGED <<profiles, sched, fired, now>>,
         \A p \in Profiles : Rewound(p) => Rewound(p)',
         edit' # Idle => (edit'.new => edit'.who \notin DOMAIN profiles)
  PROVE  Once'
<1>1. UNCHANGED <<DueNow, Marking>>
  BY DEF DueNow, Marking
<1>2. \A p \in Profiles : Today(p)' = Today(p)
  BY DEF Today
<1>3. \A p \in Profiles : Daily(p) => Daily(p)'
  BY <1>1, <1>2 DEF Daily
<1>4. QED
  BY <1>1, <1>3 DEF Once

LEMMA TriggerExcuses ==
  ASSUME NEW q, Trigger(q)
  PROVE  \A p \in Profiles : Rewound(p) => Rewound(p)'
<1>1. \A p \in Profiles : <<p, "rewound">> # <<q, "overtaken">>
  OBVIOUS
<1>2. QED
  BY <1>1 DEF Trigger, Rewound

LEMMA OnceEditWrite ==
  ASSUME Typed, Once, EditWrite
  PROVE  Once'
<1> DEFINE q == edit.who
<1>1. /\ edit # Idle /\ edit' = Idle /\ q \in Profiles /\ edit.new \in BOOLEAN
      /\ UNCHANGED <<now, sched>>
  BY DEF EditWrite, Typed, ProfilesTyped, Edits, archiveVars
<1>2. profiles' = profiles \/ profiles' = With(profiles, q, edit.to)
  <2>1. profiles' \in {profiles, With(profiles, q, edit.to)}
    BY WriteResult DEF EditWrite
  <2>2. QED
    BY <2>1
<1>3. \A p \in Profiles : p # q => /\ p \in DOMAIN profiles' <=> p \in DOMAIN profiles
                                   /\ p \in DOMAIN profiles => profiles'[p] = profiles[p]
  BY <1>2 DEF With
<1>4. UNCHANGED <<DueNow, Marking>>
  BY <1>1 DEF DueNow, Marking
<1>5. \A p \in Profiles : Rewound(p) => Rewound(p)'
  BY DEF EditWrite, Rewound
<1>6. ASSUME NEW p \in Profiles, p # q, Daily(p) PROVE Daily(p)'
  <2>1. fired'[p] = fired[p]
    BY <1>1, <1>6 DEF EditWrite, Typed, SchedTyped
  <2>2. Today(p)' <=> Today(p)
    BY <1>1, <1>3, <1>6 DEF Today
  <2>3. QED
    BY <1>4, <1>6, <2>1, <2>2 DEF Daily
<1>7. ASSUME NEW p \in Profiles, p = q, ~Rewound(p)' PROVE Daily(p)'
  <2>0. ~Rewound(p)
    BY <1>5, <1>7
  <2>1. CASE edit.new
    <3>1. fired'[p] = 0
      BY <1>1, <1>7, <2>1 DEF EditWrite, Typed, SchedTyped
    <3>2. ~(sched # Idle /\ p \in sched.due)
      BY <1>7, <2>1 DEF EditWrite, Rewound
    <3>3. p \notin DueNow /\ p # NoOne
      BY <3>2, BackupsAssumption DEF DueNow, NoOne
    <3>4. Marking # p
      BY <3>3 DEF Once
    <3>5. QED
      BY <1>4, <3>1, <3>4 DEF Daily
  <2>2. CASE ~edit.new
    <3>1. UNCHANGED fired
      BY <2>2 DEF EditWrite
    <3>2. ~(p \notin DOMAIN profiles \/ profiles[p].last # edit.to.last)
      BY <1>7, <2>2 DEF EditWrite, Rewound
    <3>3. p \in DOMAIN profiles' /\ profiles'[p].last = profiles[p].last
      BY <1>2, <1>7, <3>2 DEF With
    <3>4. Today(p)' <=> Today(p)
      BY <1>1, <3>2, <3>3 DEF Today
    <3>5. QED
      BY <1>4, <2>0, <3>1, <3>4 DEF Once, Daily
  <2>3. QED
    BY <1>1, <2>1, <2>2
<1>8. \A p \in Profiles : ~Rewound(p)' => Daily(p)'
  BY <1>5, <1>6, <1>7 DEF Once
<1>9. QED
  BY <1>1, <1>4, <1>8 DEF Once

LEMMA OnceDelete ==
  ASSUME Typed, Once, NEW q \in Profiles, Delete(q)
  PROVE  Once'
<1>1. UNCHANGED <<now, sched, fired, excused, edit>>
  BY DEF Delete, archiveVars, ghostVars
<1>2. profiles' = profiles \/ profiles' = Without(profiles, {q})
  <2>1. profiles' \in {profiles, Without(profiles, {q})}
    BY WriteResult DEF Delete
  <2>2. QED
    BY <2>1
<1>3. DOMAIN profiles' \subseteq DOMAIN profiles /\ \A p \in DOMAIN profiles' : profiles'[p] = profiles[p]
  BY <1>2 DEF Without, Restrict
<1>4. \A p \in Profiles : Today(p) => Today(p)'
  BY <1>1, <1>3 DEF Today
<1>5. UNCHANGED <<DueNow, Marking>> /\ \A p \in Profiles : Rewound(p) <=> Rewound(p)'
  BY <1>1 DEF DueNow, Marking, Rewound
<1>6. \A p \in Profiles : Daily(p) => Daily(p)'
  BY <1>1, <1>4, <1>5 DEF Daily
<1>7. QED
  BY <1>1, <1>3, <1>5, <1>6 DEF Once

LEMMA OnceList ==
  ASSUME Typed, WholeDays, Once, TickList
  PROVE  Once'
<1>1. sched = Idle /\ UNCHANGED <<now, profiles, edit, fired, excused>>
  BY DEF TickList, archiveVars, profileVars, ghostVars
<1>2. Marking' = NoOne /\ DueNow' = {p \in DOMAIN profiles : Due(profiles[p]) \/ StartsCount(profiles[p])}
  BY DEF TickList, Marking, DueNow, Idle
<1>3. \A p \in DueNow' : ~Today(p)
  BY <1>2, NotDueTwice
<1>4. \A p \in Profiles : (Today(p) <=> Today(p)') /\ (Rewound(p) <=> Rewound(p)') /\ p # NoOne
  BY <1>1, BackupsAssumption DEF Today, Rewound, NoOne
<1>5. \A p \in Profiles : Daily(p) => Daily(p)'
  BY <1>1, <1>2, <1>3, <1>4 DEF Daily
<1>6. QED
  BY <1>1, <1>2, <1>4, <1>5 DEF Once

LEMMA OnceMark ==
  ASSUME Typed, Once, NEW q \in Profiles, TickMark(q)
  PROVE  Once'
<1> DEFINE data == IF q \in DOMAIN profiles THEN Marked(q) ELSE profiles
<1>1. PICK w \in Writes("profiles", profiles, data) :
        /\ profiles' = w.data
        /\ sched' = CASE ~w.ok -> Idle
                      [] w.ok /\ q \in DOMAIN profiles /\ StartsCount(profiles[q]) -> Rest(q)
                      [] OTHER -> [sched EXCEPT !.who = q]
  BY DEF TickMark
<1>2. (profiles' = profiles \/ profiles' = data) /\ (w.ok => profiles' = data)
  <2>1. w.data \in {profiles, data} /\ (w.ok => w.data = data)
    BY WriteResult
  <2>2. QED
    BY <1>1, <2>1
<1>3. sched \in Ticks /\ sched # Idle /\ sched.who = NoOne /\ q \in sched.due
      /\ UNCHANGED <<now, edit, fired, excused>>
  BY DEF TickMark, Typed, SchedTyped, archiveVars, ghostVars
<1>4. /\ DOMAIN data = DOMAIN profiles /\ \A p \in DOMAIN profiles : p # q => data[p] = profiles[p]
      /\ q \in DOMAIN profiles => data[q].last = now
  <2>1. \A p \in DOMAIN profiles : profiles[p] \in Stored
    BY DEF Typed, ProfilesTyped, Maps
  <2>2. CASE q \in DOMAIN profiles
    <3>1. data = [profiles EXCEPT ![q].last = now]
      BY <2>2 DEF Marked
    <3> HIDE DEF data
    <3>2. DOMAIN data = DOMAIN profiles /\ data[q] = [profiles[q] EXCEPT !.last = now]
          /\ \A p \in DOMAIN profiles : p # q => data[p] = profiles[p]
      BY <2>2, <3>1
    <3>3. data[q].last = now
      BY <2>1, <2>2, <3>2 DEF Stored
    <3>4. QED
      BY <3>2, <3>3
  <2>3. CASE q \notin DOMAIN profiles
    BY <2>3
  <2>4. QED
    BY <2>2, <2>3
<1> HIDE DEF data
<1>5. now # Never
  BY Numbers DEF Typed, Never
<1>6. \A p \in Profiles : Today(p) => Today(p)'
  BY <1>2, <1>3, <1>4, <1>5 DEF Today
<1>7. w.ok => Today(q)'
  BY <1>2, <1>3, <1>4, <1>5 DEF Today
<1>8. Marking = NoOne /\ DueNow = sched.due /\ q # NoOne
  BY <1>3, BackupsAssumption DEF Marking, DueNow, NoOne
<1>9. DueNow' \subseteq DueNow /\ \/ Marking' = NoOne
                                  \/ Marking' = q /\ w.ok /\ q \in DueNow'
  <2>1. CASE sched' = Idle
    BY <2>1 DEF Marking, DueNow
  <2>2. CASE sched' = Rest(q) /\ sched' # Idle
    BY <1>8, <2>2 DEF Marking, DueNow, Rest
  <2>3. CASE sched' = [sched EXCEPT !.who = q] /\ w.ok
    <3>1. sched' \in Ticks /\ sched'.who = q /\ sched'.due = sched.due
      BY <1>3, <2>3 DEF Ticks
    <3>2. sched' # Idle
      BY <3>1 DEF Ticks, Idle
    <3>3. QED
      BY <1>3, <1>8, <2>3, <3>1, <3>2 DEF Marking, DueNow
  <2>4. QED
    BY <1>1, <2>1, <2>2, <2>3
<1>10. \A p \in Profiles : p # NoOne /\ (Rewound(p) <=> Rewound(p)')
  BY <1>3, BackupsAssumption DEF NoOne, Rewound
<1>11. \A p \in Profiles : Daily(p) => Daily(p)'
  BY <1>3, <1>6, <1>7, <1>9, <1>10 DEF Daily
<1>12. DOMAIN profiles' = DOMAIN profiles
  BY <1>2, <1>4
<1>13. QED
  BY <1>3, <1>9, <1>10, <1>11, <1>12 DEF Once

LEMMA OnceTrigger ==
  ASSUME Typed, Once, TickTrigger
  PROVE  Once'
<1>1. /\ sched \in Ticks /\ sched # Idle /\ sched.who # NoOne /\ sched.who \in Profiles
      /\ UNCHANGED <<now, profiles, edit>> /\ sched' = Rest(sched.who)
  BY DEF TickTrigger, Typed, SchedTyped, Ticks, archiveVars, profileVars
<1>2. Marking = sched.who /\ DueNow = sched.due /\ sched.who \in DueNow
  BY <1>1 DEF Marking, DueNow, Once
<1>3. Marking' = NoOne /\ DueNow' = DueNow \ {sched.who}
  <2>1. CASE sched.due = {sched.who}
    BY <1>1, <1>2, <2>1 DEF Rest, Marking, DueNow
  <2>2. CASE sched.due # {sched.who}
    <3>1. sched' = [who |-> NoOne, due |-> sched.due \ {sched.who}]
      BY <1>1, <2>2 DEF Rest
    <3>2. sched' # Idle /\ sched'.who = NoOne /\ sched'.due = sched.due \ {sched.who}
      BY <3>1 DEF Idle
    <3>3. QED
      BY <1>2, <3>2 DEF Marking, DueNow
  <2>3. QED
    BY <2>1, <2>2
<1>4. \A p \in Profiles : (Today(p) <=> Today(p)') /\ p # NoOne
  BY <1>1, BackupsAssumption DEF Today, NoOne
<1>5. \A p \in Profiles : Rewound(p) => Rewound(p)'
  <2>1. CASE Trigger(sched.who)
    BY <2>1, TriggerExcuses
  <2>2. CASE UNCHANGED excused
    BY <2>2 DEF Rewound
  <2>3. QED
    BY <2>1, <2>2 DEF TickTrigger
<1>6. \/ UNCHANGED fired
      \/ fired' = [fired EXCEPT ![sched.who] = fired[sched.who] + 1]
  BY DEF TickTrigger
<1>7. ASSUME NEW p \in Profiles, Daily(p) PROVE Daily(p)'
  <2>1. CASE p # sched.who
    <3>1. fired'[p] = fired[p]
      BY <1>6, <2>1 DEF Typed, SchedTyped
    <3>2. QED
      BY <1>3, <1>4, <1>7, <3>1 DEF Daily
  <2>2. CASE p = sched.who
    <3>1. fired[p] = 0 /\ Today(p)
      BY <1>2, <1>7, <2>2 DEF Daily
    <3>2. fired'[p] \in {0, 1}
      BY <1>6, <2>2, <3>1 DEF Typed, SchedTyped
    <3>3. QED
      BY <1>3, <1>4, <2>2, <3>1, <3>2 DEF Daily
  <2>3. QED
    BY <2>1, <2>2
<1>8. QED
  BY <1>1, <1>3, <1>5, <1>7 DEF Once

LEMMA OnceAdvance ==
  ASSUME Typed, Once, Advance
  PROVE  Once'
<1>1. sched = Idle /\ UNCHANGED <<profiles, edit, sched>>
  BY DEF Advance, profileVars
<1>2. Marking' = NoOne /\ DueNow' = {} /\ \A p \in Profiles : p # NoOne
  BY <1>1, BackupsAssumption DEF Marking, DueNow, NoOne
<1>3. CASE Day(now') = Day(now)
  <2>1. UNCHANGED <<fired, excused>>
    BY <1>3 DEF Advance
  <2>2. \A p \in Profiles : (Today(p) <=> Today(p)') /\ (Rewound(p) <=> Rewound(p)')
    BY <1>1, <1>3, <2>1 DEF Today, Rewound
  <2>3. \A p \in Profiles : Daily(p) => Daily(p)'
    BY <1>2, <2>1, <2>2 DEF Daily
  <2>4. QED
    BY <1>1, <1>2, <2>2, <2>3 DEF Once
<1>4. CASE Day(now') # Day(now)
  <2>1. fired' = [p \in Profiles |-> 0]
    BY <1>4 DEF Advance
  <2>2. \A p \in Profiles : Daily(p)'
    BY <1>2, <2>1 DEF Daily
  <2>3. QED
    BY <1>1, <1>2, <2>2 DEF Once
<1>5. QED
  BY <1>3, <1>4

LEMMA OnceNext ==
  ASSUME Typed, WholeDays, Once, [Next]_vars
  PROVE  Once'
<1>a. ASSUME UNCHANGED <<profiles, edit, sched, fired, excused, now>> PROVE Once'
  <2>1. \A p \in Profiles : Rewound(p) => Rewound(p)'
    BY <1>a DEF Rewound
  <2>2. edit' # Idle => (edit'.new => edit'.who \notin DOMAIN profiles)
    BY <1>a DEF Once
  <2>3. QED
    BY <1>a, <2>1, <2>2, OnceFrame
<1>0. CASE UNCHANGED vars
  BY <1>0, <1>a DEF vars, archiveVars, profileVars, ghostVars
<1>1. CASE Dismiss \/ Source \/ \E p \in Profiles : ScanSee(p)
  BY <1>1, <1>a DEF Dismiss, Source, ScanSee, archiveVars, profileVars, ghostVars
<1>2. CASE (\E n \in Names : OpenArchive(n)) \/ CloseArchive \/ FailBackup
  BY <1>2, <1>a DEF OpenArchive, CloseArchive, FailBackup, profileVars, ghostVars
<1>3. ASSUME NEW p \in Profiles, Retention(p) \/ Conclude(p) PROVE Once'
  <2>1. UNCHANGED <<profileVars, sched, ghostVars, now>>
    BY <1>3 DEF Retention, Conclude, RetentionPlan, archiveVars
  <2>2. QED
    BY <1>a, <2>1 DEF profileVars, ghostVars
<1>4. CASE Verify \/ (VerifyIdle /\ UNCHANGED NotArchives)
  <2>1. UNCHANGED now /\ UNCHANGED NotArchives
    BY <1>4 DEF Verify, VerifyPick, VerifyRead, VerifyRecord, VerifyIdle
  <2>2. QED
    BY <1>a, <2>1 DEF NotArchives, profileVars, ghostVars
<1>5. ASSUME NEW n \in Names, RetentionDelete(n), UNCHANGED NotArchives PROVE Once'
  BY <1>5, <1>a DEF RetentionDelete, NotArchives, profileVars, ghostVars
<1>6. ASSUME NEW n \in Names, NEW c \in Contents, ReplaceByHand(n, c) PROVE Once'
  BY <1>6, <1>a DEF ReplaceByHand, Replace, profileVars, ghostVars
<1>7. ASSUME NEW q \in Profiles, TriggerBackup(q) PROVE Once'
  <2>1. UNCHANGED <<profiles, edit, sched, fired, now>> /\ Trigger(q)
    BY <1>7 DEF TriggerBackup, archiveVars, profileVars
  <2>2. edit' # Idle => (edit'.new => edit'.who \notin DOMAIN profiles)
    BY <2>1 DEF Once
  <2>3. \A p \in Profiles : Rewound(p) => Rewound(p)'
    BY <2>1, TriggerExcuses
  <2>4. QED
    BY <2>1, <2>2, <2>3, OnceFrame
<1>8. CASE Request
  <2>1. UNCHANGED <<profiles, sched, fired, excused, now>>
    BY <1>8 DEF Request, archiveVars, ghostVars
  <2>2. edit'.new => edit'.who \notin DOMAIN profiles
    <3>1. ASSUME NEW p, NEW c, CreateRead(p, c) PROVE edit'.who \notin DOMAIN profiles
      BY <3>1 DEF CreateRead
    <3>2. ASSUME NEW p, NEW c, NEW e, EditRead(p, c, e) PROVE ~edit'.new
      BY <3>2 DEF EditRead
    <3>3. PICK p \in Profiles : ToggleRead(p) \/ \E c \in Configs : CreateRead(p, c) \/ UpdateRead(p, c)
      BY <1>8 DEF Request
    <3>4. CASE ToggleRead(p)
      BY <3>2, <3>4 DEF ToggleRead
    <3>5. CASE \E c \in Configs : CreateRead(p, c) \/ UpdateRead(p, c)
      BY <3>1, <3>2, <3>5 DEF UpdateRead
    <3>6. QED
      BY <3>3, <3>4, <3>5
  <2>3. \A p \in Profiles : Rewound(p) => Rewound(p)'
    BY <2>1 DEF Rewound
  <2>4. QED
    BY <2>1, <2>2, <2>3, OnceFrame
<1>9. CASE Kill
  <2>1. /\ sched' = Idle /\ edit' = Idle /\ UNCHANGED <<profiles, fired, now>>
        /\ \A p \in Profiles : Rewound(p) => Rewound(p)'
    BY <1>9 DEF Kill, Rewound
  <2>2. Marking' = NoOne /\ DueNow' = {} /\ \A p \in Profiles : p # NoOne
    BY <2>1, BackupsAssumption DEF Marking, DueNow, NoOne
  <2>3. \A p \in Profiles : Today(p) <=> Today(p)'
    BY <2>1 DEF Today
  <2>4. \A p \in Profiles : Daily(p) => Daily(p)'
    BY <2>1, <2>2, <2>3 DEF Daily
  <2>5. QED
    BY <2>1, <2>2, <2>4 DEF Once
<1>10. QED
  BY <1>0, <1>1, <1>2, <1>3, <1>4, <1>5, <1>6, <1>7, <1>8, <1>9, OnceEditWrite, OnceDelete, OnceList,
     OnceMark, OnceTrigger, OnceAdvance DEF Next, Work, Scan

(* A scheduled backup starts at most once a day for a profile, whenever    *)
(* mc-admin stops, whatever writes of the file of profiles fail and        *)
(* however many profiles, edits and ticks there are; but for a profile     *)
(* whose last_run an edit wrote back (tick_backup_profiles).  An interval  *)
(* of less than a day asks for more and is left out.                       *)
THEOREM ScheduledOnce == ASSUME WholeDays PROVE Spec => []OncePerDay
<1>1. Init => Typed /\ Once
  <2>1. ASSUME Init PROVE Once
    <3>1. sched = Idle /\ edit = Idle /\ fired = [p \in Profiles |-> 0]
      BY <2>1 DEF Init
    <3>2. Marking = NoOne /\ DueNow = {} /\ \A p \in Profiles : p # NoOne
      BY <3>1, BackupsAssumption DEF Marking, DueNow, NoOne
    <3>3. QED
      BY <3>1, <3>2 DEF Once, Daily
  <2>2. QED
    BY <2>1, InitType
<1>2. Typed /\ Once /\ [Next]_vars => (Typed /\ Once)'
  BY NextType, OnceNext
<1>3. Typed /\ Once => OncePerDay
  BY DEF Once, Daily, OncePerDay, Rewound
<1>4. QED
  BY <1>1, <1>2, <1>3, PTL DEF Spec

-----------------------------------------------------------------------------
(* A cycle is concluded before its archives are too old to be kept.        *)
Prompt ==
  \A p \in Profiles : scan = p /\ startedAt[p] # Never => now - startedAt[p] <= MonthlyAge

Overtaken(p) == <<p, "overtaken">> \in excused

(* The container that the watcher saw stopped has been started again for   *)
(* the same profile only by a trigger since.                               *)
Seen == \A p \in Profiles : scan = p /\ UnderWay(p) => Overtaken(p)

Truth == Seen /\ FailureIsTrue

LEMMA TruthFrame ==
  ASSUME Truth, UNCHANGED scan, run' = Idle \/ (run # Idle /\ run' # Idle /\ run'.job = run.job) \/ run' = run,
         outcome' \in {outcome, Idle}, \A p : Overtaken(p) => Overtaken(p)'
  PROVE  Truth'
<1>1. \A p \in Profiles : UnderWay(p)' => UnderWay(p)
  BY DEF UnderWay
<1>2. Seen'
  BY <1>1 DEF Truth, Seen
<1>3. FailureIsTrue'
  <2>1. CASE outcome' = Idle
    BY <2>1 DEF FailureIsTrue
  <2>2. CASE outcome' = outcome
    <3>1. Overtaken(outcome.who) => <<outcome.who, "overtaken">> \in excused'
      BY DEF Overtaken
    <3>2. QED
      BY <2>2, <3>1 DEF Truth, FailureIsTrue, Overtaken
  <2>3. QED
    BY <2>1, <2>2
<1>4. QED
  BY <1>2, <1>3 DEF Truth

LEMMA TruthTrigger ==
  ASSUME Typed, Truth, NEW q \in Profiles, Trigger(q), UNCHANGED scan
  PROVE  Truth'
<1>1. run' = Ordered(q) /\ (run # Idle => run \in Runs)
  BY DEF Trigger, Typed, RunTyped
<1>2. ASSUME NEW p \in Profiles, p # q, UnderWay(p)' PROVE UnderWay(p)
  <2>1. CASE run = Idle
    <3>1. run'.job.who = q
      BY <1>1, <2>1 DEF Ordered
    <3>2. QED
      BY <1>2, <3>1 DEF UnderWay
  <2>2. CASE run # Idle /\ run.read
    BY <1>1, <1>2, <2>2 DEF Ordered, UnderWay
  <2>3. CASE run # Idle /\ ~run.read
    <3>1. run' = [run EXCEPT !.job = [who |-> q, full |-> profiles[q].full]]
      BY <1>1, <2>3 DEF Ordered
    <3>2. run'.job.who = q
      BY <1>1, <2>3, <3>1 DEF Runs
    <3>3. QED
      BY <1>2, <3>2 DEF UnderWay
  <2>4. QED
    BY <2>1, <2>2, <2>3
<1>3. ASSUME NEW p, p # q, Overtaken(p) PROVE Overtaken(p)'
  <2>1. <<p, "overtaken">> # <<q, "overtaken">>
    BY <1>3
  <2>2. QED
    BY <1>3, <2>1 DEF Trigger, Overtaken
<1>4. scan = q => Overtaken(q)'
  BY DEF Trigger, Overtaken
<1>5. Seen'
  BY <1>2, <1>3, <1>4 DEF Truth, Seen
<1>6. FailureIsTrue'
  <2>1. CASE outcome' = Idle
    BY <2>1 DEF FailureIsTrue
  <2>2. CASE ~NewCycle(q)
    <3>1. outcome' = outcome /\ excused \subseteq excused'
      BY <2>2 DEF Trigger, cycleVars
    <3>2. QED
      BY <3>1 DEF Truth, FailureIsTrue
  <2>3. QED
    BY <2>1, <2>2 DEF Trigger
<1>7. QED
  BY <1>5, <1>6 DEF Truth

LEMMA TruthConclude ==
  ASSUME BackupsInv, Prompt, Truth, NEW q \in Profiles, Conclude(q)
  PROVE  Truth'
<1>1. scan = q /\ scan' = NoOne /\ UNCHANGED <<run, excused>> /\ \A p \in Profiles : p # NoOne
  BY BackupsAssumption DEF Conclude, ghostVars, NoOne
<1>2. Seen'
  BY <1>1 DEF Seen
<1>3. CASE startedAt[q] = Never
  <2>1. outcome' = outcome
    BY <1>3 DEF Conclude
  <2>2. QED
    BY <1>1, <1>2, <2>1 DEF Truth, FailureIsTrue
<1>4. CASE startedAt[q] # Never
  <2>1. outcome' = [who |-> q, ok |-> ProducedSince(q) # {}, whole |-> Completed(q) \/ UnderWay(q)]
    BY <1>4 DEF Conclude
  <2>2. ASSUME Completed(q) PROVE ProducedSince(q) # {}
    <3>1. PICK x \in made : x[1] = q /\ x[2] >= startedAt[q]
      BY <2>2 DEF Completed
    <3>2. /\ now \in Int /\ MonthlyAge \in Int /\ x[2] \in Int
          /\ \A n \in DOMAIN archives : archives[n].at \in Int
      BY Ages DEF BackupsInv
    <3>3. startedAt[q] \in Int
      BY <1>4, Numbers DEF BackupsInv, Typed, CycleTyped, Times, Never
    <3>4. now - startedAt[q] <= MonthlyAge
      BY <1>1, <1>4 DEF Prompt
    <3>5. now - x[2] <= MonthlyAge
      BY <3>1, <3>2, <3>3, <3>4
    <3>6. PICK n \in Names : Covers(n, x, archives, purge)
      BY <3>5 DEF BackupsInv, Covered
    <3>7. n \in Own(q) /\ archives[n].at >= startedAt[q]
      BY <3>1, <3>2, <3>3, <3>6 DEF Covers, Own, Listed
    <3>8. QED
      BY <3>7 DEF ProducedSince, Produced
  <2>3. UnderWay(q) => <<q, "overtaken">> \in excused
    BY <1>1 DEF Truth, Seen, Overtaken
  <2>4. FailureIsTrue'
    <3>1. outcome'.who = q /\ (outcome'.ok <=> ProducedSince(q) # {})
          /\ (outcome'.whole <=> Completed(q) \/ UnderWay(q))
      BY <2>1
    <3>2. QED
      BY <1>1, <2>2, <2>3, <3>1 DEF FailureIsTrue
  <2>5. QED
    BY <1>2, <2>4 DEF Truth
<1>5. QED
  BY <1>3, <1>4

LEMMA TruthNext ==
  ASSUME BackupsInv, Prompt, Truth, [Next]_vars
  PROVE  Truth'
<1>t. Typed
  BY DEF BackupsInv
<1>a. ASSUME UNCHANGED <<scan, run, outcome>>, excused \subseteq excused' PROVE Truth'
  <2>1. \A p : Overtaken(p) => Overtaken(p)'
    BY <1>a DEF Overtaken
  <2>2. QED
    BY <1>a, <2>1, TruthFrame
<1>0. CASE UNCHANGED vars
  BY <1>0, <1>a DEF vars, cycleVars, ghostVars
<1>1. CASE Request \/ TickList \/ \E p \in Profiles : Delete(p) \/ Retention(p) \/ TickMark(p)
  BY <1>1, <1>a DEF Request, TickList, Delete, Retention, TickMark, cycleVars, ghostVars
<1>2. CASE EditWrite
  BY <1>2, <1>a DEF EditWrite, cycleVars
<1>3. CASE Verify \/ (VerifyIdle /\ UNCHANGED NotArchives)
  BY <1>3, <1>a DEF Verify, NotArchives, cycleVars, ghostVars
<1>4. ASSUME NEW n \in Names, UNCHANGED NotArchives \/ \E c \in Contents : ReplaceByHand(n, c) PROVE Truth'
  BY <1>4, <1>a DEF ReplaceByHand, NotArchives, cycleVars, ghostVars
<1>5. CASE Dismiss
  <2>1. outcome' = Idle /\ UNCHANGED <<scan, run, excused>>
    BY <1>5 DEF Dismiss, ghostVars
  <2>2. QED
    BY <2>1, TruthFrame DEF Overtaken
<1>6. CASE Source \/ \E n \in Names : OpenArchive(n)
  <2>1. run # Idle /\ run \in Runs /\ UNCHANGED <<scan, outcome, excused>>
    BY <1>6, <1>t DEF Source, OpenArchive, Typed, RunTyped, cycleVars, ghostVars
  <2>2. run' \in Runs /\ run'.job = run.job
    BY <1>6, <2>1 DEF Source, OpenArchive, Runs
  <2>3. run' # Idle
    BY <2>2 DEF Runs, Idle
  <2>4. QED
    BY <2>1, <2>2, <2>3, TruthFrame DEF Overtaken
<1>7. CASE CloseArchive \/ FailBackup
  <2>1. run' = Idle /\ UNCHANGED <<scan, outcome, excused>>
    BY <1>7 DEF CloseArchive, FailBackup, cycleVars, ghostVars
  <2>2. QED
    BY <2>1, TruthFrame DEF Overtaken
<1>8. CASE Advance
  <2>1. UNCHANGED <<scan, outcome, run>>
    BY <1>8 DEF Advance, cycleVars
  <2>2. \A p : Overtaken(p) => Overtaken(p)'
    BY <1>8 DEF Advance, Overtaken
  <2>3. QED
    BY <2>1, <2>2, TruthFrame
<1>9. CASE Kill
  <2>1. scan' = NoOne /\ outcome' = Idle /\ \A p \in Profiles : p # NoOne
    BY <1>9, BackupsAssumption DEF Kill, NoOne
  <2>2. QED
    BY <2>1 DEF Truth, Seen, FailureIsTrue
<1>10. ASSUME NEW q \in Profiles, ScanSee(q) PROVE Truth'
  <2>1. run' = Idle /\ UNCHANGED <<outcome, excused>>
    BY <1>10 DEF ScanSee, cycleVars, ghostVars
  <2>2. QED
    BY <2>1 DEF Truth, Seen, UnderWay, FailureIsTrue
<1>11. ASSUME NEW q \in Profiles, TriggerBackup(q) PROVE Truth'
  BY <1>11, <1>t, TruthTrigger DEF TriggerBackup
<1>12. CASE TickTrigger
  <2>1. sched.who \in Profiles /\ UNCHANGED scan
    BY <1>12, <1>t DEF TickTrigger, Typed, SchedTyped, Ticks
  <2>2. CASE Trigger(sched.who)
    BY <1>t, <2>1, <2>2, TruthTrigger
  <2>3. CASE UNCHANGED <<run, cycleVars, excused, fired>>
    BY <1>a, <2>1, <2>3 DEF cycleVars
  <2>4. QED
    BY <1>12, <2>2, <2>3 DEF TickTrigger
<1>13. QED
  BY <1>0, <1>1, <1>2, <1>3, <1>4, <1>5, <1>6, <1>7, <1>8, <1>9, <1>10, <1>11, <1>12, TruthConclude
     DEF Next, Work, Scan

(* A backup reported as failed left no archive and is not being made,      *)
(* though cycles of several profiles overlap, retentions run in between    *)
(* and the container reads its order late; as long as cycles are concluded *)
(* before their archives are too old to be kept (_finalize_backup).        *)
THEOREM FailuresTrue == Spec /\ []Prompt => []FailureIsTrue
<1>1. Init => Truth
  <2>1. ASSUME Init PROVE run = Idle /\ outcome = Idle
    BY <2>1 DEF Init
  <2>2. QED
    BY <2>1 DEF Truth, Seen, UnderWay, FailureIsTrue
<1>2. BackupsInv /\ Prompt /\ Truth /\ [Next]_vars => Truth'
  BY TruthNext
<1>3. Truth => FailureIsTrue
  BY DEF Truth
<1>4. QED
  BY <1>1, <1>2, <1>3, BackupsInvHolds, PTL DEF Spec

-----------------------------------------------------------------------------
(***************************************************************************)
(* Coordination: backups share the lock of the restorations, and what the  *)
(* other threads may find meanwhile, whichever calls fail.                 *)
(***************************************************************************)

(* The worker's steps keep the types of what is seen of it.                *)
LEMMA SeenTypeStep ==
  ASSUME SeenTypeOK, WorkerStep
  PROVE  SeenTypeOK'
<1> USE DEF SeenTypeOK
<1>1. CASE WorkerBegins \/ WorkerGivesUp \/ WorkerEnds
  BY <1>1 DEF WorkerBegins, WorkerGivesUp, WorkerEnds
<1>2. CASE WorkerStop \/ WorkerEngage \/ WorkerCopied \/ WorkerReplaced
  BY <1>2 DEF WorkerStop, WorkerEngage, WorkerCopied, WorkerReplaced
<1>3. CASE WorkerRelease \/ WorkerStart
  BY <1>3 DEF WorkerRelease, WorkerStart
<1>4. CASE WorkerRaises
  <2>1. undoing' \in BOOLEAN
    BY <1>4, Zenon DEF WorkerRaises
  <2>2. QED
    BY <1>4, <2>1 DEF WorkerRaises, MinecraftMayStop
<1>5. CASE WorkerKilled
  BY <1>5 DEF WorkerKilled, MinecraftMayStop
<1>6. QED
  BY <1>1, <1>2, <1>3, <1>4, <1>5 DEF WorkerStep

(* Every step of every thread keeps the types.                             *)
LEMMA CoordinationTypeStep ==
  ASSUME CoordinationTypeOK,
         [CoordinationNext]_coordinationVars
  PROVE  CoordinationTypeOK'
<1> USE DEF CoordinationTypeOK, SeenTypeOK, containers,
           workerState, seenVars, memory, threads, others
<1>1. CASE CloseRequest
  BY <1>1 DEF CloseRequest, EnterCheck, EnterSchedule, EnterStop, EnterEngage,
            StopServer, EngageDoorman
<1>2. CASE ReopenRequest
  BY <1>2 DEF ReopenRequest, CancelMaintenance, ReopenCheck, ReopenCancel,
            ReopenRelease, ReopenStart, DockerStart
<1>3. CASE StartRequest
  BY <1>3 DEF StartRequest, StartCheck, StartServer, DockerStart
<1>4. CASE RestoreRequest
  BY <1>4 DEF RestoreRequest, RequestCheck, RequestTrigger, RequestSet
<1>5. CASE BackupRequest \/ DismissResult
  BY <1>5 DEF BackupRequest, BackupCheck, BackupTrigger, DismissResult
<1>6. CASE MaintenanceTick
  BY <1>6 DEF MaintenanceTick, TickScheduled, TickArm, TickDue, TickCancel,
            TickStop, TickEngage, StopServer, EngageDoorman
<1>7. CASE Coordinator
  BY <1>7 DEF Coordinator, CoordAbandon, CoordSafetyDone, CoordLaunch,
            WorkerLaunched, CoordSetOp, CoordClear, CoordOperation,
            CoordRunning, CoordWaiting
<1>8. CASE Worker
  <2>1. SeenTypeOK'
    BY <1>8, SeenTypeStep DEF Worker
  <2>2. QED
    BY <1>8, <2>1 DEF Worker
<1>9. CASE SafetyEnds \/ ProfileEnds \/ Time \/ AdminRestart
  BY <1>9 DEF SafetyEnds, ProfileEnds, Time, DeadlinePasses, ClosureDue,
            HoldChanges, AdminRestart
<1>10. CASE UNCHANGED coordinationVars
  BY <1>10 DEF coordinationVars
<1>11. QED
  BY <1>1, <1>2, <1>3, <1>4, <1>5, <1>6, <1>7, <1>8, <1>9, <1>10
     DEF CoordinationNext, Requests

(* Type correctness of the composition, for every choice of its constants. *)
THEOREM CoordinationTyped == CoordinationSpec => []CoordinationTypeOK
<1>1. CoordinationInit => CoordinationTypeOK
  BY DEF CoordinationInit, SeenInit, CoordinationTypeOK, SeenTypeOK
<1>2. QED
  BY <1>1, CoordinationTypeStep, PTL DEF CoordinationSpec

(* The lock: restore_backup and trigger_backup each look at the other's    *)
(* one-shot before they start their own, and the coordinator launches the  *)
(* worker only after the safety backup.                                    *)
LEMMA LockStep ==
  ASSUME LockInv,
         [CoordinationNext]_coordinationVars
  PROVE  LockInv'
<1> USE DEF LockInv, Quiet, LockFree, Restoring, containers,
           workerState, seenVars, memory, threads, others
<1>1. CASE CloseRequest
  BY <1>1 DEF CloseRequest, EnterCheck, EnterSchedule, EnterStop, EnterEngage,
            StopServer, EngageDoorman
<1>2. CASE ReopenRequest
  BY <1>2 DEF ReopenRequest, CancelMaintenance, ReopenCheck, ReopenCancel,
            ReopenRelease, ReopenStart, DockerStart
<1>3. CASE StartRequest
  BY <1>3 DEF StartRequest, StartCheck, StartServer, DockerStart
<1>4. CASE RestoreRequest
  BY <1>4 DEF RestoreRequest, RequestCheck, RequestTrigger, RequestSet
<1>5. CASE BackupRequest \/ DismissResult
  BY <1>5 DEF BackupRequest, BackupCheck, BackupTrigger, DismissResult
<1>6. CASE MaintenanceTick
  BY <1>6 DEF MaintenanceTick, TickScheduled, TickArm, TickDue, TickCancel,
            TickStop, TickEngage, StopServer, EngageDoorman
<1>7. CASE Coordinator
  BY <1>7 DEF Coordinator, CoordAbandon, CoordSafetyDone, CoordLaunch,
            WorkerLaunched, CoordSetOp, CoordClear, CoordOperation,
            CoordRunning, CoordWaiting
<1>8. CASE Worker
  BY <1>8 DEF Worker, WorkerStep, WorkerBegins, WorkerGivesUp, WorkerStop,
            WorkerEngage, WorkerCopied, WorkerReplaced, WorkerRelease,
            WorkerStart, WorkerEnds, WorkerRaises, WorkerKilled,
            MinecraftMayStop
<1>9. CASE SafetyEnds \/ ProfileEnds \/ Time \/ AdminRestart
  BY <1>9 DEF SafetyEnds, ProfileEnds, Time, DeadlinePasses, ClosureDue,
            HoldChanges, AdminRestart
<1>10. CASE UNCHANGED coordinationVars
  BY <1>10 DEF coordinationVars
<1>11. QED
  BY <1>1, <1>2, <1>3, <1>4, <1>5, <1>6, <1>7, <1>8, <1>9, <1>10
     DEF CoordinationNext, Requests

LEMMA LockKept == CoordinationSpec => []LockInv
<1>1. CoordinationInit => LockInv
  BY DEF CoordinationInit, SeenInit, LockInv, Quiet, LockFree
<1>2. QED
  BY <1>1, LockStep, PTL DEF CoordinationSpec

(* No backup, of a profile or for safety, reads the world while the worker *)
(* replaces it: whether or not requests overlap, calls to Docker fail,     *)
(* mc-admin restarts or the worker dies (the shared _backup_restore_lock). *)
THEOREM BackupsKeepOff == CoordinationSpec => []NoBackupDuringReplacement
<1>1. LockInv => NoBackupDuringReplacement
  BY DEF LockInv, Quiet, NoBackupDuringReplacement
<1>2. QED
  BY <1>1, LockKept, PTL

(* Between the check of a thread and its last call no other thread of the  *)
(* kind acts, and no restoration begins.                                   *)
LEMMA TurnStep ==
  ASSUME Sequential, LockInv, TurnInv,
         [CoordinationNext]_coordinationVars
  PROVE  TurnInv'
<1> USE DEF LockInv, TurnInv, Quiet, LockFree,
           Restoring, MayBegin, containers,
           workerState, seenVars, memory, threads, others
<1>1. CASE CloseRequest
  BY <1>1 DEF CloseRequest, EnterCheck, EnterSchedule, EnterStop, EnterEngage,
            StopServer, EngageDoorman
<1>2. CASE ReopenRequest
  BY <1>2 DEF ReopenRequest, CancelMaintenance, ReopenCheck, ReopenCancel,
            ReopenRelease, ReopenStart, DockerStart
<1>3. CASE StartRequest
  BY <1>3 DEF StartRequest, StartCheck, StartServer, DockerStart
<1>4. CASE RestoreRequest
  BY <1>4 DEF RestoreRequest, RequestCheck, RequestTrigger, RequestSet
<1>5. CASE BackupRequest \/ DismissResult
  BY <1>5 DEF BackupRequest, BackupCheck, BackupTrigger, DismissResult
<1>6. CASE MaintenanceTick
  BY <1>6 DEF MaintenanceTick, TickScheduled, TickArm, TickDue, TickCancel,
            TickStop, TickEngage, StopServer, EngageDoorman
<1>7. CASE Coordinator
  BY <1>7 DEF Coordinator, CoordAbandon, CoordSafetyDone, CoordLaunch,
            WorkerLaunched, CoordSetOp, CoordClear, CoordOperation,
            CoordRunning, CoordWaiting
<1>8. CASE Worker
  BY <1>8 DEF Worker, WorkerStep, WorkerBegins, WorkerGivesUp, WorkerStop,
            WorkerEngage, WorkerCopied, WorkerReplaced, WorkerRelease,
            WorkerStart, WorkerEnds, WorkerRaises, WorkerKilled,
            MinecraftMayStop
<1>9. CASE SafetyEnds \/ ProfileEnds \/ Time \/ AdminRestart
  BY <1>9 DEF SafetyEnds, ProfileEnds, Time, DeadlinePasses, ClosureDue,
            HoldChanges, AdminRestart
<1>10. CASE UNCHANGED coordinationVars
  BY <1>10 DEF coordinationVars
<1>11. QED
  BY <1>1, <1>2, <1>3, <1>4, <1>5, <1>6, <1>7, <1>8, <1>9, <1>10
     DEF CoordinationNext, Requests

LEMMA TurnKept ==
  ASSUME Sequential
  PROVE  CoordinationSpec => []TurnInv
<1>1. CoordinationInit => TurnInv
  BY DEF CoordinationInit, SeenInit, TurnInv, Quiet
<1>2. LockInv /\ TurnInv /\ [CoordinationNext]_coordinationVars => TurnInv'
  BY TurnStep
<1>3. QED
  BY <1>1, <1>2, LockKept, PTL DEF CoordinationSpec

(* While the doorman is in post for a maintenance no restoration is let in *)
(* if the proxy tells of it.                                               *)
LEMMA ClosedStep ==
  ASSUME Sequential, ~ProxyFails, LockInv, TurnInv, ClosedInv,
         [CoordinationNext]_coordinationVars
  PROVE  ClosedInv'
<1> USE DEF LockInv, TurnInv, ClosedInv, Quiet, LockFree,
           Restoring, MayBegin, DoormanSeenDown, containers,
           workerState, seenVars, memory, threads, others
<1>1. CASE CloseRequest
  BY <1>1 DEF CloseRequest, EnterCheck, EnterSchedule, EnterStop, EnterEngage,
            StopServer, EngageDoorman
<1>2. CASE ReopenRequest
  BY <1>2 DEF ReopenRequest, CancelMaintenance, ReopenCheck, ReopenCancel,
            ReopenRelease, ReopenStart, DockerStart
<1>3. CASE StartRequest
  BY <1>3 DEF StartRequest, StartCheck, StartServer, DockerStart
<1>4. CASE RestoreRequest
  BY <1>4 DEF RestoreRequest, RequestCheck, RequestTrigger, RequestSet
<1>5. CASE BackupRequest \/ DismissResult
  BY <1>5 DEF BackupRequest, BackupCheck, BackupTrigger, DismissResult
<1>6. CASE MaintenanceTick
  BY <1>6 DEF MaintenanceTick, TickScheduled, TickArm, TickDue, TickCancel,
            TickStop, TickEngage, StopServer, EngageDoorman
<1>7. CASE Coordinator
  BY <1>7 DEF Coordinator, CoordAbandon, CoordSafetyDone, CoordLaunch,
            WorkerLaunched, CoordSetOp, CoordClear, CoordOperation,
            CoordRunning, CoordWaiting
<1>8. CASE Worker
  BY <1>8 DEF Worker, WorkerStep, WorkerBegins, WorkerGivesUp, WorkerStop,
            WorkerEngage, WorkerCopied, WorkerReplaced, WorkerRelease,
            WorkerStart, WorkerEnds, WorkerRaises, WorkerKilled,
            MinecraftMayStop
<1>9. CASE SafetyEnds \/ ProfileEnds \/ Time \/ AdminRestart
  BY <1>9 DEF SafetyEnds, ProfileEnds, Time, DeadlinePasses, ClosureDue,
            HoldChanges, AdminRestart
<1>10. CASE UNCHANGED coordinationVars
  BY <1>10 DEF coordinationVars
<1>11. QED
  BY <1>1, <1>2, <1>3, <1>4, <1>5, <1>6, <1>7, <1>8, <1>9, <1>10
     DEF CoordinationNext, Requests

(* Maintenance and restoration exclude each other when requests and ticks  *)
(* come one at a time and the Docker proxy answers, even if the worker is  *)
(* killed, calls to Docker fail, and mc-admin restarts between two calls   *)
(* (enter_maintenance, tick_maintenance, the restore preflight).  Without  *)
(* either hypothesis TLC refutes it.                                       *)
THEOREM Exclusion ==
  ASSUME Sequential, ~ProxyFails
  PROVE  CoordinationSpec => []NoOverlap
<1>1. CoordinationInit => ClosedInv
  BY DEF CoordinationInit, SeenInit, ClosedInv
<1>2. /\ LockInv /\ TurnInv /\ ClosedInv
      /\ [CoordinationNext]_coordinationVars
      => ClosedInv'
  BY ClosedStep
<1>3. ClosedInv => NoOverlap
  BY DEF ClosedInv, Quiet, NoOverlap
<1>4. QED
  BY <1>1, <1>2, <1>3, LockKept, TurnKept, PTL DEF CoordinationSpec

(* A mixed world stays in the hands of its worker.                         *)
LEMMA MixedStep ==
  ASSUME Sequential, ~WorkerDies, Starts # "always",
         LockInv, TurnInv, MixedInv,
         [CoordinationNext]_coordinationVars
  PROVE  MixedInv'
<1> USE DEF LockInv, TurnInv, MixedInv, Quiet, LockFree,
           Restoring, MayBegin, containers,
           workerState, seenVars, memory, threads, others
<1>1. CASE CloseRequest
  BY <1>1 DEF CloseRequest, EnterCheck, EnterSchedule, EnterStop, EnterEngage,
            StopServer, EngageDoorman
<1>2. CASE ReopenRequest
  BY <1>2 DEF ReopenRequest, CancelMaintenance, ReopenCheck, ReopenCancel,
            ReopenRelease, ReopenStart, DockerStart
<1>3. CASE StartRequest
  BY <1>3 DEF StartRequest, StartCheck, StartServer, DockerStart
<1>4. CASE RestoreRequest
  BY <1>4 DEF RestoreRequest, RequestCheck, RequestTrigger, RequestSet
<1>5. CASE BackupRequest \/ DismissResult
  BY <1>5 DEF BackupRequest, BackupCheck, BackupTrigger, DismissResult
<1>6. CASE MaintenanceTick
  BY <1>6 DEF MaintenanceTick, TickScheduled, TickArm, TickDue, TickCancel,
            TickStop, TickEngage, StopServer, EngageDoorman
<1>7. CASE Coordinator
  BY <1>7 DEF Coordinator, CoordAbandon, CoordSafetyDone, CoordLaunch,
            WorkerLaunched, CoordSetOp, CoordClear, CoordOperation,
            CoordRunning, CoordWaiting
<1>8. CASE Worker
  BY <1>8 DEF Worker, WorkerStep, WorkerBegins, WorkerGivesUp, WorkerStop,
            WorkerEngage, WorkerCopied, WorkerReplaced, WorkerRelease,
            WorkerStart, WorkerEnds, WorkerRaises, WorkerKilled,
            MinecraftMayStop
<1>9. CASE SafetyEnds \/ ProfileEnds \/ Time \/ AdminRestart
  BY <1>9 DEF SafetyEnds, ProfileEnds, Time, DeadlinePasses, ClosureDue,
            HoldChanges, AdminRestart
<1>10. CASE UNCHANGED coordinationVars
  BY <1>10 DEF coordinationVars
<1>11. QED
  BY <1>1, <1>2, <1>3, <1>4, <1>5, <1>6, <1>7, <1>8, <1>9, <1>10
     DEF CoordinationNext, Requests

(* Minecraft never runs on a half replaced world, provided the worker is   *)
(* not killed, requests come one at a time and nobody asks for a start     *)
(* while a restoration is under way: start and restart look at the doorman *)
(* only (_refuse_if_maintenance).  It holds even if a proxy that does not  *)
(* answer lets a restoration in during a maintenance.                      *)
THEOREM MixedWorldUnserved ==
  ASSUME Sequential, ~WorkerDies, Starts # "always"
  PROVE  CoordinationSpec => []NeverServesMixedWorld
<1>1. CoordinationInit => MixedInv
  BY DEF CoordinationInit, SeenInit, MixedInv, Quiet
<1>2. /\ LockInv /\ TurnInv /\ MixedInv
      /\ [CoordinationNext]_coordinationVars
      => MixedInv'
  BY MixedStep
<1>3. MixedInv => NeverServesMixedWorld
  BY DEF MixedInv, NeverServesMixedWorld
<1>4. QED
  BY <1>1, <1>2, <1>3, LockKept, TurnKept, PTL DEF CoordinationSpec

=============================================================================
