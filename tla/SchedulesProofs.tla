--------------------------- MODULE SchedulesProofs ---------------------------
(***************************************************************************)
(* Programmed operations and updates, for every calendar, every delay and  *)
(* any number of requests, days and stops of mc-admin.                     *)
(***************************************************************************)
EXTENDS Schedules, TLAPS

(* The day of an entry that was used reaches the file of the calendar.     *)
MarksKept == "calendar" \notin FailsBefore

-----------------------------------------------------------------------------
(* A write leaves the old content or the new one, and the new one unless   *)
(* it may fail before the replacement.                                     *)
LEMMA WriteResult ==
  ASSUME NEW file, NEW old, NEW new, NEW w \in Writes(file, old, new)
  PROVE  /\ w.data \in {old, new}
         /\ file \notin FailsBefore => w.data = new
BY DEF Writes

(* Days are counted from 0.                                                *)
LEMMA DayNat ==
  ASSUME NEW t \in Nat
  PROVE  Day(t) \in Nat
BY UpdatesAssumption DEF Day

(* What the assumption says of one entry.                                  *)
LEMMA EntryType ==
  ASSUME NEW i \in Ids
  PROVE  /\ Entries[i].op \in Ops /\ Entries[i].at \in Nat
         /\ Entries[i].lead \in Nat /\ Entries[i].defer \in BOOLEAN
         /\ Entries[i].once \in BOOLEAN
BY SchedulesAssumption, UpdatesAssumption DEF Ids, Entry, Ops

LEMMA TargetNat ==
  ASSUME NEW i \in Ids, now \in Nat
  PROVE  Target(i) \in Nat
BY DayNat, EntryType, UpdatesAssumption DEF Target

-----------------------------------------------------------------------------
(* What a thread holds is one of four things.                              *)
LEMMA JobType ==
  ASSUME TypeOK, NEW k \in Ops
  PROVE  /\ job[k].pc = "mark" => job[k].id \in Ids
         /\ job[k].pc \in {"drop", "act"} => job[k].plan \in Plans
BY DEF TypeOK, Idle

(* The steps of Updates keep their types.                                  *)
ScanTypes == {Resting} \cup [pc : {"take"}] \cup [pc : {"forget", "tell"}, run : Runs]

LEMMA ScanTypeStep ==
  ASSUME UpdatesTypeOK, NEW t \in Scanners, ScanUpdate(t)
  PROVE  UpdatesTypeOK'
<1> USE DEF ScanTypes
<1>1. scan \in [Scanners -> ScanTypes] /\ op \in {NoRun} \cup Runs
  BY DEF UpdatesTypeOK
<1>2. UNCHANGED <<now, events, server, players, rcon, blocked, updater, runs, asked, known,
                  recreate>>
  BY DEF ScanUpdate, gameVars, outside, appVars
<1>3. CASE ScanLook(t)
  <2>1. scan' \in [Scanners -> ScanTypes] /\ op' = op /\ told' = told
    BY <1>1, <1>3 DEF ScanLook
  <2>2. QED
    BY <1>2, <2>1 DEF UpdatesTypeOK
<1>4. CASE ScanTake(t)
  <2>1. scan' \in [Scanners -> ScanTypes] /\ op' = op /\ told' = told
    BY <1>1, <1>4 DEF ScanTake
  <2>2. QED
    BY <1>2, <2>1 DEF UpdatesTypeOK
<1>5. CASE ScanForget(t)
  <2>1. scan[t] \in [pc : {"forget", "tell"}, run : Runs]
    BY <1>1, <1>5 DEF ScanForget, Resting
  <2>2. [scan[t] EXCEPT !.pc = "tell"] \in [pc : {"forget", "tell"}, run : Runs]
    BY <2>1
  <2>3. scan' \in [Scanners -> ScanTypes] /\ op' = NoRun /\ told' = told
    BY <1>1, <1>5, <2>2 DEF ScanForget
  <2>4. QED
    BY <1>2, <2>3 DEF UpdatesTypeOK
<1>6. CASE ScanTell(t)
  <2>1. scan' \in [Scanners -> ScanTypes] /\ op' = op
    BY <1>1, <1>6 DEF ScanTell
  <2>2. told' \in ExitRead \cup {told}
    BY <1>6 DEF ScanTell
  <2>3. told' \in {"nothing", "ok", "failed", "unread", "lost"}
    BY <2>2 DEF ExitRead, UpdaterRunning, UpdatesTypeOK
  <2>4. QED
    BY <1>2, <2>1, <2>3 DEF UpdatesTypeOK
<1>7. QED
  BY <1>3, <1>4, <1>5, <1>6 DEF ScanUpdate

LEMMA ForgetTypes ==
  ASSUME ForgetUpdate
  PROVE  /\ op' \in {NoRun} \cup Runs /\ asked' \subseteq Runs
         /\ scan' \in [Scanners -> ScanTypes]
         /\ told' \in {"nothing", "ok", "failed", "unread", "lost"}
BY DEF ForgetUpdate, ScanTypes

LEMMA UpdatesTypeStep ==
  ASSUME UpdatesTypeOK,
         RequestUpdate \/ UpdaterEnds \/ CheckRelease \/ ApplyAppUpdate \/ Recreated
  PROVE  UpdatesTypeOK'
<1> USE UpdatesAssumption
<1>1. CASE \E force \in BOOLEAN : ApplyUpdate(force)
  <2>1. runs' \in Runs /\ asked' \subseteq Runs
    BY <1>1 DEF ApplyUpdate, UpdatesTypeOK, Runs, NoRun
  <2>2. events' \in 0..MaxEvents /\ updater' = "running" /\ told' = "nothing"
    BY <1>1 DEF ApplyUpdate, Event, UpdatesTypeOK
  <2>3. UNCHANGED <<now, server, players, rcon, blocked, op, scan, known, recreate>>
    BY <1>1 DEF ApplyUpdate, gameVars, outside, appVars
  <2>4. QED
    BY <2>1, <2>2, <2>3 DEF UpdatesTypeOK
<1>2. CASE RecordUpdate
  BY <1>2 DEF RecordUpdate, UpdatesTypeOK, gameVars, outside, appVars
<1>3. CASE UpdaterEnds
  BY <1>3 DEF UpdaterEnds, UpdatesTypeOK, outside, appVars
<1>4. CASE CheckRelease
  BY <1>4 DEF CheckRelease, Event, UpdatesTypeOK, gameVars, outside, updateVars
<1>5. CASE ApplyAppUpdate
  BY <1>5 DEF ApplyAppUpdate, StartRecreation, Event, UpdatesTypeOK, gameVars, outside,
     updateVars
<1>6. CASE Recreated
  BY <1>6, ForgetTypes DEF Recreated, UpdatesTypeOK, outside, ScanTypes
<1>7. QED
  BY <1>1, <1>2, <1>3, <1>4, <1>5, <1>6 DEF RequestUpdate

(* The requests of the page are four kinds of step.                        *)
Requested ==
  \/ \E k \in Ops, d \in Delays, defer \in BOOLEAN : Announce(k, d, defer)
  \/ \E k \in Ops : Cancel(k)
  \/ \E i \in Ids : Reset(i) \/ Strike(i)
  \/ CloseNow

LEMMA RequestCases ==
  ASSUME RequestRestart \/ CancelRestart \/ RequestClosure \/ CancelMaintenance
           \/ RequestDaily \/ RequestMaintenance
  PROVE  Requested
BY DEF Requested, Ops, RequestRestart, CancelRestart, RequestClosure, CancelMaintenance,
   RequestDaily, RequestMaintenance, ScheduleRestart, EnterLater, SetDaily, ClearDaily,
   AddMaintenance, RemoveMaintenance

(* A write of the calendar keeps its type.                                 *)
CalType(c) == DOMAIN c \subseteq Ids /\ \A i \in DOMAIN c : c[i] \in {Never} \cup Nat

LEMMA CalendarType ==
  ASSUME TypeOK, NEW i \in Ids
  PROVE  /\ CalType(cal) /\ CalType(With(cal, i, Never))
         /\ CalType(Without(cal, {i})) /\ CalType(Marked(i))
<1>1. Day(now) \in Nat
  BY DayNat, UpdatesAssumption DEF TypeOK, UpdatesTypeOK
<1>2. QED
  BY <1>1 DEF TypeOK, CalType, With, Without, Restrict, Marked, Listed

LEMMA CalendarWritten ==
  ASSUME TypeOK, NEW i \in Ids,
         NEW new \in {With(cal, i, Never), Without(cal, {i}), Marked(i)},
         NEW w \in Writes("calendar", cal, new), cal' = w.data
  PROVE  CalType(cal')
BY CalendarType, WriteResult

(* Every step keeps the types.                                             *)
LEMMA TypeStep ==
  ASSUME TypeOK, [Next]_vars
  PROVE  TypeOK'
<1> USE UpdatesAssumption
<1>0. now \in Nat /\ CalType(cal)
  BY DEF TypeOK, UpdatesTypeOK, CalType
<1>1. ASSUME NEW k \in Ops, NEW d \in Delays, NEW defer \in BOOLEAN, Announce(k, d, defer)
      PROVE  TypeOK'
  <2>1. [at |-> now + d, defer |-> defer] \in Plans
    BY <1>0, SchedulesAssumption DEF Plans
  <2>2. QED
    BY <1>1, <2>1 DEF Announce, Event, TypeOK, UpdatesTypeOK, gameVars, outside, updateVars, appVars
<1>2. ASSUME NEW k \in Ops, Cancel(k)
      PROVE  TypeOK'
  BY <1>2 DEF Cancel, Event, TypeOK, UpdatesTypeOK, gameVars, outside, updateVars, appVars
<1>3. ASSUME NEW i \in Ids, Reset(i)
      PROVE  TypeOK'
  <2>1. CalType(cal')
    BY <1>3, CalendarWritten DEF Reset
  <2>2. QED
    BY <1>3, <2>1 DEF Reset, Event, TypeOK, CalType, UpdatesTypeOK, gameVars, outside, updateVars,
       appVars
<1>4. ASSUME NEW i \in Ids, Strike(i)
      PROVE  TypeOK'
  <2>1. CalType(cal')
    BY <1>4, CalendarWritten DEF Strike
  <2>2. QED
    BY <1>4, <2>1 DEF Strike, Event, TypeOK, CalType, UpdatesTypeOK, gameVars, outside, updateVars,
       appVars
<1>5. CASE CloseNow
  BY <1>5 DEF CloseNow, Engage, Event, TypeOK, UpdatesTypeOK, outside, updateVars, appVars
<1>6. ASSUME NEW k \in Ops, Mark(k)
      PROVE  TypeOK'
  <2>1. job[k].id \in Ids
    BY <1>6, JobType DEF Mark
  <2>2. CalType(cal')
    BY <1>6, <2>1, CalendarWritten DEF Mark
  <2>3. QED
    BY <1>6, <2>2 DEF Mark, TypeOK, CalType, UpdatesTypeOK, gameVars, outside, updateVars, appVars
<1>7. ASSUME NEW k \in Ops, SeeDue(k)
      PROVE  TypeOK'
  <2>1. plan[k] \in Plans
    BY <1>7 DEF SeeDue, TypeOK
  <2>2. QED
    BY <1>7, <2>1 DEF SeeDue, TypeOK, UpdatesTypeOK, gameVars, outside, updateVars, appVars
<1>8. ASSUME NEW k \in Ops, Drop(k)
      PROVE  TypeOK'
  <2>1. job[k] \in [pc : {"drop", "act"}, plan : Plans]
    BY <1>8 DEF Drop, TypeOK, Idle
  <2>2. [job[k] EXCEPT !.pc = "act"] \in [pc : {"drop", "act"}, plan : Plans]
    BY <2>1
  <2>3. job' \in [Ops -> {Idle} \cup [pc : {"mark"}, id : Ids]
                               \cup [pc : {"drop", "act"}, plan : Plans]]
    BY <1>8, <2>2 DEF Drop, TypeOK
  <2>4. QED
    BY <1>8, <2>3 DEF Drop, TypeOK, UpdatesTypeOK, gameVars, outside, updateVars, appVars
<1>9. ASSUME NEW k \in Ops, Act(k)
      PROVE  TypeOK'
  <2>1. job' \in [Ops -> {Idle} \cup [pc : {"mark"}, id : Ids]
                               \cup [pc : {"drop", "act"}, plan : Plans]]
    BY <1>9 DEF Act, TypeOK
  <2>2. server' \in {"open", "closed", "down"} /\ players' \in BOOLEAN
    BY <1>9 DEF Act, Engage, TypeOK, UpdatesTypeOK
  <2>3. UNCHANGED <<now, events, outside, updateVars, appVars, plan, cal, armed>>
    BY <1>9 DEF Act
  <2>4. UpdatesTypeOK'
    BY <2>2, <2>3 DEF TypeOK, UpdatesTypeOK, outside, updateVars, appVars
  <2>5. QED
    BY <2>1, <2>3, <2>4 DEF TypeOK
<1>10. ASSUME NEW i \in Ids, SkipEntry(i)
       PROVE  TypeOK'
  <2>1. CalType(cal')
    BY <1>10, CalendarWritten DEF SkipEntry
  <2>2. QED
    BY <1>10, <2>1 DEF SkipEntry, TypeOK, CalType, UpdatesTypeOK, gameVars, outside, updateVars,
       appVars
<1>11. ASSUME NEW i \in Ids, Arm(i)
       PROVE  TypeOK'
  <2>1. Entries[i].op \in Ops /\ [at |-> Target(i), defer |-> Entries[i].defer] \in Plans
    BY <1>0, TargetNat, EntryType DEF Plans
  <2>2. plan' \in [Ops -> Plans \cup {NoPlan}] /\ armed' \in [Ids -> Nat]
    BY <1>11, <2>1 DEF Arm, TypeOK
  <2>3. [pc |-> "mark", id |-> i] \in [pc : {"mark"}, id : Ids]
    OBVIOUS
  <2>4. job' \in [Ops -> {Idle} \cup [pc : {"mark"}, id : Ids]
                               \cup [pc : {"drop", "act"}, plan : Plans]]
    BY <1>11, <2>1, <2>3 DEF Arm, TypeOK
  <2>5. QED
    BY <1>11, <2>2, <2>4 DEF Arm, TypeOK, UpdatesTypeOK, gameVars, outside, updateVars, appVars
<1>12. CASE Reopen
  BY <1>12 DEF Reopen, Event, TypeOK, UpdatesTypeOK, outside, updateVars, appVars, Ops
<1>13. CASE Advance
  BY <1>13 DEF Advance, TypeOK, UpdatesTypeOK, gameVars, outside, updateVars, appVars
<1>14. CASE Come
  BY <1>14 DEF Come, TypeOK, UpdatesTypeOK, outside, updateVars, appVars
<1>15. CASE Leave \/ Mute \/ Block
  <2>1. rcon' \in BOOLEAN /\ players' \in BOOLEAN
    BY <1>15, Zenon DEF Leave, Mute, Block, TypeOK, UpdatesTypeOK, outside
  <2>2. events' \in 0..MaxEvents
    <3>1. events' = events \/ (events < MaxEvents /\ events' = events + 1)
      BY <1>15 DEF Leave, Mute, Block, Event
    <3>2. QED
      BY <3>1 DEF TypeOK, UpdatesTypeOK
  <2>3. blocked' \subseteq {"docker", "restart", "closure"}
    BY <1>15 DEF Leave, Mute, Block, TypeOK, UpdatesTypeOK, outside
  <2>4. UNCHANGED <<now, server, updater, runs, asked, op, scan, told, known, recreate,
                    plan, cal, job, armed>>
    BY <1>15 DEF Leave, Mute, Block, updateVars, appVars
  <2>5. QED
    BY <2>1, <2>2, <2>3, <2>4 DEF TypeOK, UpdatesTypeOK
<1>16. CASE Kill
  <2>1. plan' \in [Ops -> Plans \cup {NoPlan}] /\ armed' \in [Ids -> Nat]
    BY <1>16 DEF Kill, Forget, TypeOK
  <2>2. job' = [k \in Ops |-> Idle] /\ cal' = cal
    BY <1>16 DEF Kill, Forget
  <2>3. UpdatesTypeOK'
    <3>1. events' \in 0..MaxEvents
      BY <1>16 DEF Kill, Event, TypeOK, UpdatesTypeOK
    <3>2. UNCHANGED <<now, server, players, rcon, blocked, updater, runs, known, recreate>>
      BY <1>16 DEF Kill, gameVars, outside, appVars
    <3>3. QED
      BY <1>16, <3>1, <3>2, ForgetTypes DEF Kill, TypeOK, UpdatesTypeOK, ScanTypes
  <2>4. QED
    BY <2>1, <2>2, <2>3 DEF TypeOK
<1>17. CASE Update
  BY <1>17, UpdatesTypeStep DEF Update, TypeOK
<1>18. CASE Replaced
  BY <1>18, UpdatesTypeStep DEF Replaced, Forget, TypeOK
<1>19. CASE UNCHANGED vars
  BY <1>19 DEF vars, TypeOK, UpdatesTypeOK, gameVars, outside, updateVars, appVars
<1>20. ASSUME NEW t \in Scanners, Scan(t)
       PROVE  TypeOK'
  BY <1>20, ScanTypeStep DEF Scan, TypeOK
<1>21. QED
  BY <1>1, <1>2, <1>3, <1>4, <1>5, <1>6, <1>7, <1>8, <1>9, <1>10, <1>11, <1>12, <1>13,
     <1>14, <1>15, <1>16, <1>17, <1>18, <1>19, <1>20, RequestCases
     DEF Next, Requested, Thread

(* Type correctness.                                                       *)
THEOREM SchedulesTyped == Spec => []TypeOK
<1>1. Init => TypeOK
  <2>1. Init => UpdatesTypeOK
    <3>1. Init => {players, rcon, known, recreate} \subseteq BOOLEAN
      BY Zenon DEF Init, UpdatesInit
    <3>2. Init => now \in 0..MaxTime /\ events \in 0..MaxEvents
      BY UpdatesAssumption DEF Init, UpdatesInit
    <3>3. QED
      BY <3>1, <3>2 DEF Init, UpdatesInit, UpdatesTypeOK
  <2>2. Init => DOMAIN cal = {}
    BY DEF Init
  <2>3. QED
    BY <2>1, <2>2 DEF Init, TypeOK
<1>2. TypeOK /\ [Next]_vars => TypeOK'
  BY TypeStep
<1>3. QED
  BY <1>1, <1>2, PTL DEF Spec

-----------------------------------------------------------------------------
(* The threads' steps and the calendar's need the order of the tick: an    *)
(* entry announced today has its day in the file, or its thread is about   *)
(* to write it, or the entry was removed.                                  *)
Marking(i) == job[Entries[i].op].pc = "mark" /\ job[Entries[i].op].id = i

ArmInv ==
  \A i \in Ids : armed[i] = 0 \/ (armed[i] = 1 /\ (Listed(i) => cal[i] = Day(now) \/ Marking(i)))

LEMMA ArmStep ==
  ASSUME MarksKept, TypeOK, ArmInv, [Next]_vars
  PROVE  ArmInv'
<1>1. ASSUME NEW k \in Ops, NEW d \in Delays, NEW defer \in BOOLEAN, Announce(k, d, defer)
      PROVE  ArmInv'
  BY <1>1 DEF Announce, ArmInv, Marking, Listed
<1>2. ASSUME NEW k \in Ops, Cancel(k)
      PROVE  ArmInv'
  BY <1>2 DEF Cancel, ArmInv, Marking, Listed
<1>3. ASSUME NEW j \in Ids, Reset(j)
      PROVE  ArmInv'
  <2>1. cal' = With(cal, j, Never) /\ armed' = [armed EXCEPT ![j] = 0] /\ job' = job /\ now' = now
    BY <1>3, WriteResult, MarksKept DEF Reset, MarksKept
  <2>2. QED
    BY <2>1 DEF ArmInv, Marking, Listed, With, TypeOK
<1>4. ASSUME NEW j \in Ids, Strike(j)
      PROVE  ArmInv'
  <2>1. cal' = Without(cal, {j}) /\ armed' = armed /\ job' = job /\ now' = now
    BY <1>4, WriteResult, MarksKept DEF Strike, MarksKept
  <2>2. QED
    BY <2>1 DEF ArmInv, Marking, Listed, Without, Restrict, TypeOK
<1>5. CASE CloseNow
  BY <1>5 DEF CloseNow, ArmInv, Marking, Listed
<1>6. ASSUME NEW k \in Ops, Mark(k)
      PROVE  ArmInv'
  <2>1. job[k].id \in Ids /\ cal' = Marked(job[k].id) /\ armed' = armed /\ now' = now
    BY <1>6, JobType, WriteResult, MarksKept DEF Mark, MarksKept
  <2>2. ASSUME NEW i \in Ids, Listed(i)'
        PROVE  /\ Listed(i)
               /\ i = job[k].id => cal'[i] = Day(now)
               /\ i # job[k].id => cal'[i] = cal[i]
    BY <2>1, <2>2 DEF Marked, Listed, With
  <2>3. ASSUME NEW i \in Ids, Marking(i), i # job[k].id
        PROVE  Marking(i)'
    BY <1>6, <2>3, EntryType DEF Mark, Marking, TypeOK
  <2>4. QED
    BY <2>1, <2>2, <2>3 DEF ArmInv, Day
<1>7. ASSUME NEW k \in Ops, SeeDue(k) \/ Drop(k) \/ Act(k)
      PROVE  ArmInv'
  <2>1. armed' = armed /\ cal' = cal /\ now' = now /\ job[k].pc # "mark"
    BY <1>7 DEF SeeDue, Free, Drop, Act, Idle
  <2>2. \A h \in Ops \ {k} : job'[h] = job[h]
    BY <1>7 DEF SeeDue, Drop, Act, TypeOK
  <2>3. \A i \in Ids : Marking(i) => Marking(i)'
    BY <2>1, <2>2, EntryType DEF Marking
  <2>4. QED
    BY <2>1, <2>3 DEF ArmInv, Listed, Day
<1>8. ASSUME NEW j \in Ids, SkipEntry(j)
      PROVE  ArmInv'
  <2>1. cal' \in {Without(cal, {j}), Marked(j)} /\ armed' = armed /\ job' = job /\ now' = now
    BY <1>8, WriteResult, MarksKept DEF SkipEntry, MarksKept
  <2>2. QED
    BY <2>1 DEF ArmInv, Marking, Listed, Without, Restrict, Marked, With, TypeOK
<1>9. ASSUME NEW j \in Ids, Arm(j)
      PROVE  ArmInv'
  <2>0. Entries[j].op \in Ops
    BY EntryType
  <2>1. cal' = cal /\ now' = now /\ job[Entries[j].op] = Idle /\ cal[j] # Day(now) /\ Listed(j)
    BY <1>9 DEF Arm, Looks, Free, InLead, Unused, UnusedToday
  <2>2. job' = [job EXCEPT ![Entries[j].op] = [pc |-> "mark", id |-> j]]
    BY <1>9 DEF Arm
  <2>3. \A i \in Ids : Marking(i) => Marking(i)'
    BY <2>0, <2>1, <2>2, EntryType DEF Marking, TypeOK, Idle
  <2>4. Marking(j)'
    BY <2>0, <2>2 DEF Marking, TypeOK
  <2>5. CASE armed' = armed
    BY <2>1, <2>3, <2>5 DEF ArmInv, Listed, Day
  <2>6. CASE armed' = [armed EXCEPT ![j] = @ + 1]
    <3>1. armed[j] = 0
      <4>1. ~Marking(j)
        BY <2>1 DEF Marking, Idle
      <4>2. QED
        BY <2>1, <4>1 DEF ArmInv
    <3>2. QED
      BY <2>1, <2>3, <2>4, <2>6, <3>1 DEF ArmInv, Listed, Day, TypeOK
  <2>7. QED
    BY <1>9, <2>5, <2>6 DEF Arm
<1>10. CASE Reopen \/ Come \/ Leave \/ Mute \/ Block
  BY <1>10 DEF Reopen, Come, Leave, Mute, Block, ArmInv, Marking, Listed
<1>11. CASE Advance
  <2>1. cal' = cal /\ job' = job
    BY <1>11 DEF Advance
  <2>2. CASE Day(now') = Day(now)
    BY <1>11, <2>1, <2>2 DEF Advance, ArmInv, Marking, Listed, Day
  <2>3. CASE Day(now') # Day(now)
    BY <1>11, <2>1, <2>3 DEF Advance, ArmInv
  <2>4. QED
    BY <2>2, <2>3
<1>12. CASE Kill \/ Replaced
  <2>1. /\ cal' = cal /\ now' = now
        /\ \A i \in Ids : armed'[i] = 0 \/ (armed'[i] = armed[i] /\ ~Marking(i))
    BY <1>12, EntryType DEF Kill, Replaced, Recreated, Forget, Marking
  <2>2. QED
    BY <2>1 DEF ArmInv, Listed, Day
<1>13. CASE Update \/ \E t \in Scanners : Scan(t)
  BY <1>13 DEF Update, RequestUpdate, ApplyUpdate, RecordUpdate, UpdaterEnds, CheckRelease,
     ApplyAppUpdate, Scan, ScanUpdate, ArmInv, Marking, Listed
<1>14. CASE UNCHANGED vars
  BY <1>14 DEF vars, ArmInv, Marking, Listed
<1>15. QED
  BY <1>1, <1>2, <1>3, <1>4, <1>5, <1>6, <1>7, <1>8, <1>9, <1>10, <1>11, <1>12, <1>13,
     <1>14, RequestCases DEF Next, Requested, Thread

(* An entry announces its operation at most once a day, unless its day     *)
(* cannot be written.                                                      *)
THEOREM AnnouncedOnce ==
  ASSUME MarksKept
  PROVE  Spec => []ArmedOnce
<1>1. Init => ArmInv
  BY DEF Init, ArmInv
<1>2. TypeOK /\ ArmInv /\ [Next]_vars => ArmInv'
  BY MarksKept, ArmStep
<1>3. ArmInv => ArmedOnce
  BY DEF ArmInv, ArmedOnce
<1>4. QED
  BY <1>1, <1>2, <1>3, SchedulesTyped, PTL DEF Spec
==============================================================================
