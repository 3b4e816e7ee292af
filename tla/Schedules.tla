----------------------------- MODULE Schedules -----------------------------
(***************************************************************************)
(* Programmed restarts and closures (domain/services/actions.py and        *)
(* maintenance.py, their adapters and the two background threads).  For    *)
(* each there is one announced operation, in memory, and a calendar, in a  *)
(* file, that announces it some time ahead: the daily restart, and the     *)
(* list of maintenances, on given days or on one date.  Administrators     *)
(* announce, cancel and reconfigure while the threads are between reading  *)
(* an operation that is due and carrying it out.                           *)
(***************************************************************************)
EXTENDS Updates, Functions

CONSTANTS
  Entries,     \* entries of the calendars: op, days, time of day, lead, defer, once
  Delays       \* delays an administrator may choose, in ticks

(* RecurringRestart, ScheduledMaintenance.  One date and some days of the  *)
(* week are both a set of days.                                            *)
Entry == [op : {"restart", "closure"}, days : SUBSET (0..MaxTime), at : 0..(DayLength - 1),
          lead : Nat \ {0}, defer : BOOLEAN, once : BOOLEAN]

ASSUME SchedulesAssumption ==
  /\ Entries \in [DOMAIN Entries -> Entry]
  /\ Delays \subseteq Nat \ {0}

Ops == {"restart", "closure"}
Ids == DOMAIN Entries
Never == -1
NoPlan == [at |-> Never]
Idle == [pc |-> "idle"]
Plans == [at : Nat, defer : BOOLEAN]

VARIABLES
  plan,      \* the operation announced, in memory
  cal,       \* the file: for every entry, the day it was last used
  job,       \* what each thread holds within a tick
  armed      \* times an entry was announced today

vars == <<now, events, gameVars, updateVars, appVars, plan, cal, job, armed>>

TypeOK ==
  /\ UpdatesTypeOK
  /\ plan \in [Ops -> Plans \cup {NoPlan}]
  /\ DOMAIN cal \subseteq Ids /\ \A i \in DOMAIN cal : cal[i] \in {Never} \cup Nat
  /\ job \in [Ops -> {Idle} \cup [pc : {"mark"}, id : Ids]
                            \cup [pc : {"drop", "act"}, plan : Plans]]
  /\ armed \in [Ids -> Nat]

Init ==
  /\ UpdatesInit
  /\ plan = [k \in Ops |-> NoPlan] /\ job = [k \in Ops |-> Idle]
  /\ cal = [i \in {} |-> Never]
  /\ armed = [i \in Ids |-> 0]

-----------------------------------------------------------------------------
(* _doorman_unfit_issues: an old image, a lost network, no container at    *)
(* all; any time, and only a closure minds.                                *)
DoormanUnfit(k) == k = "closure"

(* Requests.  A new announcement replaces the one there is.                *)
Announce(k, d, defer) ==
  /\ Event /\ plan' = [plan EXCEPT ![k] = [at |-> now + d, defer |-> defer]]
  /\ UNCHANGED <<now, gameVars, updateVars, appVars, cal, job, armed>>

Cancel(k) ==
  /\ Event /\ plan[k] # NoPlan /\ plan' = [plan EXCEPT ![k] = NoPlan]
  /\ UNCHANGED <<now, gameVars, updateVars, appVars, cal, job, armed>>

ScheduleRestart(d, defer) == Announce("restart", d, defer)
CancelRestart == Cancel("restart")
EnterLater(d, defer) == server # "closed" /\ Announce("closure", d, defer)
CancelMaintenance == Cancel("closure")

(* The thread of operation k is between two ticks.                         *)
Free(k) == job[k] = Idle /\ (k = "restart" => scan["thread"] = Resting)

Day(t) == t \div DayLength
With(f, x, y) == [z \in DOMAIN f \cup {x} |-> IF z = x THEN y ELSE f[z]]
Without(f, S) == Restrict(f, DOMAIN f \ S)
(* list: the entries of the file.                                          *)
Listed(i) == i \in DOMAIN cal
Past(i) == Entries[i].once /\ \A d \in Entries[i].days : d < Day(now)

Reset(i) ==
  /\ Event
  /\ \E w \in Writes("calendar", cal, With(cal, i, Never)) : cal' = w.data
  /\ armed' = [armed EXCEPT ![i] = 0]
  /\ UNCHANGED <<now, gameVars, updateVars, appVars, plan, job>>

Strike(i) ==
  /\ Event /\ Listed(i)
  /\ \E w \in Writes("calendar", cal, Without(cal, {i})) : cal' = w.data
  /\ UNCHANGED <<now, gameVars, updateVars, appVars, plan, job, armed>>

(* The daily restart, set again, forgets when it last fired; a maintenance *)
(* is a new entry, and its date may not be past.                           *)
SetDaily(i) == Entries[i].op = "restart" /\ Reset(i)
ClearDaily(i) == Entries[i].op = "restart" /\ Strike(i)
AddMaintenance(i) == Entries[i].op = "closure" /\ ~Listed(i) /\ ~Past(i) /\ Reset(i)
RemoveMaintenance(i) == Entries[i].op = "closure" /\ Strike(i)

(* _engage_maintenance: the server stops, then the doorman comes; either   *)
(* may fail.                                                               *)
Engage == server' \in {server, "closed", "down"} /\ players' = (players /\ server' = "open")

(* enter_maintenance without delay leaves an announced closure announced.  *)
CloseNow ==
  /\ Event /\ server # "closed" /\ Engage
  /\ UNCHANGED <<now, outside, updateVars, appVars, plan, cal, job, armed>>

(* exit_maintenance: the doorman leaves, then the server starts; either    *)
(* may fail.                                                               *)
Reopen ==
  /\ Event
  /\ plan' = [plan EXCEPT !["closure"] = NoPlan]
  /\ server' \in {"open", server, IF server = "closed" THEN "down" ELSE server}
  /\ UNCHANGED <<now, players, outside, updateVars, appVars, cal, job, armed>>

-----------------------------------------------------------------------------
(* The calendars.  An entry is used once a day; when its time has passed   *)
(* the day is marked and nothing is caught up.                             *)
Target(i) == Day(now) * DayLength + Entries[i].at
Today(i) == Listed(i) /\ Day(now) \in Entries[i].days
UnusedToday(i) == cal[i] # Day(now)
AnyTime(i) == TRUE
Unused(i) == UnusedToday(i)
Passed(i) == Today(i) /\ Unused(i) /\ now >= Target(i)
InLead(i) == Today(i) /\ Unused(i) /\ now < Target(i) /\ Target(i) - now <= Entries[i].lead

(* The maintenances are not looked at while a closure is announced or the  *)
(* server closed.                                                          *)
Looks(i) ==
  /\ Listed(i) /\ Free(Entries[i].op)
  /\ Entries[i].op = "closure" => plan["closure"] = NoPlan /\ server # "closed"

Marked(i) == IF Listed(i) THEN With(cal, i, Day(now)) ELSE cal

(* The date of an entry is past, or its time today.                        *)
SkipEntry(i) ==
  /\ Looks(i) /\ (Passed(i) \/ (Entries[i].op = "closure" /\ Past(i)))
  /\ \E w \in Writes("calendar", cal,
                     IF Entries[i].once THEN Without(cal, {i}) ELSE Marked(i)) : cal' = w.data
  /\ UNCHANGED <<now, events, gameVars, updateVars, appVars, plan, job, armed>>

(* The announcement is made, then the day marked.  A restart already       *)
(* announced is not replaced, and the day is marked all the same; so it is *)
(* when the doorman is not fit.                                            *)
Arm(i) ==
  LET k == Entries[i].op IN
  /\ Looks(i) /\ InLead(i)
  /\ job' = [job EXCEPT ![k] = [pc |-> "mark", id |-> i]]
  /\ \/ /\ plan[k] = NoPlan
        /\ plan' = [plan EXCEPT ![k] = [at |-> Target(i), defer |-> Entries[i].defer]]
        /\ armed' = [armed EXCEPT ![i] = @ + 1]
     \/ plan[k] # NoPlan /\ UNCHANGED <<plan, armed>>
     \/ DoormanUnfit(k) /\ UNCHANGED <<plan, armed>>
  /\ UNCHANGED <<now, events, gameVars, updateVars, appVars, cal>>

Mark(k) ==
  /\ job[k].pc = "mark" /\ job' = [job EXCEPT ![k] = Idle]
  /\ \E w \in Writes("calendar", cal, Marked(job[k].id)) : cal' = w.data
  /\ UNCHANGED <<now, events, gameVars, updateVars, appVars, plan, armed>>

-----------------------------------------------------------------------------
(* An operation that is due: read, then taken out, then carried out.  It   *)
(* stays announced, and is read again at each tick, while it defers to     *)
(* players, while the worker of the operator levels runs (for a restart)   *)
(* or a restoration does (for a closure), and while Docker cannot tell.    *)
DueOnTime(k) == plan[k].at = now
DueSince(k) == plan[k].at <= now
IsDue(k) == DueSince(k)

Unblocked(k) == {k, "docker"} \cap blocked = {}

SeeDue(k) ==
  /\ Free(k) /\ plan[k] # NoPlan /\ IsDue(k)
  /\ plan[k].defer => ConfirmedEmpty
  /\ Unblocked(k)
  /\ job' = [job EXCEPT ![k] = [pc |-> "drop", plan |-> plan[k]]]
  /\ UNCHANGED <<now, events, gameVars, updateVars, appVars, plan, cal, armed>>

(* cancel() takes out whatever is announced by now; a doorman that is not  *)
(* fit ends a closure here.                                                *)
Drop(k) ==
  /\ job[k].pc = "drop"
  /\ plan' = [plan EXCEPT ![k] = NoPlan]
  /\ \/ job' = [job EXCEPT ![k].pc = "act"]
     \/ DoormanUnfit(k) /\ job' = [job EXCEPT ![k] = Idle]
  /\ UNCHANGED <<now, events, gameVars, updateVars, appVars, cal, armed>>

(* restart() is refused during a maintenance; Docker may refuse both.      *)
Act(k) ==
  /\ job[k].pc = "act" /\ job' = [job EXCEPT ![k] = Idle]
  /\ \/ k = "restart" /\ UNCHANGED <<server, players>>
     \/ k = "restart" /\ server # "closed" /\ server' = "open" /\ players' = FALSE
     \/ k = "closure" /\ Engage
  /\ UNCHANGED <<now, events, outside, updateVars, appVars, plan, cal, armed>>

-----------------------------------------------------------------------------
(* A tick is short against the clock.                                      *)
Advance ==
  /\ now < MaxTime /\ \A k \in Ops : job[k] = Idle
  /\ now' = now + 1
  /\ armed' = IF Day(now') = Day(now) THEN armed ELSE [i \in Ids |-> 0]
  /\ UNCHANGED <<events, gameVars, updateVars, appVars, plan, cal, job>>

Come ==
  /\ server = "open" /\ ~players /\ players' = TRUE
  /\ UNCHANGED <<now, events, server, outside, updateVars, appVars, plan, cal, job, armed>>

Leave ==
  /\ players /\ players' = FALSE
  /\ UNCHANGED <<now, events, server, outside, updateVars, appVars, plan, cal, job, armed>>

Mute ==
  /\ Event /\ rcon' = ~rcon
  /\ UNCHANGED <<now, server, players, blocked, updateVars, appVars, plan, cal, job, armed>>

(* A restoration or the worker of the operator levels begins or ends, or   *)
(* Docker stops or starts answering.                                       *)
Block ==
  /\ Event
  /\ \E x \in {"docker", "restart", "closure"} :
        blocked' = IF x \in blocked THEN blocked \ {x} ELSE blocked \cup {x}
  /\ UNCHANGED <<now, server, players, rcon, updateVars, appVars, plan, cal, job, armed>>

(* What is in memory is lost: announcements, and an update not told yet.   *)
Forget ==
  /\ plan' = [k \in Ops |-> NoPlan] /\ job' = [k \in Ops |-> Idle]
  /\ armed' = [i \in Ids |-> IF \E k \in Ops : job[k].pc = "mark" /\ job[k].id = i
                               THEN 0 ELSE armed[i]]

Kill ==
  /\ Event /\ Forget /\ ForgetUpdate
  /\ UNCHANGED <<now, gameVars, updater, runs, appVars, cal>>

(* The thread of the restarts scans before it looks at what is announced.  *)
Scan(t) ==
  /\ t = "thread" => job["restart"] = Idle
  /\ ScanUpdate(t)
  /\ UNCHANGED <<plan, cal, job, armed>>

Update ==
  /\ RequestUpdate \/ UpdaterEnds \/ CheckRelease \/ ApplyAppUpdate
  /\ UNCHANGED <<plan, cal, job, armed>>

Replaced == Recreated /\ Forget /\ UNCHANGED cal

Thread(k) == SeeDue(k) \/ Drop(k) \/ Act(k)

(* The forms of the page.  Without a delay a closure is immediate (and a   *)
(* restart is Coordination's).                                            *)
RequestRestart == \E d \in Delays, defer \in BOOLEAN : ScheduleRestart(d, defer)
RequestClosure == CloseNow \/ \E d \in Delays, defer \in BOOLEAN : EnterLater(d, defer)
RequestDaily == \E i \in Ids : SetDaily(i) \/ ClearDaily(i)
RequestMaintenance == \E i \in Ids : AddMaintenance(i) \/ RemoveMaintenance(i)

Next ==
  \/ RequestRestart \/ CancelRestart \/ RequestClosure \/ CancelMaintenance
  \/ RequestDaily \/ RequestMaintenance
  \/ \E k \in Ops : Mark(k) \/ Thread(k)
  \/ \E i \in Ids : SkipEntry(i) \/ Arm(i)
  \/ \E t \in Scanners : Scan(t)
  \/ Reopen \/ Advance \/ Come \/ Leave \/ Mute \/ Block \/ Kill \/ Update \/ Replaced

(* Both threads tick every two seconds, whatever a tick raises, and a page *)
(* that began its scan ends it.                                            *)
Fairness ==
  /\ \A k \in Ops : WF_vars(Thread(k)) /\ WF_vars(Mark(k))
  /\ WF_vars(Scan("thread")) /\ WF_vars(scan["page"] # Resting /\ Scan("page"))

Spec == Init /\ [][Next]_vars /\ Fairness

-----------------------------------------------------------------------------
(* An entry of a calendar announces its operation at most once a day:      *)
(* cancelled, carried out or replaced, the operation does not come back,   *)
(* unless the entry is configured again or mc-admin stopped before it      *)
(* marked the day (_tick_recurring_restart, _tick_scheduled_maintenance).  *)
ArmedOnce == \A i \in Ids : armed[i] <= 1

(* An announced operation that is due is carried out, cancelled or         *)
(* refused, once the server stays empty and answers, Docker answers and no *)
(* other operation is in its way: putting it off never loses it            *)
(* (tick_scheduled_restart, tick_maintenance).                             *)
DueHappens ==
  \A k \in Ops :
    <>[](ConfirmedEmpty /\ Unblocked(k)) =>
      (plan[k] # NoPlan /\ plan[k].at <= now) ~> (plan[k] = NoPlan \/ plan[k].at > now)

(* The end of the last update waits to be told, and nobody is about to     *)
(* overwrite its operation, or to forget it without having read it.        *)
Untold ==
  /\ op # NoRun /\ op = runs /\ ~UpdaterRunning
  /\ asked = {} /\ \A t \in Scanners : scan[t].pc # "forget"

(* The end of an update is told, as the success or the failure it was,     *)
(* although the thread and a page may both scan it, take it from each      *)
(* other and fail on what the other left; unless mc-admin stops, the next  *)
(* update begins, or the exit code cannot be read, which is told as a      *)
(* success (_scan_update_outcome).                                         *)
EndIsTold ==
  <>[]("docker" \notin blocked) =>
    (Untold ~> told \in {updater, "unread", "lost"} \/ UpdaterRunning)
=============================================================================
