------------------------------- MODULE Alerts -------------------------------
(***************************************************************************)
(* Health and resource alerts (health_watcher.py, perf_watcher.py,         *)
(* adapters/incidents.py, watched_store.py, alert_thresholds.py).  Two     *)
(* threads poll what is watched, tell an outage once it has lasted and its *)
(* end, and keep incidents in a file.  What they have told is in memory    *)
(* only; the list of watched containers and the thresholds are files that  *)
(* administrators change.                                                  *)
(***************************************************************************)
EXTENDS Channels, FiniteSetsExt

CONSTANTS
  Always,        \* watched in any case: "server", "mspt", "disk"
  Companions,    \* containers that may be watched besides
  Subject,       \* what keys the incident of each
  HealthPolls,   \* down_polls_before_alert
  LagPolls       \* polls a lag may be asked to last

ASSUME AlertsAssumption ==
  /\ HealthPolls \in Nat \ {0} /\ LagPolls \subseteq Nat \ {0}
  /\ \E m \in LagPolls : \A n \in LagPolls : m >= n
  /\ Always \subseteq {"server", "mspt", "disk"} /\ {"health", "perf"} \subseteq Threads
  /\ Companions \cap {"server", "mspt", "disk"} = {} /\ Always \cup Companions \subseteq Topics

Watchable == Always \cup Companions
Fresh == [streak |-> 0, alerted |-> FALSE]

VARIABLES
  level,      \* what a poll would read: "bad", "good"; "near", above the limit of the
              \* disk but not by a fifth
  watched,    \* the file of watched containers
  polls,      \* the file of thresholds: how long a lag must last
  mem,        \* _Watched of each, and its likes for lag and disk
  open,       \* the incidents not closed, in their file
  orphan      \* those whose watcher no longer knows it told them

watchVars == <<level, watched, polls, mem, open, orphan>>

Levels(s) == IF s = "disk" THEN {"bad", "near", "good"} ELSE {"bad", "good"}
StreakCap == Max(LagPolls \cup {HealthPolls}) + 1
ThreadOf(s) == IF s \in {"mspt", "disk"} THEN "perf" ELSE "health"
Key(s) == Subject[s]

AlertsTypeOK ==
  /\ level \in [Watchable -> {"bad", "near", "good"}]
  /\ watched \subseteq Companions /\ polls \in LagPolls
  /\ \E C \in SUBSET Companions :
       mem \in [Always \cup C -> [streak : 0..StreakCap, alerted : BOOLEAN]]
  /\ {open, orphan} \subseteq SUBSET {Subject[s] : s \in Watchable}

AlertsInit ==
  /\ level = [s \in Watchable |-> "good"]
  /\ watched = {} /\ polls = Max(LagPolls)
  /\ mem = [s \in Always |-> Fresh] /\ open = {} /\ orphan = {}

-----------------------------------------------------------------------------
(* Requests: watch_container, unwatch_container, set_alert_thresholds.  A  *)
(* change of the limits changes what a reading is.                         *)
KeepWatched(S) == \E w \in Writes("watched", watched, S) : watched' = w.data
KeepPolls(n) == \E w \in Writes("thresholds", polls, n) : polls' = w.data

Watch(c) ==
  /\ Event /\ c \notin watched
  /\ KeepWatched(watched \cup {c})
  /\ UNCHANGED <<channelVars, notifierVars, level, polls, mem, open, orphan>>

Unwatch(c) ==
  /\ Event /\ c \in watched
  /\ KeepWatched(watched \ {c})
  /\ UNCHANGED <<channelVars, notifierVars, level, polls, mem, open, orphan>>

SetThresholds(n) ==
  /\ Event
  /\ KeepPolls(n)
  /\ \E s \in Always \cap {"mspt", "disk"} :
       \E l \in Levels(s) : level' = [level EXCEPT ![s] = l]
  /\ UNCHANGED <<channelVars, notifierVars, watched, mem, open, orphan>>

-----------------------------------------------------------------------------
Polls(s) == CASE s = "disk" -> 1 [] s = "mspt" -> polls [] OTHER -> HealthPolls

(* A reading: beyond the limit, or well within it.                         *)
Bad(s) == level[s] = "bad"
Over(s) == level[s] = "good"

LastedExactly(s, n) == n = Polls(s)
Lasted(s, n) == n >= Polls(s)

Told(s) == mem[s].alerted

(* _tick_one, _tick_mspt, _tick_disk: a poll that reads something.  Only   *)
(* ">=" looks at a streak, which the model stops counting at StreakCap.    *)
Poll(s) ==
  LET n == Min({mem[s].streak + 1, StreakCap})
      Tell(what) == job' = [job EXCEPT ![ThreadOf(s)] = Notifying(s, what)] IN
  /\ s \in DOMAIN mem /\ job[ThreadOf(s)] = Idle
  /\ \/ /\ Bad(s)
        /\ mem' = [mem EXCEPT ![s].streak = n]
        /\ IF Lasted(s, n) /\ ~Told(s) THEN Tell("down") ELSE job' = job
     \/ Over(s) /\ Told(s) /\ Tell("up") /\ mem' = mem
     \/ Over(s) /\ ~Told(s) /\ mem' = [mem EXCEPT ![s] = Fresh] /\ job' = job
  /\ UNCHANGED <<events, channelVars, cache, astray, level, watched, polls, open, orphan>>

(* JsonIncidents.open and close: one incident for each subject at most.    *)
Journal(subject, down) == IF down THEN open \cup {subject} ELSE open \ {subject}

(* The incident follows the message; a write that fails is ignored.        *)
Record(t) ==
  LET s == job[t].about
      down == job[t].what = "down" IN
  /\ job[t].pc = "record" /\ job' = [job EXCEPT ![t] = Idle]
  /\ \E w \in Writes("incidents", open, Journal(Key(s), down)) : open' = w.data
  /\ mem' = [mem EXCEPT ![s] = IF down THEN [@ EXCEPT !.alerted = TRUE] ELSE Fresh]
  /\ orphan' = orphan \ {Key(s)}
  /\ UNCHANGED <<events, channelVars, cache, astray, level, watched, polls>>

(* _companions_now: the list is read at each round; what was known of a    *)
(* container that left it is dropped.  An unreadable list is an empty one. *)
Companion ==
  /\ job["health"] = Idle
  /\ \E ok \in Readable :
       LET now == Always \cup (IF ok THEN watched ELSE {}) IN
       /\ mem' = [s \in now |-> IF s \in DOMAIN mem THEN mem[s] ELSE Fresh]
       /\ orphan' = orphan \cup {Key(s) : s \in {c \in DOMAIN mem \ now : Told(c)}}
  /\ UNCHANGED <<events, channelVars, notifierVars, level, watched, polls, open>>

-----------------------------------------------------------------------------
Move(s) ==
  /\ Event
  /\ \E l \in Levels(s) \ {level[s]} : level' = [level EXCEPT ![s] = l]
  /\ UNCHANGED <<channelVars, notifierVars, watched, polls, mem, open, orphan>>

ForgetTold ==
  /\ mem' = [s \in Always |-> Fresh] /\ orphan' = open
  /\ UNCHANGED <<level, watched, polls, open>>

Unsettled(s) ==
  \/ s \in DOMAIN mem /\ Bad(s) /\ ~Told(s)
  \/ Key(s) \in open \ orphan /\ Over(s)

-----------------------------------------------------------------------------
(* The open incidents are those of the outages that were told and whose    *)
(* end was not: no outage closes the incident of another, and one whose    *)
(* incident stays open for ever is one mc-admin was stopped during, or     *)
(* whose container is no longer watched (_tick_one, _record_incident,      *)
(* JsonIncidents.open and close).                                          *)
IncidentsAreOutages ==
  open \ orphan = {Key(s) : s \in {c \in DOMAIN mem : Told(c)}}

(* An outage that lasts is told, and the incident of one that is over and  *)
(* stays over is closed, whatever the thresholds become meanwhile          *)
(* (_tick_one, _tick_mspt, _tick_disk).                                    *)
AlertsSettle == \A s \in Watchable : Unsettled(s) ~> ~Unsettled(s)
=============================================================================
