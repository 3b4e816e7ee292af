--------------------------- MODULE WatchersProofs ---------------------------
(***************************************************************************)
(* The threads that watch and notify, for any channels, players, watched   *)
(* containers and thresholds, and any number of requests and stops.        *)
(***************************************************************************)
EXTENDS Watchers, TLAPS

(* A write leaves the old content or the new one, and the new one unless   *)
(* it may fail before the replacement.                                     *)
LEMMA WriteResult ==
  ASSUME NEW file, NEW old, NEW new, NEW w \in Writes(file, old, new)
  PROVE  /\ w.data \in {old, new}
         /\ file \notin FailsBefore => w.data = new
BY DEF Writes

-----------------------------------------------------------------------------
(* Types.                                                                  *)

(* The file of channels is left as it is, or its date changes.             *)
Kept == channels' = channels /\ mtime' = mtime
Changed == Kept \/ mtime' = mtime + 1

ChannelFile(f) == DOMAIN f \subseteq Ids /\ f \in [DOMAIN f -> Channel]

(* What the requests write are channels.                                   *)
LEMMA FileType ==
  ASSUME ChannelFile(channels), NEW id \in Ids
  PROVE  /\ \A to \in Addresses : \A on \in SUBSET Kinds : ChannelFile(Added(id, to, on))
         /\ id \in DOMAIN channels =>
              /\ \A to \in Addresses : \A on \in SUBSET Kinds :
                   ChannelFile(Put(id, Edited(id, to, on)))
              /\ ChannelFile(Put(id, [channels[id] EXCEPT !.enabled = ~@]))
              /\ channels[id].to \in Addresses /\ channels[id].events \in SUBSET Kinds
         /\ ChannelFile(Without(id))
<1>1. ASSUME NEW c \in Channel PROVE ChannelFile(Put(id, c))
  BY <1>1 DEF ChannelFile, Put
<1>2. ASSUME NEW to \in Addresses, NEW on \in SUBSET Kinds
      PROVE  [to |-> to, events |-> on, enabled |-> TRUE] \in Channel
  BY DEF Channel
<1>3. ASSUME id \in DOMAIN channels
      PROVE  channels[id] \in Channel
  BY <1>3 DEF ChannelFile
<1>4. ASSUME id \in DOMAIN channels, NEW to \in Addresses, NEW on \in SUBSET Kinds
      PROVE  Edited(id, to, on) \in Channel
  BY <1>3, <1>4 DEF Edited, Channel
<1>5. ASSUME id \in DOMAIN channels
      PROVE  [channels[id] EXCEPT !.enabled = ~@] \in Channel
  BY <1>3, <1>5 DEF Channel
<1>6. ChannelFile(Without(id))
  BY DEF ChannelFile, Without, Restrict
<1>7. QED
  BY <1>1, <1>2, <1>3, <1>4, <1>5, <1>6 DEF Added, Channel

(* A save keeps the type of the file and dates what it changes.            *)
LEMMA SaveStep ==
  ASSUME ChannelFile(channels), mtime \in Nat, NEW STATE new, ChannelFile(new), Save(new)
  PROVE  ChannelFile(channels)' /\ mtime' \in Nat /\ Changed
<1>1. PICK w \in Writes("notifications", channels, new) :
        /\ channels' = w.data
        /\ mtime' = IF w.ok \/ w.data # channels THEN mtime + 1 ELSE mtime
  BY DEF Save
<1>2. w.data \in {channels, new}
  BY WriteResult
<1>3. ChannelFile(w.data)
  BY <1>2
<1>4. ChannelFile(channels')
  BY <1>1, <1>3
<1>5. QED
  BY <1>1, <1>4 DEF Changed, Kept, ChannelFile

LEMMA EventNat ==
  ASSUME events \in 0..MaxEvents, Event
  PROVE  events' \in 0..MaxEvents
BY ChannelsAssumption DEF Event

(* The requests about channels.                                            *)
LEMMA EditStep ==
  ASSUME ChannelsTypeOK, EditChannels
  PROVE  ChannelsTypeOK' /\ Changed /\ UNCHANGED notifierVars
<1>1. ChannelFile(channels) /\ mtime \in Nat
  BY DEF ChannelsTypeOK, ChannelFile
<1>2. UNCHANGED notifierVars
  BY DEF EditChannels, ToggleChannel, RemoveChannel, ReadSwitches, AddChannel,
     UpdateChannel, FlipSwitch
<1>3. events' \in 0..MaxEvents
  BY EventNat DEF EditChannels, ToggleChannel, RemoveChannel, ReadSwitches, AddChannel,
     UpdateChannel, FlipSwitch, ChannelsTypeOK
<1>4. edit' = NoEdit \/ edit' \in [id : Ids, events : SUBSET Kinds]
  <2>1. ASSUME NEW id \in Ids, ReadSwitches(id)
        PROVE  edit' \in [id : Ids, events : SUBSET Kinds]
    BY <1>1, <2>1, FileType DEF ReadSwitches
  <2>2. QED
    BY <2>1 DEF EditChannels, ToggleChannel, RemoveChannel, AddChannel,
       UpdateChannel, FlipSwitch, ChannelsTypeOK
<1>5. ChannelFile(channels)' /\ mtime' \in Nat /\ Changed
  <2>1. ASSUME NEW id \in Ids, ToggleChannel(id) \/ RemoveChannel(id) \/ ReadSwitches(id)
        PROVE  ChannelFile(channels)' /\ mtime' \in Nat /\ Changed
    <3>1. CASE ToggleChannel(id)
      BY <1>1, <3>1, FileType, SaveStep DEF ToggleChannel
    <3>2. CASE RemoveChannel(id)
      BY <1>1, <3>2, FileType, SaveStep DEF RemoveChannel
    <3>3. CASE ReadSwitches(id)
      BY <1>1, <3>3 DEF ReadSwitches, Changed, Kept, ChannelFile
    <3>4. QED
      BY <2>1, <3>1, <3>2, <3>3
  <2>2. ASSUME NEW id \in Ids, NEW to \in Addresses, NEW on \in SUBSET Kinds,
               AddChannel(id, to, on) \/ UpdateChannel(id, to, on)
        PROVE  ChannelFile(channels)' /\ mtime' \in Nat /\ Changed
    BY <1>1, <2>2, FileType, SaveStep DEF AddChannel, UpdateChannel
  <2>3. ASSUME NEW k \in Kinds, FlipSwitch(k)
        PROVE  ChannelFile(channels)' /\ mtime' \in Nat /\ Changed
    <3> DEFINE on == IF k \in edit.events THEN edit.events \ {k} ELSE edit.events \cup {k}
    <3>1. edit.id \in Ids /\ on \in SUBSET Kinds
      BY <2>3 DEF FlipSwitch, ChannelsTypeOK
    <3>2. CASE edit.id \in DOMAIN channels
      <4>1. Save(Put(edit.id, Edited(edit.id, channels[edit.id].to, on)))
        BY <2>3, <3>2 DEF FlipSwitch
      <4>2. ChannelFile(Put(edit.id, Edited(edit.id, channels[edit.id].to, on)))
        BY <1>1, <3>1, <3>2, FileType
      <4>3. QED
        BY <1>1, <4>1, <4>2, SaveStep
    <3>3. CASE edit.id \notin DOMAIN channels
      BY <1>1, <2>3, <3>3 DEF FlipSwitch, Changed, Kept, ChannelFile
    <3>4. QED
      BY <3>2, <3>3
  <2>4. QED
    BY <2>1, <2>2, <2>3 DEF EditChannels
<1>6. QED
  BY <1>2, <1>3, <1>4, <1>5 DEF ChannelsTypeOK, ChannelFile, notifierVars

(* What the file holds can be sent to.                                     *)
LEMMA ActiveType ==
  ASSUME ChannelsTypeOK
  PROVE  Active(channels) \in SUBSET Target
BY DEF ChannelsTypeOK, Active, Channel, Target

LEMMA NotifyType ==
  ASSUME ChannelsTypeOK, NEW t \in Threads, Notify(t)
  PROVE  ChannelsTypeOK'
<1>1. job[t] \in Job /\ mtime \in Nat /\ astray \in BOOLEAN
      /\ cache \in [mtime : Nat \cup {-1}, targets : SUBSET Target]
  BY DEF Notify, Stat, List, SetTargets, Send, Idle, ChannelsTypeOK
<1>2. Stat(t) => /\ job' \in [Threads -> Job \cup {Idle}]
                 /\ cache' \in [mtime : Nat \cup {-1}, targets : SUBSET Target]
                 /\ astray' \in BOOLEAN
  <2>2. [job[t] EXCEPT !.pc = "send"] \in Job
    BY <1>1 DEF Job
  <2>3. [job[t] EXCEPT !.pc = "list"] \in Job
    BY <1>1 DEF Job
  <2>4. ASSUME Stat(t) PROVE job' \in [Threads -> Job \cup {Idle}]
    BY <2>2, <2>3, <2>4 DEF Stat, ChannelsTypeOK
  <2>5. ASSUME Stat(t) PROVE cache' \in [mtime : Nat \cup {-1}, targets : SUBSET Target]
    BY <1>1, <2>5 DEF Stat
  <2>6. ASSUME Stat(t) PROVE astray' \in BOOLEAN
    BY <1>1, <2>6, Zenon DEF Stat
  <2>7. QED
    BY <2>4, <2>5, <2>6
<1>3. List(t) => job' \in [Threads -> Job \cup {Idle}] /\ astray' \in BOOLEAN /\ UNCHANGED cache
  <2>1. ASSUME NEW ok \in BOOLEAN
        PROVE  [job[t] EXCEPT !.pc = "set", !.targets = Loaded(ok)] \in Job
    BY <1>1, ActiveType DEF Loaded, Job
  <2>2. ASSUME NEW ok \in BOOLEAN, job' = [job EXCEPT ![t].pc = "set", ![t].targets = Loaded(ok)]
        PROVE  job' \in [Threads -> Job \cup {Idle}]
    <3>1. job' = [job EXCEPT ![t] = [job[t] EXCEPT !.pc = "set", !.targets = Loaded(ok)]]
      BY <2>2, <1>1 DEF ChannelsTypeOK
    <3>2. QED
      BY <2>1, <3>1 DEF ChannelsTypeOK
  <2>3. ASSUME NEW ok \in BOOLEAN, astray' = (astray \/ ~ok) PROVE astray' \in BOOLEAN
    BY <1>1, <2>3
  <2>4. QED
    BY <2>2, <2>3 DEF List
<1>4. SetTargets(t) => /\ job' \in [Threads -> Job \cup {Idle}]
                       /\ cache' \in [mtime : Nat \cup {-1}, targets : SUBSET Target]
                       /\ UNCHANGED astray
  BY <1>1 DEF SetTargets, Job, DateKept, DateBefore, ChannelsTypeOK
<1>5. Send(t) => job' \in [Threads -> Job \cup {Idle}] /\ UNCHANGED <<cache, astray>>
  BY <1>1 DEF Send, Job, ChannelsTypeOK
<1>6. UNCHANGED <<events, channels, mtime, edit>>
  BY DEF Notify, channelVars
<1>7. /\ job' \in [Threads -> Job \cup {Idle}]
      /\ cache' \in [mtime : Nat \cup {-1}, targets : SUBSET Target]
      /\ astray' \in BOOLEAN
  BY <1>1, <1>2, <1>3, <1>4, <1>5 DEF Notify
<1>8. QED
  BY <1>6, <1>7 DEF ChannelsTypeOK

(* A thread that is not notifying begins a message, or has none; a message *)
(* that was sent is over, or another follows it.                           *)
Messages == {Notifying(a, w) : a \in Topics, w \in {"down", "up", "first"}}

Turn(t) ==
  /\ job[t] = Idle \/ job[t].pc = "record"
  /\ \E m \in Messages \cup {Idle} : job' = [job EXCEPT ![t] = m]
  /\ UNCHANGED <<channels, mtime, cache, astray>>

LEMMA TurnType ==
  ASSUME ChannelsTypeOK, NEW t \in Threads, Turn(t)
  PROVE  /\ job' \in [Threads -> Job \cup {Idle}]
         /\ UNCHANGED <<channels, mtime, cache, astray>>
<1>1. ASSUME NEW a \in Topics, NEW w \in {"down", "up", "first"}
      PROVE  Notifying(a, w) \in Job
  BY DEF Notifying, Job, ChannelsTypeOK
<1>2. QED
  BY <1>1 DEF Turn, Messages, ChannelsTypeOK

(* Nothing the notifier or its channels are made of changes.               *)
Aside == UNCHANGED <<channelVars, notifierVars>>

LEMMA WatchingCases ==
  ASSUME Watching
  PROVE  /\ Aside \/ \E t \in {"health", "perf"} : Turn(t)
         /\ UNCHANGED edit /\ (Event \/ UNCHANGED events)
<1>1. ASSUME NEW s \in Watchable, Poll(s)
      PROVE  /\ Aside \/ \E t \in {"health", "perf"} : Turn(t)
             /\ UNCHANGED <<edit, events>>
  <2>1. s \in Topics /\ ThreadOf(s) \in {"health", "perf"}
    BY AlertsAssumption DEF Watchable, ThreadOf
  <2>2. UNCHANGED <<channelVars, cache, astray, events>> /\ job[ThreadOf(s)] = Idle
    BY <1>1 DEF Poll
  <2>3. job' = job \/ \E w \in {"down", "up"} :
          job' = [job EXCEPT ![ThreadOf(s)] = Notifying(s, w)]
    BY <1>1 DEF Poll
  <2>4. CASE job' = job
    BY <2>2, <2>4 DEF Aside, notifierVars, channelVars
  <2>5. CASE \E w \in {"down", "up"} : job' = [job EXCEPT ![ThreadOf(s)] = Notifying(s, w)]
    <3>1. PICK w \in {"down", "up"} : job' = [job EXCEPT ![ThreadOf(s)] = Notifying(s, w)]
      BY <2>5
    <3>2. Notifying(s, w) \in Messages
      BY <2>1 DEF Messages
    <3>3. Turn(ThreadOf(s))
      BY <2>2, <3>1, <3>2 DEF Turn, channelVars
    <3>4. QED
      BY <2>1, <2>2, <3>3 DEF channelVars
  <2>6. QED
    BY <2>3, <2>4, <2>5
<1>2. ASSUME NEW t \in {"health", "perf"}, Record(t)
      PROVE  Turn(t) /\ UNCHANGED <<edit, events>>
  BY <1>2 DEF Record, Turn, channelVars
<1>3. ASSUME ChangeWatched \/ ChangeThresholds \/ Companion \/ \E s \in Watchable : Move(s)
      PROVE  Aside /\ (Event \/ UNCHANGED events)
  BY <1>3 DEF ChangeWatched, ChangeThresholds, Watch, Unwatch, SetThresholds, Companion, Move,
     Aside
<1>4. QED
  BY <1>1, <1>2, <1>3 DEF Watching, Aside, channelVars

LEMMA PlayersCases ==
  ASSUME ChannelsTypeOK, Server \/ Following
  PROVE  /\ Aside \/ Turn("players")
         /\ UNCHANGED edit /\ (Event \/ UNCHANGED events)
<1>1. ASSUME Server \/ Read
      PROVE  Aside /\ (Event \/ UNCHANGED events)
  BY <1>1 DEF Server, Read, Come, Go, Rotate, ServerKilled, Aside
<1>2. /\ Notifying("player", "first") \in Messages
      /\ Notifying("player", "up") \in Messages
      /\ Notifying("new_player", "up") \in Messages
  BY PlayersAssumption DEF Messages
<1>3. ASSUME Handle
      PROVE  Turn("players") /\ UNCHANGED <<edit, events>>
  <2>1. PICK fresh \in BOOLEAN :
          \E next \in MayNotify(fresh) : job' = [job EXCEPT !["players"] = next]
    BY <1>3 DEF Handle
  <2>2. MayNotify(fresh) \subseteq Messages \cup {Idle}
    BY <1>2 DEF MayNotify
  <2>3. job["players"] = Idle /\ UNCHANGED <<events, channelVars, cache, astray>>
    BY <1>3 DEF Handle
  <2>4. QED
    BY <2>1, <2>2, <2>3 DEF Turn, channelVars
<1>4. ASSUME Handled
      PROVE  Turn("players") /\ UNCHANGED <<edit, events>>
  BY <1>2, <1>4 DEF Handled, Turn, channelVars
<1>5. QED
  BY <1>1, <1>3, <1>4 DEF Following, Aside, channelVars

(* What a step does to the channels and to the notifier.                   *)
LEMMA StepCases ==
  ASSUME ChannelsTypeOK, [Next]_vars
  PROVE  \/ Changed /\ UNCHANGED notifierVars
         \/ \E t \in Threads : Notify(t)
         \/ \E t \in Threads : Turn(t)
         \/ Kill
<1>1. Aside => Changed /\ UNCHANGED notifierVars
  BY DEF Aside, Changed, Kept, channelVars
<1>2. UNCHANGED vars => Aside
  BY DEF vars, Aside
<1>3. {"health", "perf", "players"} \subseteq Threads
  BY AlertsAssumption, PlayersAssumption
<1>4. QED
  BY <1>1, <1>2, <1>3, EditStep, WatchingCases, PlayersCases DEF Next

LEMMA ChannelsTypeStep ==
  ASSUME ChannelsTypeOK, [Next]_vars
  PROVE  ChannelsTypeOK'
<1>1. ASSUME Aside \/ \E t \in Threads : Turn(t), UNCHANGED edit, Event \/ UNCHANGED events
      PROVE  ChannelsTypeOK'
  <2>1. events' \in 0..MaxEvents
    BY <1>1, EventNat DEF ChannelsTypeOK
  <2>2. CASE Aside
    BY <2>1, <2>2 DEF Aside, channelVars, notifierVars, ChannelsTypeOK
  <2>3. CASE \E t \in Threads : Turn(t)
    BY <1>1, <2>1, <2>3, TurnType DEF ChannelsTypeOK
  <2>4. QED
    BY <1>1, <2>2, <2>3
<1>2. CASE UNCHANGED vars
  BY <1>1, <1>2 DEF vars, Aside, channelVars
<1>3. CASE Kill
  <2>1. events' \in 0..MaxEvents
    BY <1>3, EventNat DEF ChannelsTypeOK, Kill
  <2>2. QED
    BY <1>3, <2>1 DEF Kill, ChannelsTypeOK, NoCache
<1>4. {"health", "perf", "players"} \subseteq Threads
  BY AlertsAssumption, PlayersAssumption
<1>5. QED
  BY <1>1, <1>2, <1>3, <1>4, EditStep, NotifyType, WatchingCases, PlayersCases DEF Next

-----------------------------------------------------------------------------
(* Alerts.                                                                 *)
LEMMA CapType == StreakCap \in Nat \ {0}
<1> DEFINE S == LagPolls \cup {HealthPolls}
<1>1. \E m \in S : \A n \in S : m >= n
  BY AlertsAssumption
<1>2. Max(S) \in S
  BY <1>1 DEF Max
<1>3. Max(S) \in Nat
  BY <1>2, AlertsAssumption
<1>4. StreakCap = Max(S) + 1
  BY DEF StreakCap
<1> HIDE DEF S
<1>5. QED
  BY <1>3, <1>4

Memory == [streak : 0..StreakCap, alerted : BOOLEAN]
MemType(f) == Always \subseteq DOMAIN f /\ DOMAIN f \subseteq Watchable /\ f \in [DOMAIN f -> Memory]

LEMMA MemTypes ==
  ASSUME NEW f
  PROVE  (\E C \in SUBSET Companions : f \in [Always \cup C -> Memory]) <=> MemType(f)
<1>1. ASSUME MemType(f) PROVE \E C \in SUBSET Companions : f \in [Always \cup C -> Memory]
  <2>1. DOMAIN f = Always \cup (DOMAIN f \cap Companions)
    BY <1>1 DEF MemType, Watchable
  <2>2. QED
    BY <1>1, <2>1 DEF MemType
<1>2. QED
  BY <1>1 DEF MemType, Watchable

LEMMA FreshType == Fresh \in Memory
BY CapType DEF Fresh, Memory

(* A thread is notifying of something it watches.                          *)
Own ==
  \A t \in {"health", "perf"} :
    job[t] # Idle => job[t].about \in DOMAIN mem /\ ThreadOf(job[t].about) = t

AlertsInv == AlertsTypeOK /\ Own

Subjects == {Subject[s] : s \in Watchable}

LEMMA PollStep ==
  ASSUME ChannelsTypeOK, AlertsInv, NEW s \in Watchable, Poll(s)
  PROVE  /\ AlertsInv' /\ DOMAIN mem' = DOMAIN mem /\ UNCHANGED <<open, orphan>>
         /\ \A c \in DOMAIN mem : mem'[c].alerted = mem[c].alerted
<1>1. MemType(mem)
  BY MemTypes DEF AlertsInv, AlertsTypeOK, Memory
<1> DEFINE n == Min({mem[s].streak + 1, StreakCap})
<1>2. s \in DOMAIN mem /\ mem[s] \in Memory /\ ThreadOf(s) \in {"health", "perf"}
  BY <1>1 DEF Poll, MemType, ThreadOf
<1>3. n \in 0..StreakCap
  <2>1. mem[s].streak + 1 \in Nat /\ StreakCap \in Nat
    BY <1>2, CapType DEF Memory
  <2>2. \E x \in {mem[s].streak + 1, StreakCap} : \A y \in {mem[s].streak + 1, StreakCap} : x <= y
    BY <2>1
  <2>3. n \in {mem[s].streak + 1, StreakCap} /\ n <= StreakCap
    BY <2>2 DEF Min
  <2>4. QED
    BY <2>1, <2>3
<1>4. mem' \in {mem, [mem EXCEPT ![s].streak = n], [mem EXCEPT ![s] = Fresh]}
  BY DEF Poll
<1>5. MemType(mem') /\ DOMAIN mem' = DOMAIN mem
  BY <1>1, <1>2, <1>3, <1>4, FreshType DEF MemType, Memory
<1>6. \A c \in DOMAIN mem : mem'[c].alerted = mem[c].alerted
  <2>1. CASE mem' = [mem EXCEPT ![s].streak = n]
    BY <1>1, <1>2, <2>1 DEF MemType, Memory
  <2>2. CASE Over(s) /\ ~Told(s) /\ mem' = [mem EXCEPT ![s] = Fresh]
    <3>1. mem[s].alerted = FALSE
      BY <1>2, <2>2 DEF Told, Memory
    <3>2. QED
      BY <1>1, <1>2, <2>2, <3>1 DEF MemType, Fresh
  <2>3. CASE mem' = mem
    BY <2>3
  <2>4. QED
    BY <2>1, <2>2, <2>3 DEF Poll
<1>7. UNCHANGED <<level, watched, polls, open, orphan>>
  BY DEF Poll
<1>8. AlertsTypeOK'
  BY <1>5, <1>7, MemTypes DEF AlertsInv, AlertsTypeOK, Memory
<1>9. Own'
  <2>1. job' = job \/ \E w \in {"down", "up"} :
          job' = [job EXCEPT ![ThreadOf(s)] = Notifying(s, w)]
    BY DEF Poll
  <2>2. QED
    BY <1>2, <1>5, <2>1, AlertsAssumption DEF AlertsInv, Own, Notifying, ChannelsTypeOK
<1>10. QED
  BY <1>5, <1>6, <1>7, <1>8, <1>9 DEF AlertsInv

LEMMA RecordStep ==
  ASSUME ChannelsTypeOK, AlertsInv, NEW t \in {"health", "perf"}, Record(t)
  PROVE  AlertsInv'
<1>1. MemType(mem)
  BY MemTypes DEF AlertsInv, AlertsTypeOK, Memory
<1> DEFINE s == job[t].about
<1>2. s \in DOMAIN mem /\ s \in Watchable /\ mem[s] \in Memory /\ ThreadOf(s) = t
  BY <1>1 DEF Record, AlertsInv, Own, MemType, Idle
<1>3. MemType(mem') /\ DOMAIN mem' = DOMAIN mem
  <2>1. [mem[s] EXCEPT !.alerted = TRUE] \in Memory
    BY <1>2 DEF Memory
  <2>2. \E m \in Memory : mem' = [mem EXCEPT ![s] = m]
    BY <2>1, FreshType DEF Record
  <2>3. QED
    BY <1>1, <1>2, <2>2 DEF MemType
<1>4. UNCHANGED <<level, watched, polls>>
  BY DEF Record
<1>5. open' \subseteq Subjects /\ orphan' \subseteq Subjects
  <2>1. open \subseteq Subjects /\ orphan \subseteq Subjects
    BY DEF AlertsInv, AlertsTypeOK, Subjects
  <2>2. Key(s) \in Subjects
    BY <1>2 DEF Key, Subjects
  <2>3. PICK w \in Writes("incidents", open, Journal(Key(s), job[t].what = "down")) :
          open' = w.data
    BY DEF Record
  <2>4. open' \in {open, open \cup {Key(s)}, open \ {Key(s)}}
    BY <2>3, WriteResult DEF Journal
  <2>5. orphan' = orphan \ {Key(s)}
    BY DEF Record
  <2>6. QED
    BY <2>1, <2>2, <2>4, <2>5
<1>6. AlertsTypeOK'
  BY <1>3, <1>4, <1>5, MemTypes DEF AlertsInv, AlertsTypeOK, Memory, Subjects
<1>7. Own'
  <2>1. job' = [job EXCEPT ![t] = Idle]
    BY DEF Record
  <2>2. QED
    BY <1>3, <2>1, AlertsAssumption DEF AlertsInv, Own, ChannelsTypeOK
<1>8. QED
  BY <1>6, <1>7 DEF AlertsInv

LEMMA CompanionStep ==
  ASSUME ChannelsTypeOK, AlertsInv, Companion
  PROVE  AlertsInv'
<1>1. MemType(mem) /\ watched \subseteq Companions
  BY MemTypes DEF AlertsInv, AlertsTypeOK, Memory
<1>2. PICK W \in SUBSET Companions :
        /\ mem' = [s \in Always \cup W |-> IF s \in DOMAIN mem THEN mem[s] ELSE Fresh]
        /\ orphan' = orphan \cup {Key(s) : s \in {c \in DOMAIN mem \ (Always \cup W) : Told(c)}}
  BY <1>1 DEF Companion
<1>3. MemType(mem')
  BY <1>1, <1>2, FreshType DEF MemType, Watchable
<1>4. orphan' \subseteq Subjects
  <2>1. orphan \subseteq Subjects
    BY DEF AlertsInv, AlertsTypeOK, Subjects
  <2>2. QED
    BY <1>1, <1>2, <2>1 DEF Key, Subjects, MemType
<1>5. UNCHANGED <<level, watched, polls, open, job>> /\ job["health"] = Idle
  BY DEF Companion, notifierVars
<1>6. AlertsTypeOK'
  BY <1>3, <1>4, <1>5, MemTypes DEF AlertsInv, AlertsTypeOK, Memory, Subjects
<1>7. Own'
  <2>1. job["perf"] # Idle => job["perf"].about \in Always
    BY <1>1, AlertsAssumption DEF AlertsInv, Own, ThreadOf, MemType, Watchable
  <2>2. QED
    BY <1>2, <1>5, <2>1 DEF AlertsInv, Own
<1>8. QED
  BY <1>6, <1>7 DEF AlertsInv

(* Every step keeps what a thread tells among what it watches.             *)
LEMMA AlertsStep ==
  ASSUME ChannelsTypeOK, AlertsInv, [Next]_vars
  PROVE  AlertsInv'
<1>0. MemType(mem) /\ open \subseteq Subjects /\ orphan \subseteq Subjects
  BY MemTypes DEF AlertsInv, AlertsTypeOK, Memory, Subjects
<1>1. CASE \E s \in Watchable : Poll(s)
  BY <1>1, PollStep
<1>2. CASE \E t \in {"health", "perf"} : Record(t)
  BY <1>2, RecordStep
<1>3. CASE Companion
  BY <1>3, CompanionStep
<1>4. ASSUME NEW c \in Companions, Watch(c) \/ Unwatch(c) PROVE AlertsInv'
  <2>1. watched' \subseteq Companions
    BY <1>4, WriteResult DEF Watch, Unwatch, KeepWatched, AlertsInv, AlertsTypeOK
  <2>2. QED
    BY <1>4, <2>1 DEF Watch, Unwatch, notifierVars, AlertsInv, AlertsTypeOK, Own
<1>5. ASSUME NEW n \in LagPolls, SetThresholds(n) PROVE AlertsInv'
  <2>1. polls' \in LagPolls
    BY <1>5, WriteResult DEF SetThresholds, KeepPolls, AlertsInv, AlertsTypeOK
  <2>2. level' \in [Watchable -> {"bad", "near", "good"}]
    BY <1>5 DEF SetThresholds, Levels, AlertsInv, AlertsTypeOK, Watchable
  <2>3. QED
    BY <1>5, <2>1, <2>2 DEF SetThresholds, notifierVars, AlertsInv, AlertsTypeOK, Own
<1>6. ASSUME NEW s \in Watchable, Move(s) PROVE AlertsInv'
  <2>1. level' \in [Watchable -> {"bad", "near", "good"}]
    BY <1>6 DEF Move, Levels, AlertsInv, AlertsTypeOK
  <2>2. QED
    BY <1>6, <2>1 DEF Move, notifierVars, AlertsInv, AlertsTypeOK, Own
<1>7. ASSUME UNCHANGED watchVars, UNCHANGED notifierVars PROVE AlertsInv'
  BY <1>7 DEF watchVars, notifierVars, AlertsInv, AlertsTypeOK, Own
<1>8. ASSUME NEW t \in Threads, Notify(t), UNCHANGED watchVars PROVE AlertsInv'
  <2>1. ASSUME NEW u \in {"health", "perf"}, job'[u] # Idle
        PROVE  job[u] # Idle /\ job'[u].about = job[u].about
    BY <1>8, <2>1, AlertsAssumption
       DEF Notify, Stat, List, SetTargets, Send, Idle, Job, ChannelsTypeOK
  <2>2. Own'
    BY <1>8, <2>1 DEF AlertsInv, Own, watchVars
  <2>3. QED
    BY <1>8, <2>2 DEF AlertsInv, AlertsTypeOK, watchVars
<1>9. ASSUME Server \/ Following, UNCHANGED watchVars PROVE AlertsInv'
  <2>1. ASSUME NEW u \in {"health", "perf"} PROVE job'[u] = job[u]
    BY <1>9, PlayersCases, AlertsAssumption
       DEF Aside, Turn, notifierVars, ChannelsTypeOK
  <2>2. Own'
    BY <1>9, <2>1 DEF AlertsInv, Own, watchVars
  <2>3. QED
    BY <1>9, <2>2 DEF AlertsInv, AlertsTypeOK, watchVars
<1>10. CASE Kill
  <2>1. job' = [t \in Threads |-> Idle] /\ mem' = [s \in Always |-> Fresh]
        /\ orphan' = open /\ UNCHANGED <<level, watched, polls, open>>
    BY <1>10 DEF Kill, ForgetTold
  <2>2. MemType(mem')
    BY <2>1, FreshType DEF MemType, Watchable
  <2>3. Own'
    BY <2>1, AlertsAssumption DEF Own
  <2>4. AlertsTypeOK'
    BY <1>0, <2>1, <2>2, MemTypes DEF AlertsInv, AlertsTypeOK, Memory, Subjects
  <2>5. QED
    BY <2>3, <2>4 DEF AlertsInv
<1>11. CASE UNCHANGED vars
  BY <1>7, <1>11 DEF vars
<1>12. QED
  BY <1>1, <1>2, <1>3, <1>4, <1>5, <1>6, <1>7, <1>8, <1>9, <1>10, <1>11, EditStep
     DEF Next, Watching, ChangeWatched, ChangeThresholds

(* No container bears the name under which the incidents of another are    *)
(* kept, and the file of incidents can be replaced.                        *)
OwnSubjects ==
  /\ \A s, u \in Watchable : Subject[s] = Subject[u] => s = u
  /\ "incidents" \notin FailsBefore

ToldNow == {c \in DOMAIN mem : Told(c)}

(* The incidents follow what the threads told.                             *)
LEMMA IncidentsStep ==
  ASSUME OwnSubjects, ChannelsTypeOK, AlertsInv, IncidentsAreOutages, [Next]_vars
  PROVE  IncidentsAreOutages'
<1>0. MemType(mem) /\ watched \subseteq Companions
  BY MemTypes DEF AlertsInv, AlertsTypeOK, Memory
<1>1. ASSUME NEW s \in Watchable, Poll(s) PROVE IncidentsAreOutages'
  <2>1. /\ DOMAIN mem' = DOMAIN mem /\ UNCHANGED <<open, orphan>>
        /\ \A c \in DOMAIN mem : mem'[c].alerted = mem[c].alerted
    BY <1>1, PollStep
  <2>2. ToldNow' = ToldNow
    BY <2>1 DEF ToldNow, Told
  <2>3. QED
    BY <2>1, <2>2 DEF IncidentsAreOutages, ToldNow, Key
<1>2. ASSUME NEW t \in {"health", "perf"}, Record(t) PROVE IncidentsAreOutages'
  <2> DEFINE s == job[t].about
  <2>1. s \in DOMAIN mem /\ s \in Watchable /\ mem[s] \in Memory
    BY <1>0, <1>2 DEF Record, AlertsInv, Own, MemType, Idle
  <2>2. orphan' = orphan \ {Key(s)}
    BY <1>2 DEF Record
  <2>3. open' = Journal(Key(s), job[t].what = "down")
    BY <1>2, WriteResult DEF Record, OwnSubjects
  <2>4. open \ orphan = {Key(c) : c \in ToldNow}
    BY DEF IncidentsAreOutages, ToldNow
  <2>5. CASE job[t].what = "down"
    <3>1. mem' = [mem EXCEPT ![s] = [@ EXCEPT !.alerted = TRUE]]
      BY <1>2, <2>5 DEF Record
    <3>2. ToldNow' = ToldNow \cup {s}
      BY <1>0, <2>1, <3>1 DEF ToldNow, Told, MemType, Memory
    <3>3. open' = open \cup {Key(s)}
      BY <2>3, <2>5 DEF Journal
    <3>4. (open \ orphan)' = {Key(c) : c \in ToldNow'}
      BY <2>2, <2>4, <3>2, <3>3
    <3>5. QED
      BY <3>4 DEF IncidentsAreOutages, ToldNow, Key
  <2>6. CASE job[t].what # "down"
    <3>1. mem' = [mem EXCEPT ![s] = Fresh]
      BY <1>2, <2>6 DEF Record
    <3>2. ToldNow' = ToldNow \ {s}
      BY <1>0, <2>1, <3>1 DEF ToldNow, Told, MemType, Fresh
    <3>3. open' = open \ {Key(s)}
      BY <2>3, <2>6 DEF Journal
    <3>4. \A c \in ToldNow : Key(c) = Key(s) => c = s
      BY <1>0, <2>1 DEF ToldNow, Key, OwnSubjects, MemType
    <3>5. (open \ orphan)' = {Key(c) : c \in ToldNow'}
      BY <2>2, <2>4, <3>2, <3>3, <3>4
    <3>6. QED
      BY <3>5 DEF IncidentsAreOutages, ToldNow, Key
  <2>7. QED
    BY <2>5, <2>6
<1>3. CASE Companion
  <2>1. PICK W \in SUBSET Companions :
          /\ mem' = [s \in Always \cup W |-> IF s \in DOMAIN mem THEN mem[s] ELSE Fresh]
          /\ orphan' = orphan \cup {Key(s) : s \in {c \in DOMAIN mem \ (Always \cup W) : Told(c)}}
    BY <1>0, <1>3 DEF Companion
  <2>2. ToldNow' = ToldNow \cap (Always \cup W)
    BY <2>1 DEF ToldNow, Told, Fresh
  <2>3. orphan' = orphan \cup {Key(c) : c \in ToldNow \ (Always \cup W)}
    BY <2>1 DEF ToldNow
  <2>4. \A b, c \in ToldNow : Key(b) = Key(c) => b = c
    BY <1>0 DEF ToldNow, Key, OwnSubjects, MemType
  <2>5. open \ orphan = {Key(c) : c \in ToldNow} /\ open' = open
    BY <1>3 DEF IncidentsAreOutages, ToldNow, Companion
  <2>6. (open \ orphan)' = {Key(c) : c \in ToldNow'}
    BY <2>2, <2>3, <2>4, <2>5
  <2>7. QED
    BY <2>6 DEF IncidentsAreOutages, ToldNow, Key
<1>4. CASE UNCHANGED <<mem, open, orphan>>
  BY <1>4 DEF IncidentsAreOutages, Told, Key
<1>5. CASE Kill
  BY <1>5 DEF Kill, ForgetTold, IncidentsAreOutages, Told, Fresh
<1>6. QED
  BY <1>1, <1>2, <1>3, <1>4, <1>5 DEF Next, Watching, ChangeWatched, ChangeThresholds, Watch,
     Unwatch, SetThresholds, Move, watchVars, vars

LEMMA InitTyped ==
  ASSUME Init
  PROVE  ChannelsTypeOK /\ AlertsInv /\ IncidentsAreOutages
<1>1. ChannelsTypeOK
  <2>1. PICK id \in Ids, to \in Addresses :
          channels = [i \in {id} |-> [to |-> to, events |-> Kinds, enabled |-> TRUE]]
    BY DEF Init, ChannelsInit
  <2>2. channels \in [{id} -> Channel]
    BY <2>1 DEF Channel
  <2>3. \E I \in SUBSET Ids : channels \in [I -> Channel]
    BY <2>2
  <2>4. events \in 0..MaxEvents /\ mtime \in Nat
    BY ChannelsAssumption DEF Init, ChannelsInit
  <2>5. QED
    BY <2>3, <2>4 DEF Init, ChannelsInit, ChannelsTypeOK, NoCache
<1>2. MemType(mem)
  BY FreshType DEF Init, AlertsInit, MemType, Watchable
<1>3. polls \in LagPolls
  BY AlertsAssumption DEF Init, AlertsInit, Max
<1>4. AlertsInv
  BY <1>2, <1>3, MemTypes, AlertsAssumption
     DEF Init, AlertsInit, ChannelsInit, AlertsInv, AlertsTypeOK, Own, Memory
<1>5. IncidentsAreOutages
  BY DEF Init, AlertsInit, IncidentsAreOutages, Told, Fresh
<1>6. QED
  BY <1>1, <1>4, <1>5

(* The open incidents are those of the outages told and not over, for any  *)
(* containers, thresholds and order of rounds, messages, requests and      *)
(* stops, when no two things watched share the name of an incident         *)
(* (_tick_one, _record_incident, JsonIncidents).                           *)
THEOREM IncidentsTrue ==
  ASSUME OwnSubjects
  PROVE  Spec => []IncidentsAreOutages
<1>1. Init => ChannelsTypeOK /\ AlertsInv /\ IncidentsAreOutages
  BY InitTyped
<1>2. ChannelsTypeOK /\ AlertsInv /\ IncidentsAreOutages /\ [Next]_vars
        => (ChannelsTypeOK /\ AlertsInv /\ IncidentsAreOutages)'
  BY ChannelsTypeStep, AlertsStep, IncidentsStep
<1>3. QED
  BY <1>1, <1>2, PTL DEF Spec

-----------------------------------------------------------------------------
(* Notifications.                                                          *)
(* Nothing is dated after the file.                                        *)
Dated ==
  /\ cache.mtime <= mtime
  /\ \A t \in Threads : job[t] # Idle => job[t].since <= mtime

(* A thread that looked at the date since the last change left it kept.    *)
Looked ==
  \A t \in Threads :
    job[t].pc \in {"list", "set", "send"} /\ job[t].since = mtime => cache.mtime = mtime

(* While no refresh went astray there is one at most, it holds what the    *)
(* file says, and what the notifier keeps is what the file says once it is *)
(* over.                                                                   *)
Alone ==
  ~astray =>
    /\ \A t, u \in Refreshing : t = u
    /\ Refreshing = {} /\ cache.mtime = mtime => cache.targets = Active(channels)
    /\ \A t \in Threads :
         job[t].pc = "set" /\ cache.mtime = mtime => job[t].targets = Active(channels)

NotifierInv == Dated /\ Looked /\ Alone

LEMMA NotifierStep ==
  ASSUME ChannelsTypeOK, NotifierInv, [Next]_vars
  PROVE  NotifierInv'
<1>0. /\ mtime \in Nat /\ cache.mtime \in Nat \cup {-1}
      /\ \A t \in Threads : job[t] \in Job \cup {Idle} /\ (job[t] \in Job => job[t].since \in Nat)
  BY DEF ChannelsTypeOK, Job
<1>1. CASE Changed /\ UNCHANGED notifierVars
  <2>1. CASE Kept
    BY <1>1, <2>1 DEF Kept, notifierVars, NotifierInv, Dated, Looked, Alone, Refreshing
  <2>2. CASE mtime' = mtime + 1
    <3>1. cache' = cache /\ job' = job
      BY <1>1 DEF notifierVars
    <3>2. cache'.mtime # mtime'
      BY <1>0, <2>2, <3>1 DEF NotifierInv, Dated
    <3>3. \A t \in Threads : job[t] # Idle => job[t].since <= mtime' /\ job[t].since # mtime'
      BY <1>0, <2>2 DEF NotifierInv, Dated
    <3>4. Dated'
      BY <1>0, <2>2, <3>1, <3>3 DEF Dated, NotifierInv
    <3>5. Looked'
      BY <3>1, <3>3 DEF Looked, Idle
    <3>6. Alone'
      BY <1>1, <3>1, <3>2, <3>3 DEF Alone, NotifierInv, Refreshing, Idle, notifierVars
    <3>7. QED
      BY <3>4, <3>5, <3>6 DEF NotifierInv
  <2>3. QED
    BY <1>1, <2>1, <2>2 DEF Changed
<1>2. ASSUME NEW t \in Threads, Stat(t), UNCHANGED <<channels, mtime>> PROVE NotifierInv'
  <2>1. CASE mtime = cache.mtime
    <3>1. /\ job' = [job EXCEPT ![t].pc = "send"]
          /\ UNCHANGED <<cache, astray>> /\ job[t] \in Job /\ job[t].pc = "stat"
      BY <1>2, <2>1, <1>0 DEF Stat, Idle
    <3>2. Refreshing' = Refreshing
      BY <3>1 DEF Refreshing, ChannelsTypeOK, Job
    <3>4. Dated' /\ Looked'
      BY <1>2, <2>1, <3>1 DEF NotifierInv, Dated, Looked, ChannelsTypeOK, Job, Idle
    <3>5. Alone'
      BY <1>2, <3>1, <3>2 DEF NotifierInv, Alone, ChannelsTypeOK, Job
    <3>6. QED
      BY <3>4, <3>5 DEF NotifierInv
  <2>2. CASE mtime # cache.mtime
    <3>1. /\ job' = [job EXCEPT ![t].pc = "list"] /\ cache' = [cache EXCEPT !.mtime = mtime]
          /\ astray' = (Refreshing # {}) /\ job[t] \in Job /\ job[t].pc = "stat"
      BY <1>2, <2>2, <1>0 DEF Stat, Idle
    <3>2. cache'.mtime = mtime
      BY <3>1 DEF ChannelsTypeOK
    <3>3. Dated' /\ Looked'
      BY <1>0, <1>2, <3>1, <3>2 DEF NotifierInv, Dated, Looked, ChannelsTypeOK, Job, Idle
    <3>4. Refreshing = {} => Refreshing' = {t}
      BY <3>1 DEF Refreshing, ChannelsTypeOK, Job
    <3>5. Refreshing = {} => \A u \in Threads : job'[u].pc # "set"
      BY <3>1 DEF Refreshing, ChannelsTypeOK, Job
    <3>6. Alone'
      BY <1>2, <3>1, <3>4, <3>5 DEF Alone
    <3>7. QED
      BY <3>3, <3>6 DEF NotifierInv
  <2>3. QED
    BY <2>1, <2>2
<1>3. ASSUME NEW t \in Threads, List(t), UNCHANGED <<channels, mtime>> PROVE NotifierInv'
  <2>1. PICK ok \in BOOLEAN :
          /\ job' = [job EXCEPT ![t].pc = "set", ![t].targets = Loaded(ok)]
          /\ astray' = (astray \/ ~ok)
    BY <1>3 DEF List
  <2>a. cache' = cache /\ job[t] \in Job /\ job[t].pc = "list"
    BY <1>3, <1>0 DEF List, Idle
  <2>2. Refreshing' = Refreshing
    BY <2>1, <2>a DEF Refreshing, ChannelsTypeOK, Job
  <2>3. Dated' /\ Looked'
    BY <1>3, <2>1, <2>a DEF NotifierInv, Dated, Looked, ChannelsTypeOK, Job, Idle
  <2>4. Alone'
    <3>1. SUFFICES ASSUME ~astray' PROVE Alone'
      BY DEF Alone
    <3>2. ~astray /\ Loaded(ok) = Active(channels)
      BY <2>1, <3>1 DEF Loaded
    <3>3. QED
      BY <1>3, <2>1, <2>2, <2>a, <3>2 DEF NotifierInv, Alone, ChannelsTypeOK, Job, Active
  <2>5. QED
    BY <2>3, <2>4 DEF NotifierInv
<1>4. ASSUME NEW t \in Threads, SetTargets(t), UNCHANGED <<channels, mtime>> PROVE NotifierInv'
  <2>1. /\ job' = [job EXCEPT ![t].pc = "send"]
        /\ cache' = [mtime |-> cache.mtime, targets |-> job[t].targets]
        /\ UNCHANGED astray /\ job[t] \in Job /\ job[t].pc = "set"
    BY <1>4, <1>0 DEF SetTargets, DateKept, DateBefore, Idle
  <2>2. Refreshing' = Refreshing \ {t} /\ t \in Refreshing
    BY <2>1 DEF Refreshing, ChannelsTypeOK, Job
  <2>3. Dated' /\ Looked'
    BY <1>4, <2>1 DEF NotifierInv, Dated, Looked, ChannelsTypeOK, Job, Idle
  <2>4. Alone'
    <3>1. SUFFICES ASSUME ~astray PROVE Alone'
      BY <2>1 DEF Alone
    <3>2. Refreshing = {t} /\ Refreshing' = {}
      BY <2>2, <3>1 DEF NotifierInv, Alone
    <3>3. cache.mtime = mtime => job[t].targets = Active(channels)
      BY <2>1, <3>1 DEF NotifierInv, Alone
    <3>4. \A u \in Threads : job'[u].pc # "set"
      BY <3>2 DEF Refreshing
    <3>5. QED
      BY <1>4, <2>1, <3>2, <3>3, <3>4 DEF Alone, Active
  <2>5. QED
    BY <2>3, <2>4 DEF NotifierInv
<1>5. ASSUME NEW t \in Threads, NEW m, job' = [job EXCEPT ![t] = m], m.pc \in {"idle", "stat", "record"},
             m = Idle \/ m.since <= mtime, job[t].pc \notin {"list", "set"},
             UNCHANGED <<channels, mtime, cache, astray>>
      PROVE  NotifierInv'
  <2>1. Refreshing' = Refreshing
    BY <1>5 DEF Refreshing, ChannelsTypeOK
  <2>2. Dated' /\ Looked'
    BY <1>5 DEF NotifierInv, Dated, Looked, ChannelsTypeOK
  <2>3. Alone'
    BY <1>5, <2>1 DEF NotifierInv, Alone, ChannelsTypeOK, Active
  <2>4. QED
    BY <2>2, <2>3 DEF NotifierInv
<1>6. ASSUME NEW t \in Threads, Send(t), UNCHANGED <<channels, mtime>> PROVE NotifierInv'
  <2> DEFINE m == [job[t] EXCEPT !.pc = "record"]
  <2>1. job[t] \in Job /\ job[t].pc = "send"
    BY <1>0, <1>6 DEF Send, Idle
  <2>2. m.pc = "record" /\ m.since = job[t].since /\ job[t].since <= mtime
    BY <2>1 DEF Job, NotifierInv, Dated, Idle
  <2>3. job' = [job EXCEPT ![t] = m]
    BY <1>6 DEF Send
  <2>4. QED
    BY <1>5, <1>6, <2>1, <2>2, <2>3 DEF Send
<1>7. ASSUME NEW t \in Threads, Turn(t) PROVE NotifierInv'
  <2>1. PICK m \in Messages \cup {Idle} : job' = [job EXCEPT ![t] = m]
    BY <1>7 DEF Turn
  <2>2. m = Idle \/ (m.pc = "stat" /\ m.since <= mtime)
    BY <1>0 DEF Messages, Notifying
  <2>3. m.pc \in {"idle", "stat", "record"}
    BY <2>2 DEF Idle
  <2>4. job[t].pc \notin {"list", "set"}
    BY <1>7 DEF Turn, Idle
  <2>5. UNCHANGED <<channels, mtime, cache, astray>>
    BY <1>7 DEF Turn
  <2>6. QED
    BY <1>5, <2>1, <2>2, <2>3, <2>4, <2>5
<1>8. CASE Kill
  <2>1. cache' = NoCache /\ job' = [t \in Threads |-> Idle] /\ mtime' = mtime
    BY <1>8 DEF Kill
  <2>2. Refreshing' = {}
    BY <2>1 DEF Refreshing, Idle
  <2>3. cache'.mtime = -1 /\ cache'.mtime <= mtime' /\ cache'.mtime # mtime'
    BY <1>0, <2>1 DEF NoCache
  <2>4. \A t \in Threads : job'[t] = Idle
    BY <2>1
  <2>5. QED
    BY <2>2, <2>3, <2>4 DEF NotifierInv, Dated, Looked, Alone, Idle
<1>9. QED
  BY <1>1, <1>2, <1>3, <1>4, <1>6, <1>7, <1>8, StepCases DEF Notify, channelVars

(* A message that begins after the last change of the channels goes to     *)
(* those enabled and subscribed, whatever the threads and the requests do, *)
(* unless a refresh is under way or the last one went astray: beside       *)
(* another, or on a file it could not read (StoreBackedNotifier._refresh). *)
THEOREM NotifiedAsConfigured == Spec => []SentAsConfigured
<1>1. Init => ChannelsTypeOK /\ NotifierInv
  <2>1. SUFFICES ASSUME Init PROVE NotifierInv
    BY InitTyped
  <2>2. QED
    BY <2>1 DEF Init, ChannelsInit, NotifierInv, Dated, Looked, Alone, Refreshing, NoCache, Idle
<1>2. ChannelsTypeOK /\ NotifierInv /\ [Next]_vars => (ChannelsTypeOK /\ NotifierInv)'
  BY ChannelsTypeStep, NotifierStep
<1>3. NotifierInv => SentAsConfigured
  BY DEF NotifierInv, Looked, Alone, SentAsConfigured
<1>4. QED
  BY <1>1, <1>2, <1>3, PTL DEF Spec

-----------------------------------------------------------------------------
(* Players.                                                                *)
LEMMA ToldIndex ==
  ASSUME NEW q \in Seq(Line), NEW p
  PROVE  p \in ToldBy(q) <=> \E i \in 1..Len(q) : q[i].player = p
BY DEF ToldBy, ToSet

(* A part of a sequence of lines is one.                                   *)
LEMMA PartIndex ==
  ASSUME NEW q \in Seq(Line), NEW m \in Nat, NEW n \in Nat, n <= Len(q)
  PROVE  /\ SubSeq(q, m + 1, n) \in Seq(Line)
         /\ Len(SubSeq(q, m + 1, n)) = IF m < n THEN n - m ELSE 0
         /\ \A i \in 1..(n - m) : SubSeq(q, m + 1, n)[i] = q[m + i]
OBVIOUS

(* Where the thread has to read from, and whether a line about p waits.    *)
Start == IF renewed THEN 0 ELSE position
Waits(p) == \E i \in (Start + 1)..Len(log) : log[i].player = p

(* The last of these lines about p tells where he is.                      *)
EndsWell(q, p) ==
  \A i \in 1..Len(q) :
    q[i].player = p /\ (\A j \in (i + 1)..Len(q) : q[j].player # p)
      => (q[i].what = "joined" <=> p \in online)

(* The log tells where everyone is; what was read of it and not handled,   *)
(* or the sessions, tell where the players are of whom no line waits.      *)
Followed(p) ==
  /\ EndsWell(batch, p)
  /\ (\A i \in 1..Len(batch) : batch[i].player # p) => (p \in playing <=> p \in online)

PlayersInv ==
  /\ PlayersTypeOK
  /\ ~renewed => position <= Len(log)
  /\ \A p \in Names : EndsWell(log, p)
  /\ \A p \in Names \ lost : ~Waits(p) => Followed(p)

LEMMA MissedWaits ==
  ASSUME PlayersInv, NEW p
  PROVE  p \in Missed <=> Waits(p)
<1>1. log \in Seq(Line) /\ position \in Nat /\ Len(log) \in Nat
  BY DEF PlayersInv, PlayersTypeOK
<1>2. CASE renewed
  BY <1>1, <1>2, ToldIndex DEF Missed, Waits, Start
<1>3. CASE ~renewed
  <2> DEFINE q == SubSeq(log, position + 1, Len(log))
  <2>1. /\ q \in Seq(Line) /\ Len(q) = Len(log) - position /\ position <= Len(log)
        /\ \A i \in 1..(Len(log) - position) : q[i] = log[position + i]
    BY <1>1, <1>3, PartIndex DEF PlayersInv
  <2>2. p \in Missed <=> \E i \in 1..Len(q) : q[i].player = p
    BY <1>3, <2>1, ToldIndex DEF Missed
  <2>3. ASSUME NEW i \in 1..Len(q), q[i].player = p PROVE Waits(p)
    <3>1. position + i \in (position + 1)..Len(log) /\ log[position + i].player = p
      BY <1>1, <2>1, <2>3
    <3>2. QED
      BY <1>3, <3>1 DEF Waits, Start
  <2>4. ASSUME NEW i \in (position + 1)..Len(log), log[i].player = p
        PROVE  \E j \in 1..Len(q) : q[j].player = p
    <3>1. i - position \in 1..Len(q) /\ q[i - position] = log[position + (i - position)]
      BY <1>1, <2>1
    <3>2. position + (i - position) = i
      BY <1>1
    <3>3. QED
      BY <2>4, <3>1, <3>2
  <2>5. QED
    BY <1>3, <2>2, <2>3, <2>4 DEF Waits, Start
<1>4. QED
  BY <1>2, <1>3

LEMMA ToldNames ==
  ASSUME NEW q \in Seq(Line)
  PROVE  ToldBy(q) \subseteq Names
<1>1. ASSUME NEW i \in 1..Len(q) PROVE q[i].player \in Names
  <2>1. q[i] \in Line
    OBVIOUS
  <2>2. QED
    BY <2>1 DEF Line
<1>2. QED
  BY <1>1, ToldIndex

LEMMA MissedNames ==
  ASSUME PlayersInv
  PROVE  Missed \subseteq Names
<1>1. log \in Seq(Line) /\ position \in Nat
  BY DEF PlayersInv, PlayersTypeOK
<1>2. SubSeq(log, position + 1, Len(log)) \in Seq(Line)
  BY <1>1
<1>3. QED
  BY <1>1, <1>2, ToldNames DEF Missed

(* A line is written about a player who comes or goes.                     *)
LEMMA WrittenStep ==
  ASSUME PlayersInv, NEW p \in Names, Come(p) \/ Go(p)
  PROVE  PlayersInv'
<1>1. log \in Seq(Line) /\ position \in Nat /\ Len(log) \in Nat /\ renewed \in BOOLEAN
  BY DEF PlayersInv, PlayersTypeOK
<1>2. PICK l \in Line : log' = Append(log, l) /\ l.player = p /\ (l.what = "joined" <=> p \in online')
  BY DEF Come, Go, Line
<1>3. /\ UNCHANGED <<position, batch, playing, known, renewed, lost>>
      /\ online' \subseteq Names /\ \A r \in Names \ {p} : r \in online' <=> r \in online
  BY DEF Come, Go, PlayersInv, PlayersTypeOK
<1>4. /\ log' \in Seq(Line) /\ Len(log') = Len(log) + 1 /\ log'[Len(log) + 1] = l
      /\ \A i \in 1..Len(log) : log'[i] = log[i]
  BY <1>1, <1>2
<1>5. PlayersTypeOK'
  BY <1>3, <1>4 DEF PlayersInv, PlayersTypeOK
<1>6. (~renewed => position <= Len(log))'
  BY <1>1, <1>3, <1>4 DEF PlayersInv
<1>7. ASSUME NEW r \in Names PROVE EndsWell(log, r)'
  <2>1. SUFFICES ASSUME NEW i \in 1..Len(log'), log'[i].player = r,
                        \A j \in (i + 1)..Len(log') : log'[j].player # r
                 PROVE  log'[i].what = "joined" <=> r \in online'
    BY DEF EndsWell
  <2>2. CASE r = p
    <3>1. i = Len(log) + 1
      BY <1>1, <1>2, <1>4, <2>1, <2>2
    <3>2. QED
      BY <1>2, <1>4, <2>2, <3>1
  <2>3. CASE r # p
    <3>1. i \in 1..Len(log) /\ log'[i] = log[i]
      BY <1>1, <1>2, <1>4, <2>1, <2>3
    <3>2. \A j \in (i + 1)..Len(log) : log[j].player # r
      BY <1>1, <1>4, <2>1, <3>1
    <3>3. log[i].what = "joined" <=> r \in online
      BY <2>1, <3>1, <3>2 DEF PlayersInv, EndsWell
    <3>4. QED
      BY <1>3, <2>3, <3>1, <3>3
  <2>4. QED
    BY <2>2, <2>3
<1>8. ASSUME NEW r \in Names \ lost', ~Waits(r)' PROVE Followed(r)'
  <2>1. r # p
    <3>1. Len(log) + 1 \in (Start' + 1)..Len(log')
      BY <1>1, <1>3, <1>4 DEF Start, PlayersInv
    <3>2. QED
      BY <1>2, <1>4, <1>8, <3>1 DEF Waits
  <2>2. ~Waits(r)
    <3>1. Start' = Start /\ Start \in Nat
      BY <1>1, <1>3 DEF Start
    <3>2. ASSUME NEW i \in (Start + 1)..Len(log) PROVE log[i].player # r
      BY <1>1, <1>4, <1>8, <3>1 DEF Waits
    <3>3. QED
      BY <3>2 DEF Waits
  <2>3. Followed(r)
    BY <1>3, <1>8, <2>2 DEF PlayersInv
  <2>4. QED
    BY <1>3, <2>1, <2>3 DEF Followed, EndsWell
<1>9. QED
  BY <1>5, <1>6, <1>7, <1>8 DEF PlayersInv

(* The log is renewed; what waited is lost.                                *)
LEMMA RenewedStep ==
  ASSUME PlayersInv, Rotate \/ ServerKilled
  PROVE  PlayersInv'
<1>1. /\ log' = <<>> /\ renewed' = TRUE /\ UNCHANGED <<position, batch, playing, known>>
      /\ online' \subseteq Names
  BY DEF Rotate, ServerKilled, PlayersInv, PlayersTypeOK
<1>2. Missed \subseteq Names
  BY MissedNames
<1>3. /\ Missed \subseteq lost' /\ lost \subseteq lost' /\ lost' \subseteq Names
      /\ \A p \in Names \ lost' : p \in online' <=> p \in online
  BY <1>2 DEF Rotate, ServerKilled, PlayersInv, PlayersTypeOK
<1>4. PlayersTypeOK'
  BY <1>1, <1>3 DEF PlayersInv, PlayersTypeOK
<1>5. ASSUME NEW p \in Names \ lost' PROVE Followed(p)'
  <2>1. p \in Names \ lost /\ ~Waits(p) /\ (p \in online' <=> p \in online)
    BY <1>3, MissedWaits
  <2>2. Followed(p)
    BY <2>1 DEF PlayersInv
  <2>3. QED
    BY <1>1, <2>1, <2>2 DEF Followed, EndsWell
<1>6. \A p \in Names : EndsWell(log, p)'
  BY <1>1 DEF EndsWell
<1>7. QED
  BY <1>1, <1>4, <1>5, <1>6 DEF PlayersInv

(* The thread reads what was written; a player of whom it reads a line is  *)
(* no longer one of whom it missed a line.                                 *)
LEMMA ReadStep ==
  ASSUME PlayersInv, Read
  PROVE  PlayersInv'
<1>1. /\ log \in Seq(Line) /\ position \in Nat /\ Len(log) \in Nat /\ renewed \in BOOLEAN
      /\ lost \subseteq Names
  BY DEF PlayersInv, PlayersTypeOK
<1>2. UNCHANGED <<online, log, playing, known>> /\ batch = <<>> /\ renewed' = FALSE
  BY DEF Read
<1>3. From \in Nat /\ From <= Len(log)
  BY <1>1 DEF From, FromStart, PlayersInv
<1> DEFINE q == SubSeq(log, From + 1, Len(log))
<1>4. batch' = q /\ position' = Len(log)
  BY <1>1, <1>3 DEF Read
<1>5. /\ q \in Seq(Line) /\ Len(q) = Len(log) - From
      /\ \A i \in 1..(Len(log) - From) : q[i] = log[From + i]
  BY <1>1, <1>3, PartIndex
<1> HIDE DEF q
<1>6. lost' \subseteq Names
  <2>1. SubSeq(log, 1, position) \in Seq(Line) \/ ~(Len(log) >= position)
    BY <1>1
  <2>2. QED
    BY <1>1, <2>1, ToldNames DEF Read
<1>7. PlayersTypeOK'
  BY <1>1, <1>2, <1>4, <1>5, <1>6 DEF PlayersInv, PlayersTypeOK
<1>8. ASSUME NEW p \in Names PROVE EndsWell(batch, p)'
  <2>1. SUFFICES ASSUME NEW i \in 1..Len(q), q[i].player = p,
                        \A j \in (i + 1)..Len(q) : q[j].player # p
                 PROVE  q[i].what = "joined" <=> p \in online
    BY <1>2, <1>4 DEF EndsWell
  <2>2. From + i \in 1..Len(log) /\ q[i] = log[From + i]
    BY <1>1, <1>3, <1>5
  <2>3. ASSUME NEW j \in (From + i + 1)..Len(log) PROVE log[j].player # p
    <3>1. j - From \in (i + 1)..Len(q) /\ q[j - From] = log[From + (j - From)]
      BY <1>1, <1>3, <1>5, <2>2
    <3>2. From + (j - From) = j
      BY <1>1, <1>3
    <3>3. QED
      BY <2>1, <3>1, <3>2
  <2>4. EndsWell(log, p)
    BY DEF PlayersInv
  <2>5. QED
    BY <2>1, <2>2, <2>3, <2>4 DEF EndsWell
<1>9. ASSUME NEW p \in Names \ lost', \A i \in 1..Len(q) : q[i].player # p
      PROVE  p \in playing <=> p \in online
  <2>1. p \notin ToldBy(batch')
    BY <1>4, <1>5, <1>9, ToldIndex
  <2>2. p \notin lost /\ (renewed /\ Len(log) >= position => p \notin ToldBy(SubSeq(log, 1, position)))
    BY <1>9, <2>1 DEF Read
  <2>3. ASSUME NEW i \in (From + 1)..Len(log) PROVE log[i].player # p
    <3>1. i - From \in 1..Len(q) /\ q[i - From] = log[From + (i - From)]
      BY <1>1, <1>3, <1>5
    <3>2. From + (i - From) = i
      BY <1>1, <1>3
    <3>3. QED
      BY <1>9, <3>1, <3>2
  <2>4. ~Waits(p)
    <3>1. CASE Start = From
      BY <2>3, <3>1 DEF Waits
    <3>2. CASE Start # From
      <4>1. renewed /\ Len(log) >= position /\ From = position /\ Start = 0
        BY <1>1, <3>2 DEF Start, From, FromStart, PlayersInv
      <4>2. /\ SubSeq(log, 1, position) \in Seq(Line) /\ Len(SubSeq(log, 1, position)) = position
            /\ \A i \in 1..position : SubSeq(log, 1, position)[i] = log[i]
        BY <1>1, <4>1
      <4>3. \A i \in 1..position : log[i].player # p
        BY <2>2, <4>1, <4>2, ToldIndex
      <4>4. QED
        BY <1>1, <2>3, <4>1, <4>3 DEF Waits
    <3>3. QED
      BY <3>1, <3>2
  <2>5. Followed(p)
    BY <1>9, <2>2, <2>4 DEF PlayersInv
  <2>6. QED
    BY <1>2, <2>5 DEF Followed
<1>10. QED
  BY <1>1, <1>2, <1>4, <1>7, <1>8, <1>9 DEF PlayersInv, Followed, EndsWell

(* A line is handled.                                                      *)
LEMMA HandleStep ==
  ASSUME PlayersInv, Handle
  PROVE  PlayersInv'
<1> DEFINE l == Head(batch)
<1>1. /\ batch \in Seq(Line) /\ batch # <<>> /\ l \in Line /\ l = batch[1]
      /\ batch' = Tail(batch) /\ batch' \in Seq(Line) /\ Len(batch) \in Nat \ {0}
      /\ Len(batch') = Len(batch) - 1
      /\ \A i \in 1..Len(batch') : batch'[i] = batch[i + 1]
  BY DEF Handle, PlayersInv, PlayersTypeOK
<1>2. /\ UNCHANGED <<online, log, position, renewed, lost>>
      /\ playing' = PlayingAfter(l) /\ known' \subseteq Names
  BY <1>1 DEF Handle, PlayersInv, PlayersTypeOK, Line
<1> HIDE DEF l
<1>3. PlayersTypeOK'
  BY <1>1, <1>2 DEF PlayersInv, PlayersTypeOK, PlayingAfter, Line
<1>4. ASSUME NEW p \in Names \ lost, ~Waits(p) PROVE Followed(p)'
  <2>1. Followed(p)
    BY <1>4 DEF PlayersInv
  <2>2. EndsWell(batch, p)'
    <3>1. SUFFICES ASSUME NEW i \in 1..Len(batch'), batch'[i].player = p,
                          \A j \in (i + 1)..Len(batch') : batch'[j].player # p
                   PROVE  batch'[i].what = "joined" <=> p \in online
      BY <1>2 DEF EndsWell
    <3>2. i + 1 \in 1..Len(batch) /\ batch[i + 1] = batch'[i]
      BY <1>1
    <3>3. ASSUME NEW j \in (i + 1 + 1)..Len(batch) PROVE batch[j].player # p
      <4>1. j - 1 \in (i + 1)..Len(batch') /\ batch'[j - 1] = batch[j - 1 + 1] /\ j - 1 + 1 = j
        BY <1>1
      <4>2. QED
        BY <3>1, <4>1
    <3>4. QED
      BY <2>1, <3>1, <3>2, <3>3 DEF Followed, EndsWell
  <2>3. ASSUME \A i \in 1..Len(batch') : batch'[i].player # p
        PROVE  p \in playing' <=> p \in online
    <3>1. ASSUME NEW j \in 2..Len(batch) PROVE batch[j].player # p
      <4>1. j - 1 \in 1..Len(batch') /\ batch'[j - 1] = batch[j - 1 + 1] /\ j - 1 + 1 = j
        BY <1>1
      <4>2. QED
        BY <2>3, <4>1
    <3>2. CASE l.player = p
      <4>1. l.what = "joined" <=> p \in online
        BY <1>1, <2>1, <3>1, <3>2 DEF Followed, EndsWell
      <4>2. QED
        BY <1>2, <3>2, <4>1 DEF PlayingAfter
    <3>3. CASE l.player # p
      <4>1. \A i \in 1..Len(batch) : batch[i].player # p
        BY <1>1, <3>1, <3>3
      <4>2. p \in playing <=> p \in online
        BY <2>1, <4>1 DEF Followed
      <4>3. QED
        BY <1>2, <3>3, <4>2 DEF PlayingAfter
    <3>4. QED
      BY <3>2, <3>3
  <2>4. QED
    BY <1>2, <2>2, <2>3 DEF Followed
<1>5. QED
  BY <1>2, <1>3, <1>4 DEF PlayersInv, EndsWell, Waits, Start

(* mc-admin starts again and follows the log from its end.                 *)
LEMMA FollowStep ==
  ASSUME PlayersInv, FollowFromEnd
  PROVE  PlayersInv'
<1>1. /\ log \in Seq(Line) /\ Len(log) \in Nat /\ batch \in Seq(Line)
      /\ batch' = <<>> /\ position' = Len(log) /\ renewed' = FALSE
      /\ lost' = lost \cup Missed \cup ToldBy(batch) /\ UNCHANGED <<online, log, playing, known>>
  BY DEF FollowFromEnd, PlayersInv, PlayersTypeOK
<1>2. PlayersTypeOK'
  <2>1. lost' \subseteq Names
    BY <1>1, MissedNames, ToldNames DEF PlayersInv, PlayersTypeOK
  <2>2. position' \in Nat /\ batch' \in Seq(Line)
    <3>1. <<>> \in Seq(Line)
      OBVIOUS
    <3>2. QED
      BY <1>1, <3>1
  <2>3. renewed' \in BOOLEAN
    BY <1>1, Zenon
  <2>4. QED
    BY <1>1, <2>1, <2>2, <2>3 DEF PlayersInv, PlayersTypeOK
<1>3. ASSUME NEW p \in Names \ lost' PROVE Followed(p)'
  <2>1. p \in Names \ lost /\ ~Waits(p) /\ \A i \in 1..Len(batch) : batch[i].player # p
    BY <1>1, MissedWaits, ToldIndex
  <2>2. p \in playing <=> p \in online
    BY <2>1 DEF PlayersInv, Followed
  <2>3. QED
    BY <1>1, <2>2 DEF Followed, EndsWell
<1>4. QED
  BY <1>1, <1>2, <1>3 DEF PlayersInv, EndsWell

LEMMA PlayersBegin ==
  ASSUME PlayersInit
  PROVE  PlayersInv
<1>1. /\ log = <<>> /\ batch = <<>> /\ position = 0 /\ online = {} /\ playing = {}
      /\ <<>> \in Seq(Line) /\ Len(<<>>) = 0
  BY DEF PlayersInit
<1>2. renewed \in BOOLEAN
  BY Zenon DEF PlayersInit
<1>3. log \in Seq(Line) /\ batch \in Seq(Line) /\ position \in Nat
  BY <1>1
<1>4. PlayersTypeOK
  BY <1>2, <1>3 DEF PlayersInit, PlayersTypeOK
<1>5. \A p \in Names : EndsWell(log, p) /\ Followed(p)
  BY <1>1 DEF EndsWell, Followed
<1>6. QED
  BY <1>1, <1>4, <1>5 DEF PlayersInv

LEMMA PlayersStep ==
  ASSUME PlayersInv, [Next]_vars
  PROVE  PlayersInv'
<1>1. CASE UNCHANGED playerVars
  BY <1>1 DEF playerVars, PlayersInv, PlayersTypeOK, EndsWell, Followed, Waits, Start
<1>2. CASE \E p \in Names : Come(p) \/ Go(p)
  BY <1>2, WrittenStep
<1>3. QED
  BY <1>1, <1>2, RenewedStep, ReadStep, HandleStep, FollowStep
     DEF Next, Server, Following, Handled, Kill, vars

(* Whoever is shown online is, for any players and any interleaving of the *)
(* server, of the thread that reads its log and of stops of mc-admin,      *)
(* except those of whom a line was missed (_consume_new_lines).            *)
THEOREM ShownTrue == Spec => []ShownOnlineIsOnline
<1>1. Init => PlayersInv
  BY PlayersBegin DEF Init
<1>2. PlayersInv /\ [Next]_vars => PlayersInv'
  BY PlayersStep
<1>3. PlayersInv => ShownOnlineIsOnline
  <2>1. SUFFICES ASSUME PlayersInv, batch = <<>>, position >= Len(log), ~renewed
                 PROVE  playing \ lost = online \ lost
    BY DEF ShownOnlineIsOnline
  <2>2. \A p \in Names : ~Waits(p)
    BY <2>1 DEF Waits, Start, PlayersInv, PlayersTypeOK
  <2>3. \A p \in Names \ lost : p \in playing <=> p \in online
    BY <2>1, <2>2 DEF PlayersInv, Followed
  <2>4. QED
    BY <2>1, <2>3 DEF PlayersInv, PlayersTypeOK
<1>4. QED
  BY <1>1, <1>2, <1>3, PTL DEF Spec

(* The types of the watchers' state.                                       *)
THEOREM WatchersTyped == Spec => []TypeOK
<1>1. Init => ChannelsTypeOK /\ AlertsInv /\ PlayersInv
  BY InitTyped, PlayersBegin DEF Init
<1>2. ChannelsTypeOK /\ AlertsInv /\ PlayersInv /\ [Next]_vars
        => (ChannelsTypeOK /\ AlertsInv /\ PlayersInv)'
  BY ChannelsTypeStep, AlertsStep, PlayersStep
<1>3. ChannelsTypeOK /\ AlertsInv /\ PlayersInv => TypeOK
  BY DEF TypeOK, AlertsInv, PlayersInv
<1>4. QED
  BY <1>1, <1>2, <1>3, PTL DEF Spec
=============================================================================
