------------------------------ MODULE Channels ------------------------------
(***************************************************************************)
(* Notification channels (adapters/notification_config.py and              *)
(* notifications.py, the channels of services/servers.py and their         *)
(* handlers).  The channels are a file that administrators edit; the       *)
(* notifier keeps those it last read and reads again when the date of the  *)
(* file has changed.  All the threads that notify share that notifier, and *)
(* nothing keeps them apart while they refresh it.                         *)
(***************************************************************************)
EXTENDS Integers, Functions, JsonFile

CONSTANTS
  Ids,         \* identifiers of channels, made from their labels
  Addresses,   \* a webhook, or a bot and its chat
  Kinds,       \* events a channel may be subscribed to
  Threads,     \* threads that notify
  Topics,      \* what a message may be about
  MaxEvents,   \* bound: requests, stops of mc-admin, changes of what is watched
  Readable     \* {TRUE}; {TRUE, FALSE} when the list of what is watched may be unreadable

ASSUME ChannelsAssumption == MaxEvents \in Nat /\ TRUE \in Readable /\ Readable \subseteq BOOLEAN

Channel == [to : Addresses, events : SUBSET Kinds, enabled : BOOLEAN]
Target == [to : Addresses, events : SUBSET Kinds]
NoEdit == [id |-> "none"]
Idle == [pc |-> "idle"]

VARIABLES
  events,
  channels, mtime,   \* the file and its date
  cache,             \* _mtime and _targets of the notifier
  edit,              \* a switch being flipped: the channel as the request read it
  job,               \* what each thread is notifying
  astray             \* the last refresh to begin did so during another, or read no file

channelVars == <<channels, mtime, edit>>
notifierVars == <<cache, job, astray>>

Job == [pc : {"stat", "list", "set", "send", "record"}, about : Topics,
        what : {"down", "up", "first"}, since : Nat, targets : SUBSET Target]

ChannelsTypeOK ==
  /\ events \in 0..MaxEvents
  /\ \E I \in SUBSET Ids : channels \in [I -> Channel]
  /\ mtime \in Nat
  /\ cache \in [mtime : Nat \cup {-1}, targets : SUBSET Target]
  /\ edit = NoEdit \/ edit \in [id : Ids, events : SUBSET Kinds]
  /\ job \in [Threads -> Job \cup {Idle}]
  /\ astray \in BOOLEAN

NoCache == [mtime |-> -1, targets |-> {}]

ChannelsInit ==
  /\ events = 0
  /\ \E id \in Ids, to \in Addresses :
       channels = [i \in {id} |-> [to |-> to, events |-> Kinds, enabled |-> TRUE]]
  /\ mtime = 0 /\ cache = NoCache /\ edit = NoEdit
  /\ job = [t \in Threads |-> Idle] /\ astray = FALSE

Event == events < MaxEvents /\ events' = events + 1

-----------------------------------------------------------------------------
(* Requests.                                                               *)
Save(new) == \E w \in Writes("notifications", channels, new) :
  /\ channels' = w.data
  /\ mtime' = IF w.ok \/ w.data # channels THEN mtime + 1 ELSE mtime

Put(id, c) == [i \in DOMAIN channels \cup {id} |-> IF i = id THEN c ELSE channels[i]]

Added(id, to, on) == Put(id, [to |-> to, events |-> on, enabled |-> TRUE])
Twin(to) == \E i \in DOMAIN channels : channels[i].to = to
Edited(id, to, on) == [channels[id] EXCEPT !.to = to, !.events = on]
Without(id) == Restrict(channels, DOMAIN channels \ {id})

(* The event loop runs this handler from the test that no channel has the  *)
(* address to the write, so a double click adds one channel.               *)
AddChannel(id, to, on) ==
  /\ Event /\ id \notin DOMAIN channels /\ ~Twin(to)
  /\ Save(Added(id, to, on))
  /\ UNCHANGED <<edit, notifierVars>>

UpdateChannel(id, to, on) ==
  /\ Event /\ id \in DOMAIN channels
  /\ Save(Put(id, Edited(id, to, on)))
  /\ UNCHANGED <<edit, notifierVars>>

ToggleChannel(id) ==
  /\ Event /\ id \in DOMAIN channels
  /\ Save(Put(id, [channels[id] EXCEPT !.enabled = ~@]))
  /\ UNCHANGED <<edit, notifierVars>>

RemoveChannel(id) ==
  /\ Event /\ id \in DOMAIN channels
  /\ Save(Without(id))
  /\ UNCHANGED <<edit, notifierVars>>

(* A switch on the card: all the switches are read, then written back.     *)
ReadSwitches(id) ==
  /\ Event /\ edit = NoEdit /\ id \in DOMAIN channels
  /\ edit' = [id |-> id, events |-> channels[id].events]
  /\ UNCHANGED <<channels, mtime, notifierVars>>

FlipSwitch(k) ==
  LET on == IF k \in edit.events THEN edit.events \ {k} ELSE edit.events \cup {k} IN
  /\ edit # NoEdit /\ edit' = NoEdit
  /\ \/ /\ edit.id \in DOMAIN channels
        /\ Save(Put(edit.id, Edited(edit.id, channels[edit.id].to, on)))
     \/ edit.id \notin DOMAIN channels /\ UNCHANGED <<channels, mtime>>
  /\ UNCHANGED <<events, notifierVars>>

-----------------------------------------------------------------------------
(* StoreBackedNotifier.notify by thread t.                                 *)
Notifying(about, what) ==
  [pc |-> "stat", about |-> about, what |-> what, since |-> mtime,
   targets |-> {}]

Active(file) == {[to |-> file[i].to, events |-> file[i].events] :
                   i \in {j \in DOMAIN file : file[j].enabled}}

Recipients(targets, kind) == {x.to : x \in {y \in targets : kind \in y.events}}

(* The threads that have kept the date of the file and not yet its channels.*)
Refreshing == {t \in Threads : job[t].pc \in {"list", "set"}}

(* The date is kept before the channels are read: another thread that      *)
(* looks meanwhile finds it kept, and sends to the channels of before.     *)
Stat(t) ==
  /\ job[t].pc = "stat"
  /\ \/ /\ mtime = cache.mtime /\ UNCHANGED <<cache, astray>>
        /\ job' = [job EXCEPT ![t].pc = "send"]
     \/ /\ mtime # cache.mtime /\ cache' = [cache EXCEPT !.mtime = mtime]
        /\ astray' = (Refreshing # {})
        /\ job' = [job EXCEPT ![t].pc = "list"]

(* _load: an unreadable file reads as one without channels, and its date   *)
(* stays kept.                                                             *)
Loaded(ok) == IF ok THEN Active(channels) ELSE {}

List(t) ==
  /\ job[t].pc = "list"
  /\ \E ok \in BOOLEAN :
       /\ job' = [job EXCEPT ![t].pc = "set", ![t].targets = Loaded(ok)]
       /\ astray' = (astray \/ ~ok)
  /\ UNCHANGED cache

DateBefore == cache.mtime
DateAfter == mtime
DateKept == DateBefore

SetTargets(t) ==
  /\ job[t].pc = "set"
  /\ cache' = [mtime |-> DateKept, targets |-> job[t].targets]
  /\ job' = [job EXCEPT ![t].pc = "send"]
  /\ UNCHANGED astray

(* A channel that fails loses its message and no other.                    *)
Send(t) ==
  /\ job[t].pc = "send" /\ job' = [job EXCEPT ![t].pc = "record"]
  /\ UNCHANGED <<cache, astray>>

Notify(t) ==
  /\ Stat(t) \/ List(t) \/ SetTargets(t) \/ Send(t)
  /\ UNCHANGED <<events, channelVars>>
=============================================================================
