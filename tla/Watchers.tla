------------------------------ MODULE Watchers ------------------------------
(***************************************************************************)
(* The threads that watch and notify, together: health, resources and      *)
(* players share one notifier while administrators edit its channels.      *)
(***************************************************************************)
EXTENDS Alerts, Players

vars == <<events, channelVars, notifierVars, watchVars, playerVars>>

TypeOK == ChannelsTypeOK /\ AlertsTypeOK /\ PlayersTypeOK

Init == ChannelsInit /\ AlertsInit /\ PlayersInit

EditChannels ==
  \/ \E id \in Ids : ToggleChannel(id) \/ RemoveChannel(id) \/ ReadSwitches(id)
  \/ \E id \in Ids, to \in Addresses, on \in {{}, Kinds} :
       AddChannel(id, to, on) \/ UpdateChannel(id, to, on)
  \/ \E k \in Kinds : FlipSwitch(k)

ChangeWatched == \E c \in Companions : Watch(c) \/ Unwatch(c)
ChangeThresholds == \E n \in LagPolls : SetThresholds(n)

Watching ==
  \/ ChangeWatched \/ ChangeThresholds
  \/ \E s \in Watchable : Poll(s) \/ Move(s)
  \/ \E t \in {"health", "perf"} : Record(t)
  \/ Companion

Server ==
  /\ \E p \in Names : Come(p) \/ Go(p)
     \/ Rotate \/ ServerKilled
  /\ UNCHANGED <<channelVars, notifierVars>>

Following == Read \/ Handle \/ Handled

(* mc-admin stops and starts again.                                        *)
Kill ==
  /\ Event
  /\ edit' = NoEdit /\ cache' = NoCache /\ astray' = FALSE
  /\ job' = [t \in Threads |-> Idle]
  /\ ForgetTold /\ FollowFromEnd
  /\ UNCHANGED <<channels, mtime>>

Next ==
  \/ EditChannels /\ UNCHANGED <<watchVars, playerVars>>
  \/ (\E t \in Threads : Notify(t)) /\ UNCHANGED <<watchVars, playerVars>>
  \/ Watching /\ UNCHANGED playerVars
  \/ (Server \/ Following) /\ UNCHANGED watchVars
  \/ Kill

(* Each round polls everything, and the proxy and Prometheus answer again; *)
(* no message of a channel lasts for ever (its requests time out).         *)
Fairness ==
  /\ \A s \in Watchable : WF_vars(Poll(s) /\ UNCHANGED playerVars)
  /\ \A t \in Threads : WF_vars(Notify(t) /\ UNCHANGED <<watchVars, playerVars>>)
  /\ \A t \in {"health", "perf"} : WF_vars(Record(t) /\ UNCHANGED playerVars)
  /\ WF_vars(Companion /\ UNCHANGED playerVars)

Spec == Init /\ [][Next]_vars /\ Fairness

-----------------------------------------------------------------------------
KindOf(about) ==
  CASE about \in {"disk", "player", "new_player"} -> about
    [] about = "mspt" -> "performance"
    [] OTHER -> "health"

(* A notification that begins after the last change of the channels goes   *)
(* to exactly those that are enabled and subscribed, whichever thread      *)
(* refreshed the notifier, with three exceptions to "effectif au prochain  *)
(* envoi" (notifications.py:98): another thread has kept the date and not  *)
(* yet the channels, so that this one skipped its own refresh; the last    *)
(* refresh ran beside another; or it could not read the file, which reads  *)
(* as no channel and not as the previous ones (line 126)                   *)
(* (StoreBackedNotifier._refresh).                                         *)
SentAsConfigured ==
  \A t \in Threads :
    job[t].pc = "send" /\ job[t].since = mtime /\ Refreshing = {} /\ ~astray =>
      Recipients(cache.targets, KindOf(job[t].about))
        = Recipients(Active(channels), KindOf(job[t].about))
=============================================================================
