------------------------------ MODULE TempBans ------------------------------
(***************************************************************************)
(* domain/services/moderation.py (ban, ban_temporary, pardon),             *)
(* adapters/temp_bans.py and tempban_scheduler.py.  Minecraft has no bans  *)
(* that end, so mc-admin keeps a file of timers and a thread that lifts    *)
(* the bans whose time has come.  The ban itself and the timer are changed *)
(* one after the other, with nothing held in between.                      *)
(*                                                                         *)
(* Minecraft knows a player under any spelling of the name (upper or lower *)
(* case); the file of timers compares names as they were typed.            *)
(***************************************************************************)
EXTENDS Naturals, FiniteSets

CONSTANTS
  Players, Spellings,
  Requests,      \* request threads
  Durations,     \* of temporary bans
  Horizon,       \* bound: end of the modelled time
  MaxRequests,   \* bound: requests in all
  MaxFaults      \* bound: lost answers, failed writes and restarts

Names == Players \X Spellings

ASSUME TempBansAssumption ==
  /\ IsFiniteSet(Players) /\ IsFiniteSet(Spellings) /\ IsFiniteSet(Requests)
  /\ Durations \subseteq Nat \ {0}
  /\ {Horizon, MaxRequests, MaxFaults} \subseteq Nat

VARIABLES
  clock,
  banned,     \* the server's list of banned players
  timers,     \* the file: when a name is to be pardoned, 0: no entry
  meant,      \* what the last answered request made of the player's ban
  req,        \* the requests under way
  due, lift,  \* the scheduler: names of this round, and the one whose timer
              \* is still to be cancelled
  stale,      \* names of this round about whose player a request is, or
              \* was, under way since the round was read
  calm,       \* fixed from the start.  TRUE: requests and rounds come one at
              \* a time, none is cut between two effects, and the write that
              \* follows a cancel succeeds
  requests, faults

vars == <<clock, banned, timers, meant, req, due, lift, stale, calm, requests,
          faults>>

Idle == [op |-> "idle"]
Request ==
  [op : {"ban", "pardon"}, name : Names, until : {0}]
    \cup [op : {"ban_temporary", "schedule"}, name : Names, until : 1..Horizon]

TypeOK ==
  /\ clock \in 0..Horizon
  /\ banned \subseteq Players
  /\ timers \in [Names -> 0..Horizon]
  /\ meant \in [Players -> {"none", "temporary", "permanent"}]
  /\ req \in [Requests -> Request \cup {Idle}]
  /\ due \subseteq Names /\ lift \subseteq due /\ stale \subseteq due
  /\ calm \in BOOLEAN
  /\ requests \in 0..MaxRequests
  /\ faults \in 0..MaxFaults

Init ==
  /\ clock = 0
  /\ banned = {}
  /\ timers = [n \in Names |-> 0]
  /\ meant = [p \in Players |-> "none"]
  /\ req = [t \in Requests |-> Idle]
  /\ due = {} /\ lift = {} /\ stale = {}
  /\ calm \in BOOLEAN
  /\ requests = 0 /\ faults = 0

-----------------------------------------------------------------------------
NoRequest == \A t \in Requests : req[t] = Idle
Fault == faults < MaxFaults /\ faults' = faults + 1

(* A request starts with its command to the server.  The command may work  *)
(* although its answer is lost: then the request ends there.               *)
StartRequest(t, op, n, until) ==
  /\ req[t] = Idle /\ requests < MaxRequests
  /\ calm => NoRequest /\ due = {}
  /\ requests' = requests + 1
  /\ stale' = stale \cup {m \in due : m[1] = n[1]}
  /\ \/ /\ req' = [req EXCEPT ![t] = [op |-> op, name |-> n, until |-> until]]
        /\ UNCHANGED faults
     \/ Fault /\ UNCHANGED req
  /\ UNCHANGED <<clock, timers, due, lift, calm>>

Ban(t, n) ==
  /\ StartRequest(t, "ban", n, 0)
  /\ banned' = banned \cup {n[1]}
  /\ UNCHANGED meant

BanTemporary(t, n, d) ==
  /\ clock + d <= Horizon
  /\ StartRequest(t, "ban_temporary", n, clock + d)
  /\ banned' = banned \cup {n[1]}
  /\ UNCHANGED meant

Pardon(t, n) ==
  /\ StartRequest(t, "pardon", n, 0)
  /\ banned' = banned \ {n[1]}
  /\ meant' = [meant EXCEPT ![n[1]] = "none"]

(* Mutant: ban leaves the timer of an earlier temporary ban.               *)
CancelNotForBan(t) ==
  /\ req[t] # Idle /\ req[t].op # "schedule"
  /\ timers' = IF req[t].op = "ban" THEN timers
               ELSE [timers EXCEPT ![req[t].name] = 0]
  /\ req' = [req EXCEPT ![t] = IF @.op = "ban_temporary"
                               THEN [@ EXCEPT !.op = "schedule"] ELSE Idle]
  /\ meant' = IF req[t].op = "ban"
              THEN [meant EXCEPT ![req[t].name[1]] = "permanent"] ELSE meant
  /\ UNCHANGED <<clock, banned, due, lift, stale, calm, requests, faults>>

(* TempBanPort.cancel.  It ends ban and pardon; ban_temporary goes on.     *)
CancelTimer(t) ==
  /\ req[t] # Idle /\ req[t].op # "schedule"
  /\ timers' = [timers EXCEPT ![req[t].name] = 0]
  /\ req' = [req EXCEPT ![t] = IF @.op = "ban_temporary"
                               THEN [@ EXCEPT !.op = "schedule"] ELSE Idle]
  /\ meant' = IF req[t].op = "ban"
              THEN [meant EXCEPT ![req[t].name[1]] = "permanent"] ELSE meant
  /\ UNCHANGED <<clock, banned, due, lift, stale, calm, requests, faults>>

Schedule(t) ==
  /\ req[t] # Idle /\ req[t].op = "schedule"
  /\ timers' = [timers EXCEPT ![req[t].name] = req[t].until]
  /\ meant' = [meant EXCEPT ![req[t].name[1]] = "temporary"]
  /\ req' = [req EXCEPT ![t] = Idle]
  /\ UNCHANGED <<clock, banned, due, lift, stale, calm, requests, faults>>

(* The file cannot be written: the request ends with an error.             *)
WriteFails(t) ==
  /\ req[t] # Idle /\ (calm => req[t].op # "schedule")
  /\ Fault
  /\ req' = [req EXCEPT ![t] = Idle]
  /\ UNCHANGED <<clock, banned, timers, meant, due, lift, stale, calm, requests>>

-----------------------------------------------------------------------------
(* Mutant: an entry is due at its own time only.                           *)
DueOnTime == {n \in Names : timers[n] = clock /\ clock > 0}

(* TempBanPort.due                                                         *)
Due == {n \in Names : timers[n] \in 1..clock}

(* TempBanScheduler._run: the entries that are due are read once, then     *)
(* pardon is called for each.                                              *)
ReadDue ==
  /\ due = {}
  /\ calm => NoRequest
  /\ due' = Due /\ due' # {}
  /\ stale' = {n \in due' : \E t \in Requests :
                                req[t] # Idle /\ req[t].name[1] = n[1]}
  /\ UNCHANGED <<clock, banned, timers, meant, req, lift, calm, requests,
                 faults>>

LiftBan(n) ==
  /\ lift = {} /\ n \in due
  /\ banned' = banned \ {n[1]}
  /\ meant' = [meant EXCEPT ![n[1]] = "none"]
  /\ \/ lift' = {n} /\ UNCHANGED <<due, faults>>
     \/ Fault /\ due' = due \ {n} /\ UNCHANGED lift
  /\ stale' = stale \cap due'
  /\ UNCHANGED <<clock, timers, req, calm, requests>>

(* The server cannot be reached, or the file not written: the entry stays  *)
(* for the next round.                                                     *)
LiftFails(n) ==
  /\ n \in due /\ lift \subseteq {n}
  /\ Fault
  /\ due' = due \ {n} /\ lift' = {} /\ stale' = stale \ {n}
  /\ UNCHANGED <<clock, banned, timers, meant, req, calm, requests>>

CancelLifted ==
  /\ lift # {}
  /\ timers' = [n \in Names |-> IF n \in lift THEN 0 ELSE timers[n]]
  /\ due' = due \ lift /\ lift' = {} /\ stale' = stale \ lift
  /\ UNCHANGED <<clock, banned, meant, req, calm, requests, faults>>

(* mc-admin restarts; only the file and the server's list are kept.        *)
Restart ==
  /\ calm => NoRequest
  /\ Fault
  /\ req' = [t \in Requests |-> Idle]
  /\ due' = {} /\ lift' = {} /\ stale' = {}
  /\ UNCHANGED <<clock, banned, timers, meant, calm, requests>>

Tick ==
  /\ clock < Horizon
  /\ clock' = clock + 1
  /\ UNCHANGED <<banned, timers, meant, req, due, lift, stale, calm, requests,
                 faults>>

-----------------------------------------------------------------------------
Scheduler == ReadDue \/ CancelLifted \/ \E n \in Names : LiftBan(n)

(* The forms: a ban with a number of hours is temporary.                   *)
AskBan(t, n) == Ban(t, n) \/ \E d \in Durations : BanTemporary(t, n, d)

Next ==
  \/ \E t \in Requests, n \in Names : AskBan(t, n) \/ Pardon(t, n)
  \/ \E t \in Requests : CancelTimer(t) \/ Schedule(t) \/ WriteFails(t)
  \/ Scheduler
  \/ \E n \in Names : LiftFails(n)
  \/ Restart \/ Tick

Spec == Init /\ [][Next]_vars

(* Time passes, requests run to their end and the thread keeps polling.    *)
FairSpec ==
  /\ Spec /\ WF_vars(Tick) /\ WF_vars(Scheduler)
  /\ \A t \in Requests : WF_vars(CancelTimer(t) \/ Schedule(t))

-----------------------------------------------------------------------------
(* The scheduler lifts only temporary bans whose time has come, never a    *)
(* permanent one nor one that was extended, whatever overlaps, is cut,     *)
(* fails or is tried again.  One case is excepted, and the code is exposed *)
(* to it although ban's docstring says "never": a request about the same   *)
(* player that is under way while the scheduler goes through the entries   *)
(* it has read (_run, pardon).                                             *)
LiftsOnlyDue ==
  [][\A p \in banned \ banned' : requests' = requests =>
       \/ \E n \in stale : n[1] = p
       \/ /\ meant[p] # "permanent"
          /\ \E s \in Spellings : timers[<<p, s>>] \in 1..clock]_vars

(* Once ban has answered no timer threatens the player, whatever runs at   *)
(* the same time.                                                          *)
PermanentHasNoTimer ==
  \A n \in Names : meant[n[1]] = "permanent" => timers[n] = 0

(* A temporary ban ends, although the server may be out of reach when it   *)
(* is due, answers may be lost and mc-admin may restart; requests that     *)
(* overlap on one player or are cut may lose the timer, and are left out.  *)
TempBansEnd ==
  calm => \A p \in Players : (p \in banned /\ meant[p] = "temporary")
                                ~> (p \notin banned \/ meant[p] # "temporary")
=============================================================================
