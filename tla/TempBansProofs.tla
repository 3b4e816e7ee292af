--------------------------- MODULE TempBansProofs ---------------------------
(***************************************************************************)
(* Bans and timers, for every number of players, requests, faults and      *)
(* restarts, under every interleaving.                                     *)
(***************************************************************************)
EXTENDS TempBans, TLAPS

(* All administrators spell a name the same way.                           *)
OneSpelling == \A s, u \in Spellings : s = u

-----------------------------------------------------------------------------
(* A request that has begun is a request record.                           *)
LEMMA RequestType ==
  ASSUME TypeOK, NEW t \in Requests, req[t] # Idle
  PROVE  /\ req[t] \in Request /\ req[t].name \in Names
         /\ req[t].name[1] \in Players
         /\ req[t].op \in {"ban", "pardon", "ban_temporary", "schedule"}
         /\ req[t].op \in {"ban_temporary", "schedule"} => req[t].until \in 1..Horizon
<1>1. req[t] \in Request
  BY DEF TypeOK
<1>2. \A r \in Request : r.name \in Names
        /\ r.op \in {"ban", "pardon", "ban_temporary", "schedule"}
        /\ (r.op \in {"ban_temporary", "schedule"} => r.until \in 1..Horizon)
  BY DEF Request
<1>3. \A n \in Names : n[1] \in Players
  BY DEF Names
<1>4. QED
  BY <1>1, <1>2, <1>3

(* Every step keeps the types.                                             *)
LEMMA TypeStep ==
  ASSUME TypeOK, [Next]_vars
  PROVE  TypeOK'
<1> USE TempBansAssumption
<1>1. \A n \in Names : n[1] \in Players
  BY DEF Names
<1>2. ASSUME NEW t \in Requests, NEW op, NEW n \in Names, NEW until,
             [op |-> op, name |-> n, until |-> until] \in Request,
             StartRequest(t, op, n, until)
      PROVE  /\ clock' \in 0..Horizon /\ timers' \in [Names -> 0..Horizon]
             /\ req' \in [Requests -> Request \cup {Idle}]
             /\ due' \subseteq Names /\ lift' \subseteq due' /\ stale' \subseteq due'
             /\ calm' \in BOOLEAN
             /\ requests' \in 0..MaxRequests /\ faults' \in 0..MaxFaults
  <2>1. req' \in [Requests -> Request \cup {Idle}]
    BY <1>2 DEF TypeOK, StartRequest
  <2>2. requests' \in 0..MaxRequests /\ faults' \in 0..MaxFaults
    BY <1>2 DEF TypeOK, StartRequest, Fault
  <2>3. QED
    BY <1>2, <2>1, <2>2 DEF TypeOK, StartRequest
<1>3. ASSUME NEW t \in Requests, NEW n \in Names, Ban(t, n)
      PROVE  TypeOK'
  <2>1. [op |-> "ban", name |-> n, until |-> 0] \in Request
    BY DEF Request
  <2>2. banned' \subseteq Players /\ meant' = meant
    BY <1>1, <1>3 DEF Ban, TypeOK
  <2>3. QED
    BY <1>2, <1>3, <2>1, <2>2 DEF Ban, TypeOK
<1>4. ASSUME NEW t \in Requests, NEW n \in Names, NEW d \in Durations,
             BanTemporary(t, n, d)
      PROVE  TypeOK'
  <2>1. clock + d \in 1..Horizon
    BY <1>4 DEF BanTemporary, TypeOK
  <2>2. [op |-> "ban_temporary", name |-> n, until |-> clock + d] \in Request
    BY <2>1 DEF Request
  <2>3. banned' \subseteq Players /\ meant' = meant
    BY <1>1, <1>4 DEF BanTemporary, TypeOK
  <2>4. QED
    BY <1>2, <1>4, <2>2, <2>3 DEF BanTemporary, TypeOK
<1>5. ASSUME NEW t \in Requests, NEW n \in Names, Pardon(t, n)
      PROVE  TypeOK'
  <2>1. [op |-> "pardon", name |-> n, until |-> 0] \in Request
    BY DEF Request
  <2>2. banned' \subseteq Players
          /\ meant' \in [Players -> {"none", "temporary", "permanent"}]
    BY <1>1, <1>5 DEF Pardon, TypeOK
  <2>3. QED
    BY <1>2, <1>5, <2>1, <2>2 DEF Pardon, TypeOK
<1>6. ASSUME NEW t \in Requests, CancelTimer(t)
      PROVE  TypeOK'
  <2>1. req[t] \in Request /\ req[t].name \in Names /\ req[t].name[1] \in Players
          /\ req[t].op \in {"ban", "pardon", "ban_temporary"}
    BY <1>6, RequestType DEF CancelTimer
  <2>2. \A r \in Request : r.op = "ban_temporary"
          => [r EXCEPT !.op = "schedule"] \in Request
    BY DEF Request
  <2>3. req' \in [Requests -> Request \cup {Idle}]
    BY <1>6, <2>1, <2>2 DEF CancelTimer, TypeOK
  <2>4. timers' \in [Names -> 0..Horizon]
    BY <1>6, <2>1 DEF CancelTimer, TypeOK
  <2>5. meant' \in [Players -> {"none", "temporary", "permanent"}]
    BY <1>6, <2>1 DEF CancelTimer, TypeOK
  <2>6. QED
    BY <1>6, <2>3, <2>4, <2>5 DEF CancelTimer, TypeOK
<1>7. ASSUME NEW t \in Requests, Schedule(t)
      PROVE  TypeOK'
  <2>1. req[t].name \in Names /\ req[t].name[1] \in Players
          /\ req[t].until \in 1..Horizon
    BY <1>7, RequestType DEF Schedule
  <2>2. QED
    BY <1>7, <2>1 DEF Schedule, TypeOK
<1>8. ASSUME NEW t \in Requests, WriteFails(t)
      PROVE  TypeOK'
  BY <1>8 DEF WriteFails, Fault, TypeOK
<1>9. CASE ReadDue
  BY <1>9 DEF ReadDue, Due, TypeOK
<1>10. ASSUME NEW n \in Names, LiftBan(n)
       PROVE  TypeOK'
  BY <1>1, <1>10 DEF LiftBan, Fault, TypeOK
<1>11. ASSUME NEW n \in Names, LiftFails(n)
       PROVE  TypeOK'
  BY <1>11 DEF LiftFails, Fault, TypeOK
<1>12. CASE CancelLifted
  BY <1>12 DEF CancelLifted, TypeOK
<1>13. CASE Restart
  BY <1>13 DEF Restart, Fault, TypeOK
<1>14. CASE Tick
  BY <1>14 DEF Tick, TypeOK
<1>15. CASE UNCHANGED vars
  BY <1>15 DEF vars, TypeOK
<1>16. QED
  BY <1>3, <1>4, <1>5, <1>6, <1>7, <1>8, <1>9, <1>10, <1>11, <1>12, <1>13,
     <1>14, <1>15 DEF Next, AskBan, Scheduler

(* Type correctness.                                                       *)
THEOREM TempBansTyped == Spec => []TypeOK
<1>1. Init => TypeOK
  BY TempBansAssumption DEF Init, TypeOK
<1>2. TypeOK /\ [Next]_vars => TypeOK'
  BY TypeStep
<1>3. QED
  BY <1>1, <1>2, PTL DEF Spec

-----------------------------------------------------------------------------
(* Once ban has answered no timer is left for the player: under every      *)
(* interleaving, with requests cut anywhere and writes that fail, provided *)
(* names are always spelt alike.                                           *)
THEOREM NoTimerAfterBan ==
  ASSUME OneSpelling
  PROVE  Spec => []PermanentHasNoTimer
<1>1. Init => PermanentHasNoTimer
  BY DEF Init, PermanentHasNoTimer, Names
<1>2. ASSUME TypeOK, PermanentHasNoTimer, [Next]_vars
      PROVE  PermanentHasNoTimer'
  <2>1. \A n, m \in Names : n[1] = m[1] => n = m
    BY OneSpelling DEF OneSpelling, Names
  <2>2. \A n \in Names : n[1] \in Players
    BY DEF Names
  <2>3. timers \in [Names -> 0..Horizon]
          /\ meant \in [Players -> {"none", "temporary", "permanent"}]
    BY <1>2 DEF TypeOK
  <2>4. ASSUME NEW t \in Requests, CancelTimer(t)
        PROVE  PermanentHasNoTimer'
    <3>1. req[t].name \in Names
      BY <1>2, <2>4, RequestType DEF CancelTimer
    <3>2. QED
      BY <1>2, <2>1, <2>2, <2>3, <2>4, <3>1 DEF CancelTimer, PermanentHasNoTimer
  <2>5. ASSUME NEW t \in Requests, Schedule(t)
        PROVE  PermanentHasNoTimer'
    <3>1. req[t].name \in Names
      BY <1>2, <2>5, RequestType DEF Schedule
    <3>2. QED
      BY <1>2, <2>1, <2>2, <2>3, <2>5, <3>1 DEF Schedule, PermanentHasNoTimer
  <2>6. ASSUME NEW t \in Requests, NEW n \in Names, Pardon(t, n)
        PROVE  PermanentHasNoTimer'
    BY <1>2, <2>2, <2>3, <2>6 DEF Pardon, StartRequest, PermanentHasNoTimer
  <2>7. ASSUME NEW n \in Names, LiftBan(n)
        PROVE  PermanentHasNoTimer'
    BY <1>2, <2>2, <2>3, <2>7 DEF LiftBan, PermanentHasNoTimer
  <2>8. CASE CancelLifted
    BY <1>2, <2>8 DEF CancelLifted, PermanentHasNoTimer
  <2>9. ASSUME UNCHANGED <<timers, meant>>
        PROVE  PermanentHasNoTimer'
    BY <1>2, <2>9 DEF PermanentHasNoTimer
  <2>10. QED
    BY <1>2, <2>4, <2>5, <2>6, <2>7, <2>8, <2>9
       DEF Next, AskBan, Scheduler, Ban, BanTemporary, StartRequest, WriteFails, ReadDue,
           LiftFails, Restart, Tick, vars
<1>3. QED
  BY <1>1, <1>2, TempBansTyped, PTL DEF Spec

-----------------------------------------------------------------------------
(* The round that was read: an entry about whose player no request is, or  *)
(* was since, under way is due still.  The requests under way about the    *)
(* others are known as such.                                               *)
RoundInv ==
  /\ \A n \in due \ stale : timers[n] \in 1..clock
  /\ \A n \in due, t \in Requests :
       req[t] # Idle /\ req[t].name[1] = n[1] => n \in stale

(* Every step keeps it.                                                    *)
LEMMA RoundStep ==
  ASSUME OneSpelling, TypeOK, RoundInv, [Next]_vars
  PROVE  RoundInv'
<1> USE TempBansAssumption
<1>1. \A n, m \in Names : n[1] = m[1] => n = m
  BY DEF OneSpelling, Names
<1>2. clock \in Nat /\ timers \in [Names -> 0..Horizon]
        /\ req \in [Requests -> Request \cup {Idle}]
        /\ due \subseteq Names /\ lift \subseteq due /\ stale \subseteq due
  BY DEF TypeOK
<1>3. ASSUME NEW t \in Requests, NEW op, NEW n \in Names, NEW until,
             StartRequest(t, op, n, until)
      PROVE  RoundInv'
  <2>1. /\ stale' = stale \cup {m \in due : m[1] = n[1]}
        /\ UNCHANGED <<clock, timers, due>>
        /\ \A u \in Requests : u # t => req'[u] = req[u]
        /\ req'[t] # Idle => req'[t].name = n
    BY <1>2, <1>3 DEF StartRequest
  <2>2. ASSUME NEW m \in due, NEW u \in Requests, req'[u] # Idle, req'[u].name[1] = m[1]
        PROVE  m \in stale'
    BY <2>1, <2>2 DEF RoundInv
  <2>3. QED
    BY <2>1, <2>2 DEF RoundInv
<1>4. ASSUME NEW t \in Requests, CancelTimer(t) \/ Schedule(t)
      PROVE  RoundInv'
  <2> DEFINE n == req[t].name
  <2>1. /\ n \in Names /\ req[t] # Idle /\ req[t] \in Request
        /\ \A m \in Names : m # n => timers'[m] = timers[m]
        /\ UNCHANGED <<clock, due, stale>>
        /\ \A u \in Requests : u # t => req'[u] = req[u]
    BY <1>2, <1>4, RequestType DEF CancelTimer, Schedule
  <2>2. req'[t] # Idle => req'[t].name = n
    <3>1. \A r \in Request : [r EXCEPT !.op = "schedule"].name = r.name
      BY DEF Request
    <3>2. req'[t] = Idle \/ req'[t] = [req[t] EXCEPT !.op = "schedule"]
      BY <1>2, <1>4 DEF CancelTimer, Schedule
    <3>3. QED
      BY <2>1, <3>1, <3>2
  <2>3. \A m \in due \ stale : m # n
    BY <2>1 DEF RoundInv
  <2>4. ASSUME NEW m \in due, NEW u \in Requests, req'[u] # Idle, req'[u].name[1] = m[1]
        PROVE  m \in stale
    BY <2>1, <2>2, <2>4 DEF RoundInv
  <2> HIDE DEF n
  <2>5. QED
    BY <1>2, <2>1, <2>3, <2>4 DEF RoundInv
<1>5. ASSUME NEW t \in Requests, WriteFails(t)
      PROVE  RoundInv'
  BY <1>2, <1>5 DEF WriteFails, RoundInv
<1>6. CASE ReadDue
  BY <1>6 DEF ReadDue, Due, RoundInv
<1>7. ASSUME NEW n \in Names, LiftBan(n) \/ LiftFails(n)
      PROVE  RoundInv'
  <2>1. /\ due' \subseteq due /\ stale' = stale \cap due'
        /\ UNCHANGED <<clock, timers, req>>
    BY <1>2, <1>7 DEF LiftBan, LiftFails
  <2>2. QED
    BY <2>1 DEF RoundInv
<1>8. CASE CancelLifted
  <2>1. /\ due' = due \ lift /\ stale' = stale \ lift /\ UNCHANGED <<clock, req>>
        /\ \A n \in Names \ lift : timers'[n] = timers[n]
    BY <1>2, <1>8 DEF CancelLifted
  <2>2. QED
    BY <1>2, <2>1 DEF RoundInv
<1>9. CASE Restart
  BY <1>9 DEF Restart, RoundInv
<1>10. CASE Tick
  BY <1>2, <1>10 DEF Tick, RoundInv
<1>11. CASE UNCHANGED vars
  BY <1>11 DEF vars, RoundInv
<1>12. QED
  BY <1>3, <1>4, <1>5, <1>6, <1>7, <1>8, <1>9, <1>10, <1>11
     DEF Next, AskBan, Scheduler, Ban, BanTemporary, Pardon

(* With names spelt alike, and whatever overlaps, is cut, fails or is      *)
(* tried again, the scheduler lifts only temporary bans whose time has     *)
(* come, unless a request about that very player is under way while it     *)
(* goes through the entries it has read.                                   *)
THEOREM OnlyDueLifted ==
  ASSUME OneSpelling
  PROVE  Spec => LiftsOnlyDue
<1>1. Init => RoundInv
  BY DEF Init, RoundInv
<1>2. TypeOK /\ RoundInv /\ [Next]_vars => RoundInv'
  BY OneSpelling, RoundStep
<1>3. TypeOK /\ RoundInv /\ PermanentHasNoTimer /\ [Next]_vars
        => [\A p \in banned \ banned' : requests' = requests =>
              \/ \E n \in stale : n[1] = p
              \/ /\ meant[p] # "permanent"
                 /\ \E s \in Spellings : timers[<<p, s>>] \in 1..clock]_vars
  <2> SUFFICES ASSUME TypeOK, RoundInv, PermanentHasNoTimer, [Next]_vars,
                      NEW p \in banned \ banned', requests' = requests,
                      ~ \E n \in stale : n[1] = p
               PROVE  /\ meant[p] # "permanent"
                      /\ \E s \in Spellings : timers[<<p, s>>] \in 1..clock
    OBVIOUS
  <2>1. requests \in Nat /\ clock \in Nat
    BY TempBansAssumption DEF TypeOK
  <2>2. PICK n \in Names : LiftBan(n) /\ p = n[1]
    BY <2>1 DEF Next, AskBan, Scheduler, Ban, BanTemporary, Pardon, StartRequest,
       CancelTimer, Schedule, WriteFails, ReadDue, LiftBan, LiftFails,
       CancelLifted, Restart, Tick, vars
  <2>3. timers[n] \in 1..clock
    BY <2>2 DEF LiftBan, RoundInv
  <2>4. n = <<p, n[2]>> /\ n[2] \in Spellings
    BY <2>2 DEF Names
  <2>5. meant[p] # "permanent"
    BY <2>1, <2>2, <2>3 DEF PermanentHasNoTimer
  <2>6. QED
    BY <2>3, <2>4, <2>5
<1>4. Spec => []PermanentHasNoTimer
  BY OneSpelling, NoTimerAfterBan
<1>5. QED
  BY <1>1, <1>2, <1>3, <1>4, TempBansTyped, PTL DEF Spec, LiftsOnlyDue
=============================================================================
