---------------------------- MODULE LoginLimiter ----------------------------
(***************************************************************************)
(* api/login_security.py, LoginAttemptLimiter: sign-in attempts are        *)
(* counted per client address and per pair of address and account, failed  *)
(* ones and those still being verified.  begin, failure, success and       *)
(* cancel each run under one lock, but read the clock before they take it. *)
(*                                                                         *)
(* Every method drops the buckets it leaves empty, so an empty bucket and  *)
(* no bucket at all are the same thing here.  Of last_seen, which orders   *)
(* the buckets to evict, nothing is kept: any candidate may be the oldest. *)
(***************************************************************************)
EXTENDS Naturals, Sequences, FiniteSets

CONSTANTS
  Clients, Users,
  PairMax, IpMax,        \* failures that lock a pair, an address
  PairLock, IpLock,      \* how long
  MaxPairs, MaxIps,      \* buckets kept
  Window,                \* how long a failure counts
  LeaseTimeout,          \* an attempt that did not end is forgotten after this
  CleanupInterval,
  Tokens,                \* numbers of simultaneous attempts
  Horizon,               \* bound: end of the modelled time
  Skew                   \* bound: how long a call may wait for the lock

PairKeys == Clients \X Users
Keys == PairKeys \cup Clients

ASSUME LimiterAssumption ==
  /\ IsFiniteSet(Clients) /\ IsFiniteSet(Users) /\ IsFiniteSet(Tokens)
  /\ Clients \cap PairKeys = {}
  /\ {PairMax, IpMax, PairLock, IpLock, MaxPairs, MaxIps, Window,
      LeaseTimeout} \subseteq Nat \ {0}
  /\ {CleanupInterval, Horizon, Skew} \subseteq Nat

VARIABLES
  clock,
  buckets,      \* failures (their times), lock (when it ends, 0: none) and
                \* attempts in flight of every key
  leases,       \* the attempts under way
  lastCleanup

vars == <<clock, buckets, leases, lastCleanup>>

Bucket == [failures : Seq(Nat), blocked : Nat, flight : Nat]
Lease == [token : Tokens, pair : PairKeys, started : Nat]
Fresh == [failures |-> <<>>, blocked |-> 0, flight |-> 0]

TypeOK ==
  /\ clock \in 0..Horizon
  /\ buckets \in [Keys -> Bucket]
  /\ leases \subseteq Lease /\ IsFiniteSet(leases)
  /\ \A l, m \in leases : l.token = m.token => l = m
  /\ lastCleanup \in Nat

Init ==
  /\ clock = 0
  /\ buckets = [k \in Keys |-> Fresh]
  /\ leases = {}
  /\ lastCleanup = 0

-----------------------------------------------------------------------------
MaxFailures(k) == IF k \in PairKeys THEN PairMax ELSE IpMax
LockTime(k)    == IF k \in PairKeys THEN PairLock ELSE IpLock
MaxKeys(k)     == IF k \in PairKeys THEN MaxPairs ELSE MaxIps
SameTable(k)   == IF k \in PairKeys THEN PairKeys ELSE Clients

KeysOf(p) == {p, p[1]}
Holders(L, k) == {l \in L : k \in KeysOf(l.pair)}

(* The clock as a call may have read it.                                   *)
Times == {t \in 0..clock : clock <= t + Skew}

(* _prepare_bucket: the leading failures that left the window are popped.  *)
Expired(s, now) == {i \in 1..Len(s) : \A j \in 1..i : s[j] + Window <= now}
Recent(s, now) == SubSeq(s, Cardinality(Expired(s, now)) + 1, Len(s))

Prepared(b, now) ==
  IF b.blocked > now THEN b
  ELSE [b EXCEPT !.blocked = 0,
                 !.failures = IF b.blocked > 0 THEN <<>> ELSE Recent(@, now)]

(* _release_lease, n times.                                                *)
Released(b, n) == [b EXCEPT !.flight = IF @ > n THEN @ - n ELSE 0]

-----------------------------------------------------------------------------
(* _cleanup_if_due                                                         *)
CleanupDue(now) == now >= lastCleanup + CleanupInterval

Stale(now) ==
  {l \in leases : CleanupDue(now) /\ now >= l.started + LeaseTimeout}

Cleaned(now) ==
  IF CleanupDue(now)
  THEN [k \in Keys |->
          Prepared(Released(buckets[k], Cardinality(Holders(Stale(now), k))), now)]
  ELSE buckets

(* _get_or_create: a key that is not tracked may need another one's place. *)
Tracked(B) == {k \in Keys : B[k] # Fresh}

Full(B, k) ==
  B[k] = Fresh /\ Cardinality(Tracked(B) \cap SameTable(k)) >= MaxKeys(k)

(* Mutant: a locked key may lose its place.                                *)
CandidatesLocked(B, k, now) ==
  {c \in Tracked(B) \cap SameTable(k) : B[c].flight = 0}

Candidates(B, k, now) ==
  {c \in Tracked(B) \cap SameTable(k) : B[c].flight = 0 /\ B[c].blocked <= now}

(* Those without failures go first.                                        *)
Evictable(B, k, now) ==
  LET idle == {c \in Candidates(B, k, now) : B[c].failures = <<>>}
  IN IF idle # {} THEN idle ELSE Candidates(B, k, now)

Evictions(B, k, now) ==
  IF Full(B, k) /\ Evictable(B, k, now) # {}
  THEN {{c} : c \in Evictable(B, k, now)} ELSE {{}}

Room(B, k, now) == Full(B, k) => Candidates(B, k, now) # {}

(* Mutant: attempts under way are not counted.                             *)
AdmitsIgnoresFlight(b, k, now) ==
  b.blocked <= now /\ Len(b.failures) < MaxFailures(k)

Admits(b, k, now) ==
  b.blocked <= now /\ Len(b.failures) + b.flight < MaxFailures(k)

(* begin: the attempt is admitted or refused; either way the clean-up and  *)
(* the evictions have happened.                                            *)
Begin(p, now) ==
  LET B == Cleaned(now) IN
  \E e \in Evictions(B, p, now), f \in Evictions(B, p[1], now) :
    LET room == \A k \in KeysOf(p) : Room(B, k, now)
        C == [k \in Keys |-> IF k \in e \cup f THEN Fresh
                             ELSE IF room /\ k \in KeysOf(p)
                             THEN Prepared(B[k], now) ELSE B[k]]
        free == {t \in Tokens : \A l \in leases \ Stale(now) : l.token # t}
    IN
    /\ lastCleanup' = IF CleanupDue(now) THEN now ELSE lastCleanup
    /\ \/ /\ room /\ \A k \in KeysOf(p) : Admits(C[k], k, now)
          /\ free # {}
          /\ buckets' = [k \in Keys |-> IF k \in KeysOf(p)
                           THEN [C[k] EXCEPT !.flight = @ + 1] ELSE C[k]]
          /\ leases' = (leases \ Stale(now))
               \cup {[token |-> CHOOSE t \in free : TRUE, pair |-> p, started |-> now]}
       \/ /\ ~room \/ \E k \in KeysOf(p) : ~Admits(C[k], k, now)
          /\ buckets' = C
          /\ leases' = leases \ Stale(now)
    /\ UNCHANGED clock

-----------------------------------------------------------------------------
(* The end of an attempt.  One whose lease was cleaned up ends silently.   *)
EndAttempt(l, ended) ==
  /\ l \in leases
  /\ leases' = leases \ {l}
  /\ buckets' = [k \in Keys |-> IF k \in KeysOf(l.pair) THEN ended[k] ELSE buckets[k]]
  /\ UNCHANGED <<clock, lastCleanup>>

Failed(k, now) ==
  LET b == Prepared(Released(buckets[k], 1), now)
      end == IF b.blocked > now + LockTime(k) THEN b.blocked ELSE now + LockTime(k)
  IN [b EXCEPT !.failures = Append(@, now),
               !.blocked = IF Len(b.failures) + 1 >= MaxFailures(k) THEN end ELSE @]

Failure(l, now) == EndAttempt(l, [k \in Keys |-> Failed(k, now)])

(* Only the pair is forgiven.                                              *)
Forgiven(k, now) ==
  LET b == Released(buckets[k], 1)
  IN IF k \in PairKeys THEN [b EXCEPT !.failures = <<>>, !.blocked = 0]
     ELSE Prepared(b, now)

Success(l, now) == EndAttempt(l, [k \in Keys |-> Forgiven(k, now)])

Cancel(l) == EndAttempt(l, [k \in Keys |-> Released(buckets[k], 1)])

Tick ==
  /\ clock < Horizon
  /\ clock' = clock + 1
  /\ UNCHANGED <<buckets, leases, lastCleanup>>

Next ==
  \/ \E p \in PairKeys, now \in Times : Begin(p, now)
  \/ \E l \in leases, now \in Times : Failure(l, now) \/ Success(l, now)
  \/ \E l \in leases : Cancel(l)
  \/ Tick

Spec == Init /\ [][Next]_vars

-----------------------------------------------------------------------------
(* The attempts in flight of a bucket are exactly the leases that name it: *)
(* no reservation leaks, and _release_lease always finds its buckets.      *)
FlightIsLeases ==
  \A k \in Keys : buckets[k].flight = Cardinality(Holders(leases, k))

(* However many attempts are verified at once, the failures of a key never *)
(* pass the threshold that locks it.                                       *)
NeverOverLimit ==
  \A k \in Keys : Len(buckets[k].failures) + buckets[k].flight <= MaxFailures(k)

(* A lock ends by time only: neither a success that was being verified     *)
(* meanwhile, nor an eviction, nor the clean-up lifts it early.            *)
LocksLast ==
  [][\A k \in Keys : buckets'[k].blocked < buckets[k].blocked
                       => buckets[k].blocked <= clock]_vars

(* A lock is only ever set on a full count, which outlives it: hence no    *)
(* attempt is being verified while its key is locked.                      *)
LockedIsFull ==
  \A k \in Keys : buckets[k].blocked > 0 => Len(buckets[k].failures) = MaxFailures(k)
=============================================================================
