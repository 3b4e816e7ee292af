------------------------ MODULE LoginLimiterProofs -------------------------
(***************************************************************************)
(* The limiter's invariants, for every set of clients and accounts, every  *)
(* threshold, timeout and table size, and any delay in taking the lock.    *)
(***************************************************************************)
EXTENDS LoginLimiter, FiniteSetTheorems, TLAPS

(* One bucket in order: neither over its limit nor locked below it.        *)
InOrder(b, k) ==
  /\ b \in Bucket
  /\ Len(b.failures) + b.flight <= MaxFailures(k)
  /\ b.blocked > 0 => Len(b.failures) = MaxFailures(k)

LimiterInv == TypeOK /\ FlightIsLeases /\ \A k \in Keys : InOrder(buckets[k], k)

-----------------------------------------------------------------------------
(* The limits are positive, and a new bucket is in order.                  *)
LEMMA Limits ==
  ASSUME NEW k \in Keys
  PROVE  /\ MaxFailures(k) \in Nat \ {0} /\ LockTime(k) \in Nat \ {0}
         /\ Window \in Nat /\ InOrder(Fresh, k)
BY LimiterAssumption DEF MaxFailures, LockTime, InOrder, Fresh, Bucket

(* The keys of a pair are keys of the two tables.                          *)
LEMMA PairHasKeys ==
  ASSUME NEW p \in PairKeys
  PROVE  KeysOf(p) \subseteq Keys
BY DEF KeysOf, Keys, PairKeys

(* Popping the failures that left the window never adds one.               *)
LEMMA RecentShorter ==
  ASSUME NEW s \in Seq(Nat), NEW now \in Nat
  PROVE  Recent(s, now) \in Seq(Nat) /\ Len(Recent(s, now)) <= Len(s)
<1> DEFINE n == Cardinality(Expired(s, now))
<1>1. Len(s) \in Nat
  OBVIOUS
<1>2. IsFiniteSet(1..Len(s)) /\ Cardinality(1..Len(s)) = Len(s)
  <2>1. \A m \in Int : IsFiniteSet(1..m)
                       /\ Cardinality(1..m) = IF 1 > m THEN 0 ELSE m - 1 + 1
    BY FS_Interval
  <2>2. QED
    BY <1>1, <2>1
<1>3. Expired(s, now) \in SUBSET (1..Len(s))
  BY DEF Expired
<1>4. n \in Nat /\ n <= Len(s)
  BY <1>2, <1>3, FS_Subset, FS_CardinalityType
<1>5. SubSeq(s, n + 1, Len(s)) \in Seq(Nat)
        /\ Len(SubSeq(s, n + 1, Len(s))) = Len(s) - n
  BY <1>1, <1>4
<1>6. QED
  BY <1>1, <1>4, <1>5 DEF Recent

(* _prepare_bucket keeps a bucket in order, its attempts and its lock if   *)
(* that still runs.                                                        *)
LEMMA PreparedInOrder ==
  ASSUME NEW k \in Keys, NEW b, InOrder(b, k), NEW now \in Nat
  PROVE  /\ InOrder(Prepared(b, now), k)
         /\ Prepared(b, now).flight = b.flight
         /\ Len(Prepared(b, now).failures) <= Len(b.failures)
         /\ Prepared(b, now).blocked \in Nat
         /\ Prepared(b, now).blocked < b.blocked => b.blocked <= now
         /\ Prepared(b, now).blocked > 0 => Prepared(b, now) = b
<1>1. b \in Bucket /\ b.failures \in Seq(Nat) /\ b.blocked \in Nat /\ b.flight \in Nat
  BY DEF InOrder, Bucket
<1>2. Recent(b.failures, now) \in Seq(Nat)
        /\ Len(Recent(b.failures, now)) <= Len(b.failures)
  BY <1>1, RecentShorter
<1>3. CASE b.blocked > now
  BY <1>1, <1>3 DEF Prepared
<1>4. CASE ~(b.blocked > now) /\ b.blocked > 0
  <2>1. Prepared(b, now) = [failures |-> <<>>, blocked |-> 0, flight |-> b.flight]
    BY <1>1, <1>4 DEF Prepared, Bucket
  <2>2. QED
    BY <1>1, <1>4, <2>1, Limits DEF InOrder, Bucket
<1>5. CASE ~(b.blocked > now) /\ ~(b.blocked > 0)
  <2>1. Prepared(b, now) = [failures |-> Recent(b.failures, now), blocked |-> 0,
                            flight |-> b.flight]
    BY <1>1, <1>5 DEF Prepared, Bucket
  <2>2. QED
    BY <1>1, <1>2, <1>5, <2>1, Limits DEF InOrder, Bucket
<1>6. QED
  BY <1>3, <1>4, <1>5

(* _release_lease, with n leases to release of the attempts in flight.     *)
LEMMA ReleasedInOrder ==
  ASSUME NEW k \in Keys, NEW b, InOrder(b, k), NEW n \in Nat, n <= b.flight
  PROVE  /\ InOrder(Released(b, n), k)
         /\ Released(b, n).flight = b.flight - n
         /\ Released(b, n).blocked = b.blocked
         /\ Released(b, n).failures = b.failures
<1>1. b \in Bucket /\ b.failures \in Seq(Nat) /\ b.blocked \in Nat /\ b.flight \in Nat
  BY DEF InOrder, Bucket
<1>2. Released(b, n) = [failures |-> b.failures, blocked |-> b.blocked,
                        flight |-> b.flight - n]
  BY <1>1 DEF Released, Bucket
<1>3. QED
  BY <1>1, <1>2, Limits DEF InOrder, Bucket

(* Who holds which key: removing and adding leases.                        *)
LEMMA HoldersCount ==
  ASSUME NEW L, IsFiniteSet(L), NEW S \in SUBSET L, NEW k
  PROVE  /\ IsFiniteSet(L \ S) /\ IsFiniteSet(Holders(L, k))
         /\ Cardinality(Holders(S, k)) \in Nat
         /\ Cardinality(Holders(S, k)) <= Cardinality(Holders(L, k))
         /\ Cardinality(Holders(L \ S, k)) =
              Cardinality(Holders(L, k)) - Cardinality(Holders(S, k))
<1>1. IsFiniteSet(L \ S)
  BY FS_Subset
<1>2. IsFiniteSet(Holders(L, k))
  <2>1. Holders(L, k) \in SUBSET L
    BY DEF Holders
  <2>2. QED
    BY <2>1, FS_Subset
<1>3. Holders(S, k) \in SUBSET Holders(L, k)
  BY DEF Holders
<1>4. IsFiniteSet(Holders(S, k)) /\ Cardinality(Holders(S, k)) \in Nat
        /\ Cardinality(Holders(S, k)) <= Cardinality(Holders(L, k))
  BY <1>2, <1>3, FS_Subset, FS_CardinalityType
<1>5. Holders(L \ S, k) = Holders(L, k) \ Holders(S, k)
        /\ Holders(L, k) \cap Holders(S, k) = Holders(S, k)
  BY <1>3 DEF Holders
<1>6. Cardinality(Holders(L, k) \ Holders(S, k)) =
        Cardinality(Holders(L, k)) - Cardinality(Holders(L, k) \cap Holders(S, k))
  BY <1>2, FS_Difference
<1>7. QED
  BY <1>1, <1>2, <1>4, <1>5, <1>6

(* A lease that ends takes one attempt off each of its keys, no other.     *)
LEMMA OneLease ==
  ASSUME NEW L, IsFiniteSet(L), NEW l \in L, NEW k
  PROVE  /\ IsFiniteSet(L \ {l})
         /\ Cardinality(Holders(L, k)) \in Nat
         /\ k \in KeysOf(l.pair) =>
              /\ Cardinality(Holders(L, k)) >= 1
              /\ Cardinality(Holders(L \ {l}, k)) = Cardinality(Holders(L, k)) - 1
         /\ k \notin KeysOf(l.pair) => Holders(L \ {l}, k) = Holders(L, k)
<1>1. IsFiniteSet(Holders(L, k)) /\ IsFiniteSet(L \ {l})
        /\ Cardinality(Holders(L, k)) \in Nat
  BY HoldersCount, FS_CardinalityType
<1>2. CASE k \notin KeysOf(l.pair)
  BY <1>1, <1>2 DEF Holders
<1>3. CASE k \in KeysOf(l.pair)
  <2>1. l \in Holders(L, k) /\ Holders(L \ {l}, k) = Holders(L, k) \ {l}
    BY <1>3 DEF Holders
  <2>2. Cardinality(Holders(L, k) \ {l}) = Cardinality(Holders(L, k)) - 1
          /\ IsFiniteSet(Holders(L, k) \ {l})
    BY <1>1, <2>1, FS_RemoveElement
  <2>3. Cardinality(Holders(L, k) \ {l}) \in Nat
    BY <2>2, FS_CardinalityType
  <2>4. Cardinality(Holders(L \ {l}, k)) = Cardinality(Holders(L, k)) - 1
    BY <2>1, <2>2
  <2>5. Cardinality(Holders(L, k)) >= 1
    <3>1. Cardinality(Holders(L, k)) - 1 \in Nat
      BY <2>2, <2>3
    <3> HIDE DEF Holders
    <3>2. QED
      BY <1>1, <3>1
  <2>6. QED
    BY <1>1, <1>3, <2>4, <2>5
<1>4. QED
  BY <1>2, <1>3
-----------------------------------------------------------------------------
(* The end of an attempt: every key it holds has it in flight, hence is    *)
(* not locked, and what the three methods leave of the bucket is in order. *)
LEMMA EndedInOrder ==
  ASSUME LimiterInv, NEW l \in leases, NEW k \in KeysOf(l.pair), NEW now \in Nat
  PROVE  /\ k \in Keys /\ buckets[k].blocked = 0
         /\ \A b \in {Released(buckets[k], 1), Forgiven(k, now), Failed(k, now)} :
              InOrder(b, k) /\ b.flight = buckets[k].flight - 1
<1>1. k \in Keys /\ l.pair \in PairKeys
  BY PairHasKeys DEF LimiterInv, TypeOK, Lease
<1>2. InOrder(buckets[k], k) /\ buckets[k] \in Bucket
  BY <1>1 DEF LimiterInv, TypeOK
<1>3. buckets[k].flight >= 1
  <2>1. buckets[k].flight = Cardinality(Holders(leases, k))
    BY <1>1 DEF LimiterInv, FlightIsLeases
  <2>2. IsFiniteSet(leases)
    BY DEF LimiterInv, TypeOK
  <2>3. QED
    BY <2>1, <2>2, OneLease
<1>4. MaxFailures(k) \in Nat \ {0} /\ LockTime(k) \in Nat \ {0}
  BY <1>1, Limits
<1>5. buckets[k].blocked = 0
  BY <1>2, <1>3, <1>4 DEF InOrder, Bucket
<1> DEFINE r == Released(buckets[k], 1)
           q == Prepared(r, now)
<1>6. InOrder(r, k) /\ r.flight = buckets[k].flight - 1 /\ r.blocked = 0
        /\ r.failures = buckets[k].failures
  BY <1>1, <1>2, <1>3, <1>5, ReleasedInOrder DEF Bucket
<1>7. InOrder(q, k) /\ q.flight = r.flight /\ Len(q.failures) <= Len(r.failures)
        /\ q.blocked = 0
  BY <1>1, <1>6, PreparedInOrder
<1>8. InOrder(Forgiven(k, now), k)
        /\ Forgiven(k, now).flight = buckets[k].flight - 1
  <2>1. CASE k \in PairKeys
    <3>1. Forgiven(k, now) = [failures |-> <<>>, blocked |-> 0, flight |-> r.flight]
      <4>1. r \in Bucket
        BY <1>6 DEF InOrder
      <4>2. Forgiven(k, now) = [r EXCEPT !.failures = <<>>, !.blocked = 0]
        BY <2>1 DEF Forgiven
      <4> HIDE DEF r
      <4>3. QED
        BY <4>1, <4>2 DEF Bucket
    <3> HIDE DEF r
    <3>2. QED
      BY <1>4, <1>6, <3>1 DEF InOrder, Bucket
  <2>2. CASE k \notin PairKeys
    BY <1>6, <1>7, <2>2 DEF Forgiven
  <2>3. QED
    BY <2>1, <2>2
<1>9. InOrder(Failed(k, now), k) /\ Failed(k, now).flight = buckets[k].flight - 1
  <2> DEFINE end == IF q.blocked > now + LockTime(k) THEN q.blocked
                    ELSE now + LockTime(k)
             lock == IF Len(q.failures) + 1 >= MaxFailures(k) THEN end ELSE q.blocked
  <2>1. Failed(k, now) = [q EXCEPT !.failures = Append(q.failures, now),
                                   !.blocked = lock]
    BY DEF Failed
  <2>2. q \in Bucket /\ q.failures \in Seq(Nat)
    BY <1>7 DEF InOrder, Bucket
  <2>3. Len(q.failures) + 1 + q.flight <= MaxFailures(k)
    <3>1. Len(r.failures) + buckets[k].flight <= MaxFailures(k)
            /\ Len(r.failures) \in Nat /\ buckets[k].flight \in Nat
      BY <1>2, <1>6 DEF InOrder, Bucket
    <3>2. Len(q.failures) \in Nat
      BY <2>2
    <3>3. q.flight = buckets[k].flight - 1
      BY <1>6, <1>7
    <3>4. Len(q.failures) <= Len(r.failures) /\ MaxFailures(k) \in Nat
      BY <1>4, <1>7
    <3>5. \A a, b, m, f \in Nat : a <= b /\ b + f <= m => a + 1 + (f - 1) <= m
      OBVIOUS
    <3>6. Len(q.failures) + 1 + (buckets[k].flight - 1) <= MaxFailures(k)
      <4> HIDE DEF q, r
      <4>1. QED
        BY <3>1, <3>2, <3>4, <3>5
    <3>7. QED
      BY <3>3, <3>6
  <2> HIDE DEF q, r
  <2>4. lock \in Nat /\ (lock > 0 => Len(q.failures) + 1 >= MaxFailures(k))
    BY <1>4, <1>7, <2>2
  <2>5. Append(q.failures, now) \in Seq(Nat)
          /\ Len(Append(q.failures, now)) = Len(q.failures) + 1
    BY <2>2
  <2> HIDE DEF lock
  <2>6. Failed(k, now) = [failures |-> Append(q.failures, now), blocked |-> lock,
                          flight |-> q.flight]
    BY <2>1, <2>2 DEF Bucket
  <2>7. q.flight \in Nat /\ Len(q.failures) \in Nat
    BY <2>2 DEF Bucket
  <2>8. QED
    BY <1>4, <1>6, <1>7, <2>3, <2>4, <2>5, <2>6, <2>7 DEF InOrder, Bucket
<1>10. QED
  BY <1>1, <1>5, <1>6, <1>8, <1>9

(* Such an end keeps the invariant, and lifts no lock.                     *)
LEMMA EndStep ==
  ASSUME LimiterInv, NEW l \in leases, NEW e, EndAttempt(l, e),
         \A k \in KeysOf(l.pair) : k \in Keys /\ buckets[k].blocked = 0
           /\ InOrder(e[k], k) /\ e[k].flight = buckets[k].flight - 1
  PROVE  /\ LimiterInv'
         /\ \A k \in Keys : buckets'[k].blocked < buckets[k].blocked
              => buckets[k].blocked <= clock
<1>1. TypeOK /\ FlightIsLeases /\ \A k \in Keys : InOrder(buckets[k], k)
  BY DEF LimiterInv
<1>2. \A k \in Keys : /\ InOrder(buckets'[k], k)
                     /\ buckets'[k].flight = Cardinality(Holders(leases', k))
  <2> SUFFICES ASSUME NEW k \in Keys
               PROVE  InOrder(buckets'[k], k)
                        /\ buckets'[k].flight = Cardinality(Holders(leases', k))
    OBVIOUS
  <2>1. buckets[k].flight = Cardinality(Holders(leases, k)) /\ IsFiniteSet(leases)
          /\ leases' = leases \ {l}
    BY <1>1 DEF FlightIsLeases, TypeOK, EndAttempt
  <2>2. CASE k \in KeysOf(l.pair)
    <3>1. buckets'[k] = e[k] /\ InOrder(e[k], k)
            /\ e[k].flight = buckets[k].flight - 1
      BY <2>2 DEF EndAttempt
    <3>2. Cardinality(Holders(leases \ {l}, k)) = Cardinality(Holders(leases, k)) - 1
      BY <2>1, <2>2, OneLease
    <3>3. QED
      BY <2>1, <3>1, <3>2
  <2>3. CASE k \notin KeysOf(l.pair)
    <3>1. buckets'[k] = buckets[k]
      BY <2>3 DEF EndAttempt
    <3>2. Holders(leases \ {l}, k) = Holders(leases, k)
      BY <2>1, <2>3, OneLease
    <3>3. QED
      BY <1>1, <2>1, <3>1, <3>2
  <2>4. QED
    BY <2>2, <2>3
<1>3. TypeOK'
  <2>1. buckets' \in [Keys -> Bucket]
    <3>1. \A k \in Keys : buckets'[k] \in Bucket
      BY <1>2 DEF InOrder
    <3>2. buckets' = [k \in Keys |-> buckets'[k]]
      BY DEF EndAttempt
    <3>3. QED
      BY <3>1, <3>2
  <2>2. leases' \subseteq Lease /\ IsFiniteSet(leases')
          /\ \A a, b \in leases' : a.token = b.token => a = b
    BY <1>1, OneLease DEF TypeOK, EndAttempt
  <2>3. QED
    BY <1>1, <2>1, <2>2 DEF TypeOK, EndAttempt
<1>4. LimiterInv'
  BY <1>2, <1>3 DEF LimiterInv, FlightIsLeases
<1>5. \A k \in Keys : buckets'[k].blocked < buckets[k].blocked
        => buckets[k].blocked <= clock
  <2> SUFFICES ASSUME NEW k \in Keys, buckets'[k].blocked < buckets[k].blocked
               PROVE  buckets[k].blocked <= clock
    OBVIOUS
  <2>1. buckets[k].blocked \in Nat /\ buckets'[k].blocked \in Nat /\ clock \in Nat
    BY <1>1, <1>3, LimiterAssumption DEF TypeOK, Bucket
  <2>2. k \notin KeysOf(l.pair) => buckets'[k] = buckets[k]
    BY DEF EndAttempt
  <2>3. QED
    BY <2>1, <2>2
<1>6. QED
  BY <1>4, <1>5

-----------------------------------------------------------------------------
(* What a bucket becomes in begin: in order, with f attempts in flight, and *)
(* with the lock it had unless that lock has ended.                         *)
Follows(b, c, k, f, now) ==
  InOrder(c, k) /\ c.flight = f /\ (c.blocked < b.blocked => b.blocked <= now)

(* _cleanup_if_due releases exactly the leases it forgets.                 *)
LEMMA CleanedInOrder ==
  ASSUME LimiterInv, NEW now \in Nat, NEW k \in Keys
  PROVE  Follows(buckets[k], Cleaned(now)[k], k,
                 Cardinality(Holders(leases \ Stale(now), k)), now)
<1>1. InOrder(buckets[k], k) /\ buckets[k] \in Bucket /\ IsFiniteSet(leases)
        /\ buckets[k].flight = Cardinality(Holders(leases, k))
  BY DEF LimiterInv, TypeOK, FlightIsLeases
<1>2. CASE ~CleanupDue(now)
  <2>1. Cleaned(now)[k] = buckets[k]
    BY <1>2 DEF Cleaned
  <2>2. leases \ Stale(now) = leases
    BY <1>2 DEF Stale
  <2>3. buckets[k].blocked \in Nat
    BY <1>1 DEF Bucket
  <2>4. QED
    BY <1>1, <2>1, <2>2, <2>3 DEF Follows
<1>3. CASE CleanupDue(now)
  <2> DEFINE n == Cardinality(Holders(Stale(now), k))
             r == Released(buckets[k], n)
  <2>1. Stale(now) \in SUBSET leases
    BY DEF Stale
  <2>2. n \in Nat /\ n <= buckets[k].flight
          /\ Cardinality(Holders(leases \ Stale(now), k)) = buckets[k].flight - n
    BY <1>1, <2>1, HoldersCount
  <2>3. InOrder(r, k) /\ r.flight = buckets[k].flight - n
          /\ r.blocked = buckets[k].blocked
    <3> HIDE DEF n
    <3>1. QED
      BY <1>1, <2>2, ReleasedInOrder
  <2>4. Cleaned(now)[k] = Prepared(r, now)
    BY <1>3 DEF Cleaned
  <2> HIDE DEF r, n
  <2>5. InOrder(Prepared(r, now), k) /\ Prepared(r, now).flight = r.flight
          /\ (Prepared(r, now).blocked < r.blocked => r.blocked <= now)
    BY <2>3, PreparedInOrder
  <2>6. QED
    BY <2>2, <2>3, <2>4, <2>5 DEF Follows
<1>4. QED
  BY <1>2, <1>3

(* Only an idle key without a running lock loses its place.                *)
LEMMA EvictedIdle ==
  ASSUME NEW B, NEW q, NEW now, NEW e \in Evictions(B, q, now), NEW k \in e
  PROVE  B[k].flight = 0 /\ B[k].blocked <= now
BY DEF Evictions, Evictable, Candidates

(* The new leases: one more for the two keys of the pair.                  *)
LEMMA NewLease ==
  ASSUME NEW L, IsFiniteSet(L), NEW l, l \notin L, NEW k
  PROVE  /\ IsFiniteSet(L \cup {l})
         /\ Cardinality(Holders(L, k)) \in Nat
         /\ k \in KeysOf(l.pair) =>
              Cardinality(Holders(L \cup {l}, k)) = Cardinality(Holders(L, k)) + 1
         /\ k \notin KeysOf(l.pair) => Holders(L \cup {l}, k) = Holders(L, k)
<1>1. IsFiniteSet(L \cup {l})
  BY FS_AddElement
<1>2. IsFiniteSet(Holders(L, k)) /\ Cardinality(Holders(L, k)) \in Nat
  BY HoldersCount, FS_CardinalityType
<1>3. CASE k \notin KeysOf(l.pair)
  BY <1>1, <1>2, <1>3 DEF Holders
<1>4. CASE k \in KeysOf(l.pair)
  <2>1. l \notin Holders(L, k) /\ Holders(L \cup {l}, k) = Holders(L, k) \cup {l}
    BY <1>4 DEF Holders
  <2>2. Cardinality(Holders(L, k) \cup {l}) = Cardinality(Holders(L, k)) + 1
    BY <1>2, <2>1, FS_AddElement
  <2>3. Cardinality(Holders(L \cup {l}, k)) = Cardinality(Holders(L, k)) + 1
    BY <2>1, <2>2
  <2>4. QED
    BY <1>1, <1>2, <1>4, <2>3
<1>5. QED
  BY <1>3, <1>4

(* begin, admitted or refused, keeps the invariant and lifts no running    *)
(* lock: after the clean-up and the evictions the buckets follow the ones  *)
(* before, and an admitted attempt finds a place under the limit.          *)
LEMMA BeginStep ==
  ASSUME LimiterInv, NEW p \in PairKeys, NEW now \in Times, Begin(p, now)
  PROVE  /\ LimiterInv'
         /\ \A k \in Keys : buckets'[k].blocked < buckets[k].blocked
              => buckets[k].blocked <= clock
<1> DEFINE B == Cleaned(now)
           kept == leases \ Stale(now)
           count(k) == Cardinality(Holders(kept, k))
           room == \A k \in KeysOf(p) : Room(B, k, now)
           free == {t \in Tokens : \A l \in kept : l.token # t}
           new == [token |-> CHOOSE t \in free : TRUE, pair |-> p, started |-> now]
           C(e, f) == [k \in Keys |-> IF k \in e \cup f THEN Fresh
                                      ELSE IF room /\ k \in KeysOf(p)
                                      THEN Prepared(B[k], now) ELSE B[k]]
<1>1. now \in Nat /\ now <= clock /\ clock \in Nat
  BY LimiterAssumption DEF LimiterInv, TypeOK, Times
<1>2. TypeOK /\ IsFiniteSet(leases)
  BY DEF LimiterInv, TypeOK
<1>3. IsFiniteSet(kept) /\ kept \subseteq leases
  BY <1>2, FS_Subset
<1>4. PICK e \in Evictions(B, p, now), f \in Evictions(B, p[1], now) :
        /\ lastCleanup' = IF CleanupDue(now) THEN now ELSE lastCleanup
        /\ \/ /\ room /\ \A k \in KeysOf(p) : Admits(C(e, f)[k], k, now)
              /\ free # {}
              /\ buckets' = [k \in Keys |-> IF k \in KeysOf(p)
                    THEN [C(e, f)[k] EXCEPT !.flight = @ + 1] ELSE C(e, f)[k]]
              /\ leases' = kept \cup {new}
           \/ /\ buckets' = C(e, f)
              /\ leases' = kept
        /\ UNCHANGED clock
  BY Zenon DEF Begin
<1>5. ASSUME NEW k \in Keys
      PROVE  Follows(buckets[k], C(e, f)[k], k, count(k), now)
  <2>1. Follows(buckets[k], B[k], k, count(k), now)
    BY <1>1, CleanedInOrder
  <2>2. buckets[k].blocked \in Nat /\ B[k].blocked \in Nat
    BY <1>2, <2>1 DEF TypeOK, Bucket, Follows, InOrder
  <2>3. CASE k \in e \cup f
    <3>1. B[k].flight = 0 /\ B[k].blocked <= now
      BY <2>3, EvictedIdle
    <3>2. C(e, f)[k] = Fresh
      BY <2>3
    <3>3. InOrder(Fresh, k) /\ Fresh.flight = 0 /\ Fresh.blocked = 0
      BY Limits DEF Fresh
    <3> HIDE DEF B, C, count
    <3>4. QED
      BY <1>1, <2>1, <2>2, <3>1, <3>2, <3>3 DEF Follows
  <2>4. CASE k \notin e \cup f /\ room /\ k \in KeysOf(p)
    <3>1. C(e, f)[k] = Prepared(B[k], now)
      BY <2>4
    <3>2. InOrder(B[k], k)
      BY <2>1 DEF Follows
    <3> HIDE DEF B, C, count
    <3>3. /\ InOrder(Prepared(B[k], now), k)
          /\ Prepared(B[k], now).flight = B[k].flight
          /\ Prepared(B[k], now).blocked \in Nat
          /\ Prepared(B[k], now).blocked < B[k].blocked => B[k].blocked <= now
      BY <1>1, <3>2, PreparedInOrder
    <3>4. QED
      BY <1>1, <2>1, <2>2, <3>1, <3>3 DEF Follows
  <2>5. CASE k \notin e \cup f /\ ~(room /\ k \in KeysOf(p))
    <3>1. C(e, f)[k] = B[k]
      BY <2>5
    <3>2. QED
      BY <2>1, <3>1
  <2>6. QED
    BY <2>3, <2>4, <2>5
<1>6. buckets' = [k \in Keys |-> buckets'[k]]
  BY <1>4
<1>7. CASE buckets' = C(e, f) /\ leases' = kept
  <2>1. \A k \in Keys : Follows(buckets[k], buckets'[k], k, count(k), now)
    BY <1>5, <1>7
  <2>2. TypeOK'
    <3>1. buckets' \in [Keys -> Bucket]
      BY <1>6, <2>1 DEF Follows, InOrder
    <3>2. lastCleanup' \in Nat /\ clock' = clock
      BY <1>1, <1>2, <1>4 DEF TypeOK
    <3>3. QED
      BY <1>2, <1>3, <1>7, <3>1, <3>2 DEF TypeOK
  <2>3. LimiterInv'
    BY <1>7, <2>1, <2>2 DEF LimiterInv, FlightIsLeases, Follows
  <2>4. \A k \in Keys : buckets[k].blocked \in Nat
    BY <1>2 DEF TypeOK, Bucket
  <2>5. QED
    BY <1>1, <2>1, <2>3, <2>4 DEF Follows
<1>8. CASE /\ \A k \in KeysOf(p) : Admits(C(e, f)[k], k, now)
           /\ free # {}
           /\ buckets' = [k \in Keys |-> IF k \in KeysOf(p)
                 THEN [C(e, f)[k] EXCEPT !.flight = @ + 1] ELSE C(e, f)[k]]
           /\ leases' = kept \cup {new}
  <2>1. new \in Lease /\ new \notin kept /\ new.pair = p
          /\ \A l \in kept : l.token # new.token
    <3>1. (CHOOSE t \in free : TRUE) \in free
      BY <1>8
    <3>2. QED
      BY <1>1, <3>1 DEF Lease
  <2> HIDE DEF new
  <2>2. ASSUME NEW k \in Keys
        PROVE  Follows(buckets[k], buckets'[k], k, Cardinality(Holders(leases', k)), now)
    <3>1. Follows(buckets[k], C(e, f)[k], k, count(k), now)
      BY <1>5
    <3>2. CASE k \in KeysOf(p)
      <4>1. Cardinality(Holders(leases', k)) = count(k) + 1
        BY <1>3, <1>8, <2>1, <3>2, NewLease
      <4>2. Admits(C(e, f)[k], k, now)
              /\ buckets'[k] = [C(e, f)[k] EXCEPT !.flight = @ + 1]
        BY <1>8, <3>2
      <4>3. MaxFailures(k) \in Nat
        BY Limits
      <4> HIDE DEF C, count
      <4>4. C(e, f)[k] \in Bucket /\ InOrder(C(e, f)[k], k)
        BY <3>1 DEF Follows, InOrder
      <4>5. buckets'[k] = [failures |-> C(e, f)[k].failures,
              blocked |-> C(e, f)[k].blocked, flight |-> C(e, f)[k].flight + 1]
        BY <4>2, <4>4 DEF Bucket
      <4>6. C(e, f)[k].failures \in Seq(Nat) /\ C(e, f)[k].blocked \in Nat
              /\ C(e, f)[k].flight \in Nat
        BY <4>4 DEF Bucket
      <4>7. InOrder(buckets'[k], k)
        BY <4>2, <4>3, <4>4, <4>5, <4>6 DEF InOrder, Bucket, Admits
      <4>8. QED
        BY <3>1, <4>1, <4>5, <4>7 DEF Follows
    <3>3. CASE k \notin KeysOf(p)
      <4>1. Holders(leases', k) = Holders(kept, k)
        BY <1>3, <1>8, <2>1, <3>3, NewLease
      <4>2. buckets'[k] = C(e, f)[k]
        BY <1>8, <3>3
      <4>3. QED
        BY <3>1, <4>1, <4>2
    <3>4. QED
      BY <3>2, <3>3
  <2>3. TypeOK'
    <3>1. buckets' \in [Keys -> Bucket]
      BY <1>6, <2>2 DEF Follows, InOrder
    <3>2. lastCleanup' \in Nat /\ clock' = clock
      BY <1>1, <1>2, <1>4 DEF TypeOK
    <3>3. IsFiniteSet(leases')
      BY <1>3, <1>8, FS_AddElement
    <3>4. leases' \subseteq Lease
            /\ \A a, b \in leases' : a.token = b.token => a = b
      BY <1>2, <1>3, <1>8, <2>1 DEF TypeOK
    <3>5. QED
      BY <1>2, <3>1, <3>2, <3>3, <3>4 DEF TypeOK
  <2>4. LimiterInv'
    BY <2>2, <2>3 DEF LimiterInv, FlightIsLeases, Follows
  <2>5. \A k \in Keys : buckets[k].blocked \in Nat
    BY <1>2 DEF TypeOK, Bucket
  <2>6. QED
    BY <1>1, <2>2, <2>4, <2>5 DEF Follows
<1>9. QED
  BY <1>4, <1>7, <1>8

-----------------------------------------------------------------------------
(* Every step of the limiter keeps the invariant and every running lock.   *)
LEMMA LimiterStep ==
  ASSUME LimiterInv, [Next]_vars
  PROVE  /\ LimiterInv'
         /\ \A k \in Keys : buckets'[k].blocked < buckets[k].blocked
              => buckets[k].blocked <= clock
<1>1. ASSUME NEW now \in Times
      PROVE  now \in Nat
  BY LimiterAssumption DEF Times
<1>2. \A k \in Keys : buckets[k].blocked \in Nat
  BY DEF LimiterInv, TypeOK, Bucket
<1>3. CASE \E p \in PairKeys, now \in Times : Begin(p, now)
  BY <1>3, BeginStep
<1>4. ASSUME NEW l \in leases, NEW now \in Times, Failure(l, now)
      PROVE  /\ LimiterInv'
             /\ \A k \in Keys : buckets'[k].blocked < buckets[k].blocked
                  => buckets[k].blocked <= clock
  BY <1>1, <1>4, EndedInOrder, EndStep DEF Failure
<1>5. ASSUME NEW l \in leases, NEW now \in Times, Success(l, now)
      PROVE  /\ LimiterInv'
             /\ \A k \in Keys : buckets'[k].blocked < buckets[k].blocked
                  => buckets[k].blocked <= clock
  BY <1>1, <1>5, EndedInOrder, EndStep DEF Success
<1>6. ASSUME NEW l \in leases, Cancel(l)
      PROVE  /\ LimiterInv'
             /\ \A k \in Keys : buckets'[k].blocked < buckets[k].blocked
                  => buckets[k].blocked <= clock
  BY <1>6, EndedInOrder, EndStep DEF Cancel
<1>7. CASE Tick
  <2>1. TypeOK'
    BY <1>7, LimiterAssumption DEF Tick, LimiterInv, TypeOK
  <2>2. QED
    BY <1>2, <1>7, <2>1 DEF Tick, LimiterInv, FlightIsLeases
<1>8. CASE UNCHANGED vars
  BY <1>2, <1>8 DEF vars, LimiterInv, TypeOK, FlightIsLeases
<1>9. QED
  BY <1>3, <1>4, <1>5, <1>6, <1>7, <1>8 DEF Next

(* The limiter's invariant holds in every reachable state: types, exact    *)
(* reservations, no bucket over its limit or locked below it.              *)
THEOREM LimiterCorrect == Spec => []LimiterInv
<1>1. Init => LimiterInv
  <2> SUFFICES ASSUME Init PROVE LimiterInv
    OBVIOUS
  <2>1. \A k \in Keys : Holders(leases, k) = {}
    BY DEF Init, Holders
  <2>2. IsFiniteSet(leases) /\ Cardinality({}) = 0
    BY FS_EmptySet DEF Init
  <2>3. \A k \in Keys : buckets[k] = Fresh /\ InOrder(Fresh, k) /\ Fresh.flight = 0
    BY Limits DEF Init, Fresh
  <2>4. TypeOK
    BY <2>2, <2>3, LimiterAssumption DEF TypeOK, Init, InOrder
  <2>5. FlightIsLeases
    BY <2>1, <2>2, <2>3 DEF FlightIsLeases
  <2>6. QED
    BY <2>3, <2>4, <2>5 DEF LimiterInv
<1>2. LimiterInv /\ [Next]_vars => LimiterInv'
  BY LimiterStep
<1>3. QED
  BY <1>1, <1>2, PTL DEF Spec

(* No reservation leaks: begin, failure, success, cancel and the clean-up  *)
(* keep every count equal to the leases under way.                         *)
THEOREM ReservationsExact == Spec => []FlightIsLeases
<1>1. LimiterInv => FlightIsLeases
  BY DEF LimiterInv
<1>2. QED
  BY <1>1, LimiterCorrect, PTL

(* Concurrent verifications cannot exceed the limit of failures of a pair  *)
(* or of an address.                                                       *)
THEOREM LimitHolds == Spec => []NeverOverLimit
<1>1. LimiterInv => NeverOverLimit
  BY DEF LimiterInv, NeverOverLimit, InOrder
<1>2. QED
  BY <1>1, LimiterCorrect, PTL

(* A locked key has a full count, so nothing is being verified for it.     *)
THEOREM LockMeansFull == Spec => []LockedIsFull
<1>1. LimiterInv => LockedIsFull
  BY DEF LimiterInv, LockedIsFull, InOrder
<1>2. QED
  BY <1>1, LimiterCorrect, PTL

(* A running lock is lifted by no success, no eviction and no clean-up.    *)
THEOREM LocksLastAlways == Spec => LocksLast
<1>1. LimiterInv /\ [Next]_vars
        => [\A k \in Keys : buckets'[k].blocked < buckets[k].blocked
              => buckets[k].blocked <= clock]_vars
  BY LimiterStep
<1>2. QED
  BY <1>1, LimiterCorrect, PTL DEF Spec, LocksLast
=============================================================================
