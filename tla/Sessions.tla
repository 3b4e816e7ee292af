------------------------------ MODULE Sessions ------------------------------
(***************************************************************************)
(* api/sessions.py: the registry of the sessions that are open.  Memory    *)
(* decides; every change is written through to a file that a restart loads *)
(* again.  A session is its number: numbers are given in the order of      *)
(* created_at and never given twice.                                       *)
(***************************************************************************)
EXTENDS Naturals, FiniteSets, JsonFile

CONSTANTS
  Names,        \* of accounts
  MaxSessions,  \* bound: sessions opened in all
  MaxPerUser    \* sessions an account may have

ASSUME SessionsAssumption == MaxSessions \in Nat /\ MaxPerUser \in Nat \ {0}

Sids == 1..MaxSessions
NoSid == 0

VARIABLES
  live,      \* the sessions in memory
  filed,     \* those in the file
  aged,      \* those older than the time to live
  owner      \* the account of every session ever opened

registry == <<live, filed, aged, owner>>

Opened == DOMAIN owner
Of(S, n) == {s \in S : owner[s] = n}

RegistryTypeOK ==
  /\ Opened = 1..Cardinality(Opened) /\ Opened \subseteq Sids
  /\ owner \in [Opened -> Names]
  /\ live \subseteq Opened /\ filed \subseteq Opened /\ aged \subseteq Opened

RegistryInit ==
  /\ live = {} /\ filed = {} /\ aged = {}
  /\ owner = [s \in {} |-> CHOOSE n \in Names : TRUE]

NextSid == Cardinality(Opened) + 1

(* _enforce_cap: the oldest sessions of the account give way.              *)
Capped(S) ==
  {s \in S : Cardinality({x \in S : owner'[x] = owner'[s] /\ x > s}) < MaxPerUser}

(* _persist, after memory has changed.                                     *)
Persist(S, ok) ==
  /\ live' = S
  /\ \E w \in Writes("sessions", filed, S) : filed' = w.data /\ ok = w.ok

Register(n, ok) ==
  /\ NextSid \in Sids
  /\ owner' = [s \in Opened \cup {NextSid} |-> IF s = NextSid THEN n ELSE owner[s]]
  /\ Persist(Capped(live \cup {NextSid}), ok)
  /\ UNCHANGED aged

(* revoke_others and, with no session to keep, revoke_all: the file is     *)
(* only written if there is something to revoke.                           *)
RevokeOthers(keep, n, ok) ==
  LET targets == Of(live, n) \ {keep} IN
  /\ IF targets = {} THEN ok /\ UNCHANGED <<live, filed>>
     ELSE Persist(live \ targets, ok)
  /\ UNCHANGED <<aged, owner>>

Revoke(s, ok) ==
  /\ s \in live
  /\ Persist(live \ {s}, ok)
  /\ UNCHANGED <<aged, owner>>

(* is_valid                                                                *)
Valid(s) == s \in live \ aged

(* is_valid, of a session that is too old: it is dropped on the way.       *)
Purge(s) == s \in aged /\ \E ok \in BOOLEAN : Revoke(s, ok)

Age(s) ==
  /\ s \in live \ aged
  /\ aged' = aged \cup {s}
  /\ UNCHANGED <<live, filed, owner>>

(* _load_into_memory: the file keeps the sessions that are too old.        *)
LoadSessions ==
  /\ live' = filed \ aged
  /\ UNCHANGED <<filed, aged, owner>>

(* The process stops: memory is gone.                                      *)
LoseMemory == live' = {} /\ UNCHANGED <<filed, aged, owner>>
=============================================================================
