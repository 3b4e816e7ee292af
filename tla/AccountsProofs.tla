--------------------------- MODULE AccountsProofs ---------------------------
(***************************************************************************)
(* Accounts and sessions, for any names, roles and tokens, and any number  *)
(* of requests, failed writes and stops of the process.                    *)
(***************************************************************************)
EXTENDS Accounts, FiniteSetTheorems, TLAPS

(* A write leaves the old content or the new one: the new one when it is   *)
(* answered as done, and the old one otherwise unless it may fail after    *)
(* the replacement; a write that cannot fail is done.                      *)
LEMMA WriteResult ==
  ASSUME NEW file, NEW old, NEW new, NEW w \in Writes(file, old, new)
  PROVE  /\ w.data \in {old, new} /\ w.ok \in BOOLEAN
         /\ w.ok => w.data = new
         /\ file \notin FailsAfter /\ ~w.ok => w.data = old
         /\ file \notin FailsBefore \cup FailsAfter => w.ok
<1>1. \/ w = [data |-> new, ok |-> TRUE]
      \/ w = [data |-> old, ok |-> FALSE] /\ file \in FailsBefore
      \/ w = [data |-> new, ok |-> FALSE] /\ file \in FailsAfter
  BY DEF Writes
<1>2. w.data \in {old, new}
  BY <1>1
<1>3. \/ w.ok = TRUE /\ w.data = new
      \/ w.ok = FALSE /\ w.data = old /\ file \in FailsBefore
      \/ w.ok = FALSE /\ file \in FailsAfter
  BY <1>1
<1>4. QED
  BY <1>2, <1>3

LEMMA NotWrittenResult ==
  ASSUME NEW old, NEW w \in NotWritten(old)
  PROVE  w.data = old /\ w.ok = TRUE
BY DEF NotWritten

-----------------------------------------------------------------------------
(* The registry of sessions.                                               *)
LEMMA NextSidType ==
  ASSUME RegistryTypeOK
  PROVE  /\ NextSid \in Nat \ {0} /\ NextSid \notin Opened
         /\ Opened \cup {NextSid} = 1..NextSid /\ Cardinality(1..NextSid) = NextSid
<1>1. IsFiniteSet(Opened)
  <2>1. IsFiniteSet(Sids)
    BY FS_Interval, SessionsAssumption DEF Sids
  <2>2. QED
    BY <2>1, FS_Subset DEF RegistryTypeOK
<1>2. Cardinality(Opened) \in Nat /\ Opened = 1..Cardinality(Opened)
  BY <1>1, FS_CardinalityType DEF RegistryTypeOK
<1> DEFINE k == Cardinality(Opened)
<1>3. k \in Nat /\ Opened = 1..k /\ NextSid = k + 1
  BY <1>2 DEF NextSid
<1> HIDE DEF k
<1>4. Opened \cup {NextSid} = 1..NextSid
  BY <1>3
<1>5. Cardinality(1..NextSid) = NextSid
  BY <1>3, FS_Interval
<1>6. QED
  BY <1>3, <1>4, <1>5

(* What Persist writes is what memory keeps, when the file of sessions can *)
(* be written.                                                             *)
SessionsKept == "sessions" \notin FailsBefore \cup FailsAfter

LEMMA PersistResult ==
  ASSUME NEW S, NEW ok \in BOOLEAN, Persist(S, ok)
  PROVE  /\ live' = S /\ filed' \in {filed, S}
         /\ SessionsKept => filed' = S /\ ok
<1>1. PICK w \in Writes("sessions", filed, S) : filed' = w.data /\ ok = w.ok
  BY DEF Persist
<1>2. QED
  BY <1>1, WriteResult DEF Persist, SessionsKept

LEMMA RegisterStep ==
  ASSUME RegistryTypeOK, NEW n \in Names, NEW ok \in BOOLEAN, Register(n, ok)
  PROVE  /\ RegistryTypeOK' /\ Opened' = Opened \cup {NextSid} /\ UNCHANGED aged
         /\ NextSid \in Sids /\ NextSid \notin Opened
         /\ owner'[NextSid] = n /\ \A s \in Opened : owner'[s] = owner[s]
         /\ live' \subseteq live \cup {NextSid}
         /\ SessionsKept => filed' = live'
<1>1. /\ NextSid \in Sids /\ UNCHANGED aged
      /\ owner' = [s \in Opened \cup {NextSid} |-> IF s = NextSid THEN n ELSE owner[s]]
      /\ Persist(Capped(live \cup {NextSid}), ok)
  BY DEF Register
<1>2. Capped(live \cup {NextSid}) \subseteq live \cup {NextSid}
  BY DEF Capped
<1>3. /\ live' \subseteq live \cup {NextSid} /\ filed' \subseteq filed \cup live \cup {NextSid}
      /\ SessionsKept => filed' = live'
  BY <1>1, <1>2, PersistResult
<1>4. Opened' = Opened \cup {NextSid}
  BY <1>1 DEF Opened
<1>5. /\ NextSid \notin Opened /\ Opened' = 1..NextSid /\ Cardinality(1..NextSid) = NextSid
  BY <1>4, NextSidType
<1>6. Opened' = 1..Cardinality(Opened')
  BY <1>5
<1>7. RegistryTypeOK'
  BY <1>1, <1>3, <1>4, <1>6 DEF RegistryTypeOK, Opened
<1>8. QED
  BY <1>1, <1>3, <1>4, <1>5, <1>7 DEF Opened

(* The other operations open no session.                                   *)
Closing == UNCHANGED owner /\ live' \subseteq Opened /\ filed' \subseteq Opened /\ aged' \subseteq Opened

LEMMA ClosingType ==
  ASSUME RegistryTypeOK, Closing
  PROVE  RegistryTypeOK'
BY DEF RegistryTypeOK, Closing, Opened

LEMMA RevokeOthersStep ==
  ASSUME RegistryTypeOK, NEW keep, NEW n, NEW ok \in BOOLEAN, RevokeOthers(keep, n, ok)
  PROVE  /\ Closing /\ UNCHANGED aged
         /\ live' = live \ (Of(live, n) \ {keep})
         /\ SessionsKept => ok /\ (filed' = live' \/ UNCHANGED <<live, filed>>)
<1>1. CASE Of(live, n) \ {keep} = {}
  BY <1>1 DEF RevokeOthers, Closing, RegistryTypeOK
<1>2. CASE Of(live, n) \ {keep} # {}
  <2>1. Persist(live \ (Of(live, n) \ {keep}), ok) /\ UNCHANGED <<aged, owner>>
    BY <1>2 DEF RevokeOthers
  <2>2. QED
    BY <2>1, PersistResult DEF Closing, RegistryTypeOK
<1>3. QED
  BY <1>1, <1>2

LEMMA RevokeStep ==
  ASSUME RegistryTypeOK, NEW s, NEW ok \in BOOLEAN, Revoke(s, ok)
  PROVE  /\ Closing /\ UNCHANGED aged /\ s \in live /\ live' = live \ {s}
         /\ SessionsKept => ok /\ filed' = live'
<1>1. Persist(live \ {s}, ok) /\ UNCHANGED <<aged, owner>> /\ s \in live
  BY DEF Revoke
<1>2. QED
  BY <1>1, PersistResult DEF Closing, RegistryTypeOK

-----------------------------------------------------------------------------
(* Types, whatever the number of threads.                                  *)
Proving == {"totp", "revoke", "credentials", "users", "undo", "memory", "register", "disconnect"}

(* Every account was given to somebody, and who signs in is somebody.      *)
Handed ==
  /\ \A n \in Names : users[n] # Nobody \/ usersFile[n] # Nobody => holder[n] \in Ids
  /\ \A t \in Threads :
       /\ job[t].pc \in {"memory", "role"} => holder[job[t].user] \in Ids
       /\ job[t].pc \in Proving => job[t].proof \in Proof

TypeInv == TypeOK /\ Handed

UserFile == [Names -> Roles \cup {Nobody}]
PasswordFile == [Names -> Password \cup {None}]
FactorFile == [Names -> Factor \cup {None}]

LEMMA FilesType ==
  ASSUME TypeOK, NEW n \in Names
  PROVE  /\ \A r \in Roles : \A w \in UsersWith(n, r) : w.data \in UserFile /\ w.ok \in BOOLEAN
         /\ \A w \in UsersWithout(n) : w.data \in UserFile /\ w.ok \in BOOLEAN
         /\ \A p \in Proof : \A w \in PasswordsWith(n, p) :
              w.data \in PasswordFile /\ w.ok \in BOOLEAN
         /\ \A w \in PasswordsWithout(n) : w.data \in PasswordFile /\ w.ok \in BOOLEAN
         /\ \A h \in Ids : \A w \in FactorPending(n, h) : w.data \in FactorFile
         /\ factors[n] # None => \A w \in FactorConfirmed(n) : w.data \in FactorFile
         /\ \A w \in FactorsWithout(n) : w.data \in FactorFile /\ w.ok \in BOOLEAN
<1>1. usersFile \in UserFile /\ passwords \in PasswordFile /\ factors \in FactorFile
  BY DEF TypeOK, UserFile, PasswordFile, FactorFile
<1>2. ASSUME NEW r \in Roles \cup {Nobody} PROVE [usersFile EXCEPT ![n] = r] \in UserFile
  BY <1>1 DEF UserFile
<1>3. ASSUME NEW p \in Proof
      PROVE  [passwords EXCEPT ![n] = [holder |-> p.holder, pw |-> p.pw]] \in PasswordFile
  BY <1>1 DEF PasswordFile, Password, Proof
<1>4. [passwords EXCEPT ![n] = None] \in PasswordFile
  BY <1>1 DEF PasswordFile
<1>5. ASSUME NEW h \in Ids
      PROVE  [factors EXCEPT ![n] = [holder |-> h, on |-> FALSE]] \in FactorFile
  BY <1>1 DEF FactorFile, Factor
<1>6. ASSUME factors[n] # None PROVE [factors EXCEPT ![n].on = TRUE] \in FactorFile
  <2>1. factors[n] \in Factor
    BY <1>1, <1>6 DEF FactorFile
  <2>2. [factors[n] EXCEPT !.on = TRUE] \in Factor
    BY <2>1 DEF Factor
  <2>3. QED
    BY <1>1, <2>2 DEF FactorFile
<1>7. [factors EXCEPT ![n] = None] \in FactorFile
  BY <1>1 DEF FactorFile
<1>8. ASSUME NEW r \in Roles \cup {Nobody},
             NEW w \in Writes("users", usersFile, [usersFile EXCEPT ![n] = r])
      PROVE  w.data \in UserFile /\ w.ok \in BOOLEAN
  BY <1>1, <1>2, WriteResult
<1>9. ASSUME NEW p \in Proof, NEW w \in PasswordsWith(n, p)
      PROVE  w.data \in PasswordFile /\ w.ok \in BOOLEAN
  BY <1>1, <1>3, WriteResult DEF PasswordsWith
<1>10. ASSUME NEW w \in PasswordsWithout(n)
       PROVE  w.data \in PasswordFile /\ w.ok \in BOOLEAN
  <2>1. CASE w \in NotWritten(passwords)
    BY <1>1, <2>1, NotWrittenResult
  <2>2. CASE w \in Writes("passwords", passwords, [passwords EXCEPT ![n] = None])
    BY <1>1, <1>4, <2>2, WriteResult
  <2>3. QED
    BY <2>1, <2>2 DEF PasswordsWithout
<1>11. ASSUME NEW h \in Ids, NEW w \in FactorPending(n, h) PROVE w.data \in FactorFile
  BY <1>1, <1>5, WriteResult DEF FactorPending
<1>12. ASSUME factors[n] # None, NEW w \in FactorConfirmed(n) PROVE w.data \in FactorFile
  BY <1>1, <1>6, <1>12, WriteResult DEF FactorConfirmed
<1>13. ASSUME NEW w \in FactorsWithout(n)
       PROVE  w.data \in FactorFile /\ w.ok \in BOOLEAN
  <2>1. CASE w \in NotWritten(factors)
    BY <1>1, <2>1, NotWrittenResult
  <2>2. CASE w \in Writes("totp", factors, [factors EXCEPT ![n] = None])
    BY <1>1, <1>7, <2>2, WriteResult
  <2>3. QED
    BY <2>1, <2>2 DEF FactorsWithout
<1>14. QED
  BY <1>8, <1>9, <1>10, <1>11, <1>12, <1>13 DEF UsersWith, UsersWithout

(* What a session that is current says of its account.                     *)
LEMMA CurrentType ==
  ASSUME TypeOK, NEW s, Current(s)
  PROVE  /\ boot = "up" /\ s \in Opened /\ s \in Sids /\ s \in live /\ owner[s] \in Names
         /\ users[owner[s]] # Nobody /\ proof[s] \in Proof /\ proof[s].holder \in Ids
<1>1. s \in Opened /\ boot = "up" /\ s \in live /\ users[owner[s]] # Nobody
  BY DEF Current, Valid, Exists, TypeOK, RegistryTypeOK
<1>2. QED
  BY <1>1 DEF TypeOK, RegistryTypeOK, Proof

(* A job that goes on, begins or ends.                                     *)
LEMMA JobSteps ==
  ASSUME TypeOK, NEW t \in Threads
  PROVE  /\ Done(t) => /\ job' \in [Threads -> Job \cup {Idle}] /\ job'[t] = Idle
                       /\ \A u \in Threads \ {t} : job'[u] = job[u]
         /\ \A pc \in {"revoke", "drop_sessions", "credentials", "users", "memory", "undo",
                        "register", "drop_totp"} :
              Goto(t, pc) /\ job[t] # Idle =>
                /\ job' \in [Threads -> Job \cup {Idle}]
                /\ job'[t] = [job[t] EXCEPT !.pc = pc]
                /\ job'[t].pc = pc /\ job'[t].user = job[t].user /\ job'[t].role = job[t].role
                /\ job'[t].by = job[t].by /\ job'[t].proof = job[t].proof
                /\ \A u \in Threads \ {t} : job'[u] = job[u]
<1>1. ASSUME Done(t)
      PROVE  /\ job' \in [Threads -> Job \cup {Idle}] /\ job'[t] = Idle
             /\ \A u \in Threads \ {t} : job'[u] = job[u]
  BY <1>1 DEF Done, TypeOK
<1>2. ASSUME NEW pc \in {"revoke", "drop_sessions", "credentials", "users", "memory", "undo",
                         "register", "drop_totp"}, Goto(t, pc), job[t] # Idle
      PROVE  /\ job' \in [Threads -> Job \cup {Idle}]
             /\ job'[t] = [job[t] EXCEPT !.pc = pc]
             /\ job'[t].pc = pc /\ job'[t].user = job[t].user /\ job'[t].role = job[t].role
             /\ job'[t].by = job[t].by /\ job'[t].proof = job[t].proof
             /\ \A u \in Threads \ {t} : job'[u] = job[u]
  <2>1. job[t] \in Job
    BY <1>2 DEF TypeOK
  <2>2. [job[t] EXCEPT !.pc = pc] \in Job
    BY <2>1 DEF Job
  <2>3. job' = [job EXCEPT ![t] = [job[t] EXCEPT !.pc = pc]]
    BY <1>2 DEF Goto
  <2>4. job'[t] = [job[t] EXCEPT !.pc = pc] /\ job' \in [Threads -> Job \cup {Idle}]
        /\ \A u \in Threads \ {t} : job'[u] = job[u]
    BY <2>2, <2>3 DEF TypeOK
  <2>5. QED
    BY <2>1, <2>4 DEF Job
<1>3. QED
  BY <1>1, <1>2

LEMMA BeginStep ==
  ASSUME TypeOK, NEW t \in Threads, NEW pc \in {"totp", "credentials", "role", "drop",
           "disconnect", "register"}, NEW n \in Names, NEW r \in Roles \cup {Nobody},
         NEW s \in {NoSid} \cup Sids, NEW p \in Proof \cup {None}, Begin(t, pc, n, r, s, p)
  PROVE  /\ job' \in [Threads -> Job \cup {Idle}]
         /\ job'[t] = [pc |-> pc, user |-> n, role |-> r, by |-> s, proof |-> p]
         /\ \A u \in Threads \ {t} : job'[u] = job[u]
<1>1. [pc |-> pc, user |-> n, role |-> r, by |-> s, proof |-> p] \in Job
  BY DEF Job
<1>2. QED
  BY <1>1 DEF Begin, TypeOK

(* Accounts keep their holders while one thread goes on.                   *)
LEMMA HandedKept ==
  ASSUME TypeOK, Handed, NEW t \in Threads,
         \A u \in Threads \ {t} : job'[u] = job[u],
         \A n \in Names : holder[n] \in Ids => holder'[n] \in Ids,
         \A n \in Names : users'[n] # Nobody \/ usersFile'[n] # Nobody => holder'[n] \in Ids,
         job'[t].pc \in {"memory", "role"} => holder'[job'[t].user] \in Ids,
         job'[t].pc \in Proving => job'[t].proof \in Proof
  PROVE  Handed'
<1>1. \A u \in Threads : job[u].pc \in {"memory", "role"} => job[u].user \in Names
  BY DEF TypeOK, Job, Idle
<1>2. ASSUME NEW u \in Threads
      PROVE  /\ job'[u].pc \in {"memory", "role"} => holder'[job'[u].user] \in Ids
             /\ job'[u].pc \in Proving => job'[u].proof \in Proof
  BY <1>1 DEF Handed
<1>3. QED
  BY <1>2 DEF Handed

LEMMA HandedDone ==
  ASSUME TypeOK, Handed, NEW t \in Threads, Done(t), UNCHANGED holder,
         \A n \in Names : users'[n] # Nobody \/ usersFile'[n] # Nobody => holder[n] \in Ids
  PROVE  Handed'
<1>1. job'[t] = Idle /\ \A u \in Threads \ {t} : job'[u] = job[u]
  BY JobSteps
<1>2. job'[t].pc \notin {"memory", "role"} /\ job'[t].pc \notin Proving
  BY <1>1 DEF Idle, Proving
<1>3. QED
  BY <1>1, <1>2, HandedKept

LEMMA HandedGoto ==
  ASSUME TypeOK, Handed, NEW t \in Threads, job[t] # Idle,
         NEW pc \in {"revoke", "drop_sessions", "credentials", "users", "memory", "undo",
                     "register", "drop_totp"}, Goto(t, pc),
         \A n \in Names : holder[n] \in Ids => holder'[n] \in Ids,
         \A n \in Names : users'[n] # Nobody \/ usersFile'[n] # Nobody => holder'[n] \in Ids,
         pc = "memory" => holder'[job[t].user] \in Ids,
         pc \in {"drop_sessions", "drop_totp"} \/ job[t].pc \in Proving
  PROVE  Handed'
<1>1. /\ job'[t].pc = pc /\ job'[t].user = job[t].user /\ job'[t].proof = job[t].proof
      /\ \A u \in Threads \ {t} : job'[u] = job[u]
  BY JobSteps
<1>2. job'[t].pc \in {"memory", "role"} => holder'[job'[t].user] \in Ids
  BY <1>1
<1>3. job'[t].pc \in Proving => job'[t].proof \in Proof
  BY <1>1 DEF Handed, Proving
<1>4. QED
  BY <1>1, <1>2, <1>3, HandedKept

(* The steps of a request in progress.                                     *)
LEMMA HandlerType ==
  ASSUME TypeInv, requests' \in 0..MaxRequests, NEW t \in Threads, Handler(t)
  PROVE  TypeInv'
<1> DEFINE J == job[t]
<1>0. TypeOK /\ RegistryTypeOK
  BY DEF TypeInv, TypeOK
<1>1. J \in Job /\ J # Idle /\ J.user \in Names /\ J.role \in Roles \cup {Nobody}
  <2>1. J \in Job /\ J # Idle
    BY DEF Handler, ForgetFactor, ForgetSessions, SetCredentials, StoreAccount, UndoCredentials,
       Publish, RoleInMemory, DropAccount, Disconnect, CompleteLogin, Idle, TypeInv, TypeOK
  <2>2. QED
    BY <2>1 DEF Job
<1>2. J.pc \in Proving => J.proof \in Proof /\ J.proof.holder \in Ids /\ J.proof.pw \in Ids
  BY DEF TypeInv, Handed, Proof
<1>3. Ids \subseteq 0..MaxPasswords
  BY DEF Ids
<1> HIDE DEF J
<1>4. CASE ForgetFactor(t)
  <2>1. PICK w \in FactorsWithout(J.user) : factors' = w.data
    BY <1>4 DEF ForgetFactor, J
  <2>2. factors' \in FactorFile
    BY <1>0, <1>1, <2>1, FilesType
  <2>3. (Goto(t, "revoke") /\ J.pc = "totp") \/ Goto(t, "drop_sessions") \/ Done(t)
    BY <1>4 DEF ForgetFactor, J
  <2>5. /\ UNCHANGED <<boot, yaml, users, usersFile, passwords, tokens, pending, lastPw,
                      kills, holder, proof, changed, gone, live, filed, aged, owner>>
    BY <1>4 DEF ForgetFactor, ghosts, registry
  <2>6. job' \in [Threads -> Job \cup {Idle}]
    BY <1>0, <1>1, <2>3, JobSteps DEF J
  <2>7. Handed'
    <3>1. \A n \in Names : users'[n] # Nobody \/ usersFile'[n] # Nobody => holder[n] \in Ids
      BY <2>5 DEF TypeInv, Handed
    <3>2. CASE Done(t)
      BY <1>0, <2>5, <3>1, <3>2, HandedDone DEF TypeInv
    <3>3. CASE Goto(t, "revoke") /\ J.pc = "totp"
      BY <1>0, <1>1, <2>5, <3>1, <3>3, HandedGoto DEF TypeInv, J, Proving
    <3>4. CASE Goto(t, "drop_sessions")
      BY <1>0, <1>1, <2>5, <3>1, <3>4, HandedGoto DEF TypeInv, J
    <3>5. QED
      BY <2>3, <3>2, <3>3, <3>4
  <2>8. QED
    BY <2>2, <2>5, <2>6, <2>7 DEF TypeInv, TypeOK, FactorFile, RegistryTypeOK, Opened
<1>5. CASE ForgetSessions(t)
  <2>1. PICK ok \in BOOLEAN :
          /\ RevokeOthers(NoSid, J.user, ok)
          /\ IF ok /\ J.pc = "revoke" THEN Goto(t, "credentials") ELSE Done(t)
          /\ gone' = IF ok THEN gone \cup Of(live, J.user) ELSE gone
    BY <1>5 DEF ForgetSessions, J
  <2>2. RegistryTypeOK' /\ Opened' = Opened
    BY <1>0, <2>1, RevokeOthersStep, ClosingType DEF Closing, Opened
  <2>3. /\ UNCHANGED <<boot, yaml, users, usersFile, passwords, factors, tokens, pending, lastPw,
                      kills, holder, proof, changed>>
    BY <1>5 DEF ForgetSessions, files
  <2>4. gone' \subseteq Sids \cup Tokens
    BY <1>0, <2>1 DEF Of, TypeOK, RegistryTypeOK
  <2>5. job' \in [Threads -> Job \cup {Idle}]
    BY <1>0, <1>1, <2>1, JobSteps DEF J
  <2>6. Handed'
    <3>1. \A n \in Names : users'[n] # Nobody \/ usersFile'[n] # Nobody => holder[n] \in Ids
      BY <2>3 DEF TypeInv, Handed
    <3>2. CASE Done(t)
      BY <1>0, <2>3, <3>1, <3>2, HandedDone DEF TypeInv
    <3>3. CASE Goto(t, "credentials") /\ J.pc = "revoke"
      BY <1>0, <1>1, <2>3, <3>1, <3>3, HandedGoto DEF TypeInv, J, Proving
    <3>4. QED
      BY <2>1, <3>2, <3>3
  <2>7. QED
    BY <2>2, <2>3, <2>4, <2>5, <2>6 DEF TypeInv, TypeOK
<1>6. CASE SetCredentials(t)
  <2>1. J.pc = "credentials" /\ J.proof \in Proof
    BY <1>2, <1>6 DEF SetCredentials, J, Proving
  <2>2. PICK w \in PasswordsWith(J.user, J.proof) : passwords' = w.data
    BY <1>6 DEF SetCredentials, J
  <2>3. passwords' \in PasswordFile
    BY <1>0, <1>1, <2>1, <2>2, FilesType
  <2>4. Goto(t, "users") \/ Done(t)
    BY <1>6 DEF SetCredentials
  <2>5. /\ UNCHANGED <<boot, yaml, users, usersFile, factors, tokens, pending, lastPw,
                      kills, holder, proof, changed, gone, live, filed, aged, owner>>
    BY <1>6 DEF SetCredentials, ghosts, registry
  <2>6. job' \in [Threads -> Job \cup {Idle}]
    BY <1>0, <1>1, <2>4, JobSteps DEF J
  <2>7. Handed'
    <3>1. \A n \in Names : users'[n] # Nobody \/ usersFile'[n] # Nobody => holder[n] \in Ids
      BY <2>5 DEF TypeInv, Handed
    <3>2. CASE Done(t)
      BY <1>0, <2>5, <3>1, <3>2, HandedDone DEF TypeInv
    <3>3. CASE Goto(t, "users")
      BY <1>0, <1>1, <2>1, <2>5, <3>1, <3>3, HandedGoto DEF TypeInv, J, Proving
    <3>4. QED
      BY <2>4, <3>2, <3>3
  <2>8. QED
    BY <2>3, <2>5, <2>6, <2>7 DEF TypeInv, TypeOK, PasswordFile, RegistryTypeOK, Opened
<1>7. CASE StoreAccount(t)
  <2>1. J.pc = "users" /\ J.proof \in Proof /\ J.proof.holder \in Ids
    BY <1>2, <1>7 DEF StoreAccount, J, Proving
  <2>2. PICK w \in UsersWith(J.user, J.role) : usersFile' = w.data
    BY <1>7 DEF StoreAccount, J
  <2>3. usersFile \in UserFile /\ holder \in [Names -> 0..MaxPasswords]
    BY <1>0 DEF TypeOK, UserFile
  <2>4. /\ usersFile' \in UserFile
        /\ \A n \in Names \ {J.user} : usersFile'[n] = usersFile[n]
    <3>1. usersFile' \in {usersFile, [usersFile EXCEPT ![J.user] = J.role]}
      BY <2>2, WriteResult DEF UsersWith
    <3>2. QED
      BY <1>1, <2>3, <3>1 DEF UserFile
  <2>5. /\ holder' = [holder EXCEPT ![J.user] = J.proof.holder]
        /\ holder' \in [Names -> 0..MaxPasswords]
    BY <1>1, <1>3, <1>7, <2>1, <2>3 DEF StoreAccount, J
  <2>6. Goto(t, "memory") \/ Goto(t, "undo")
    BY <1>7 DEF StoreAccount
  <2>7. /\ UNCHANGED <<boot, yaml, users, passwords, factors, tokens, pending, lastPw,
                      kills, proof, changed, gone, live, filed, aged, owner>>
    BY <1>7 DEF StoreAccount, registry
  <2>8. job' \in [Threads -> Job \cup {Idle}]
    BY <1>0, <1>1, <2>6, JobSteps DEF J
  <2>9. \A n \in Names : holder'[n] = holder[n] \/ holder'[n] \in Ids
    BY <2>1, <2>3, <2>5
  <2>10. holder'[J.user] \in Ids
    BY <1>1, <2>1, <2>3, <2>5
  <2>11. Handed'
    <3>1. \A n \in Names : users'[n] # Nobody \/ usersFile'[n] # Nobody => holder'[n] \in Ids
      BY <2>4, <2>7, <2>9, <2>10 DEF TypeInv, Handed
    <3>2. \A n \in Names : holder[n] \in Ids => holder'[n] \in Ids
      BY <2>9
    <3>3. J.pc \in Proving
      BY <2>1 DEF Proving
    <3>4. QED
      BY <1>0, <1>1, <2>6, <2>10, <3>1, <3>2, <3>3, HandedGoto DEF TypeInv, J
  <2>12. QED
    BY <2>4, <2>5, <2>7, <2>8, <2>11 DEF TypeInv, TypeOK, UserFile, RegistryTypeOK, Opened
<1>8. CASE UndoCredentials(t)
  <2>1. PICK w \in PasswordsWithout(J.user) : passwords' = w.data
    BY <1>8 DEF UndoCredentials, J
  <2>2. passwords' \in PasswordFile /\ Done(t)
    BY <1>0, <1>1, <1>8, <2>1, FilesType DEF UndoCredentials
  <2>3. /\ UNCHANGED <<boot, yaml, users, usersFile, factors, tokens, pending, lastPw,
                      kills, holder, proof, changed, gone, live, filed, aged, owner>>
    BY <1>8 DEF UndoCredentials, ghosts, registry
  <2>4. Handed'
    <3>1. \A n \in Names : users'[n] # Nobody \/ usersFile'[n] # Nobody => holder[n] \in Ids
      BY <2>3 DEF TypeInv, Handed
    <3>2. QED
      BY <1>0, <2>2, <2>3, <3>1, HandedDone DEF TypeInv
  <2>5. QED
    BY <1>0, <2>2, <2>3, <2>4, JobSteps DEF TypeInv, TypeOK, PasswordFile, RegistryTypeOK, Opened
<1>9. CASE Publish(t)
  <2>1. J.pc = "memory" /\ J.proof.pw \in Ids /\ holder[J.user] \in Ids
    BY <1>2, <1>9 DEF Publish, J, Proving, TypeInv, Handed
  <2>2. users \in UserFile /\ changed \in [Names -> 0..MaxPasswords]
    BY <1>0 DEF TypeOK, UserFile
  <2>3. /\ users' = [users EXCEPT ![J.user] = J.role] /\ users' \in UserFile
        /\ changed' = [changed EXCEPT ![J.user] = J.proof.pw]
        /\ changed' \in [Names -> 0..MaxPasswords]
    BY <1>1, <1>3, <1>9, <2>1, <2>2 DEF Publish, J, UserFile
  <2>4. Goto(t, "register") \/ Done(t)
    BY <1>9 DEF Publish
  <2>5. /\ UNCHANGED <<boot, yaml, usersFile, passwords, factors, tokens, pending, lastPw,
                      kills, holder, proof, gone, live, filed, aged, owner>>
    BY <1>9 DEF Publish, files, registry
  <2>6. job' \in [Threads -> Job \cup {Idle}]
    BY <1>0, <1>1, <2>4, JobSteps DEF J
  <2>7. Handed'
    <3>1. \A n \in Names : users'[n] # Nobody \/ usersFile'[n] # Nobody => holder[n] \in Ids
      BY <2>1, <2>2, <2>3, <2>5 DEF TypeInv, Handed, UserFile
    <3>2. CASE Done(t)
      BY <1>0, <2>5, <3>1, <3>2, HandedDone DEF TypeInv
    <3>3. CASE Goto(t, "register")
      BY <1>0, <1>1, <2>1, <2>5, <3>1, <3>3, HandedGoto DEF TypeInv, J, Proving
    <3>4. QED
      BY <2>4, <3>2, <3>3
  <2>8. QED
    BY <2>3, <2>5, <2>6, <2>7 DEF TypeInv, TypeOK, UserFile, RegistryTypeOK, Opened
<1>10. CASE RoleInMemory(t)
  <2>1. J.pc = "role" /\ holder[J.user] \in Ids /\ Done(t)
    BY <1>10 DEF RoleInMemory, J, TypeInv, Handed
  <2>2. users \in UserFile
    BY <1>0 DEF TypeOK, UserFile
  <2>3. users' = [users EXCEPT ![J.user] = J.role] /\ users' \in UserFile
    BY <1>1, <1>10, <2>2 DEF RoleInMemory, J, UserFile
  <2>4. /\ UNCHANGED <<boot, yaml, usersFile, passwords, factors, tokens, pending, lastPw,
                      kills, holder, proof, changed, gone, live, filed, aged, owner>>
    BY <1>10 DEF RoleInMemory, files, ghosts, registry
  <2>5. Handed'
    <3>1. \A n \in Names : users'[n] # Nobody \/ usersFile'[n] # Nobody => holder[n] \in Ids
      BY <2>1, <2>2, <2>3, <2>4 DEF TypeInv, Handed, UserFile
    <3>2. QED
      BY <1>0, <2>1, <2>4, <3>1, HandedDone DEF TypeInv
  <2>6. QED
    BY <1>0, <2>1, <2>3, <2>4, <2>5, JobSteps DEF TypeInv, TypeOK, UserFile, RegistryTypeOK, Opened
<1>11. CASE DropAccount(t)
  <2>1. PICK w \in PasswordsWithout(J.user) : passwords' = w.data
    BY <1>11 DEF DropAccount, J
  <2>2. passwords' \in PasswordFile /\ Goto(t, "drop_totp")
    BY <1>0, <1>1, <1>11, <2>1, FilesType DEF DropAccount
  <2>3. users \in UserFile
    BY <1>0 DEF TypeOK, UserFile
  <2>4. users' = [users EXCEPT ![J.user] = Nobody] /\ users' \in UserFile
    BY <1>1, <1>11, <2>3 DEF DropAccount, J, UserFile
  <2>5. /\ UNCHANGED <<boot, yaml, usersFile, factors, tokens, pending, lastPw,
                      kills, holder, proof, changed, gone, live, filed, aged, owner>>
    BY <1>11 DEF DropAccount, ghosts, registry
  <2>6. Handed'
    <3>1. \A n \in Names : users'[n] # Nobody \/ usersFile'[n] # Nobody => holder[n] \in Ids
      BY <2>3, <2>4, <2>5 DEF TypeInv, Handed, UserFile
    <3>2. QED
      BY <1>0, <1>1, <2>2, <2>5, <3>1, HandedGoto DEF TypeInv, J
  <2>7. job' \in [Threads -> Job \cup {Idle}]
    BY <1>0, <1>1, <2>2, JobSteps DEF J
  <2>8. QED
    BY <2>2, <2>4, <2>5, <2>6, <2>7
       DEF TypeInv, TypeOK, UserFile, PasswordFile, RegistryTypeOK, Opened
<1>12. CASE Disconnect(t)
  <2> DEFINE keep == IF J.by \in Of(Opened, J.user) THEN J.by ELSE NoSid
  <2>1. PICK ok \in BOOLEAN :
          /\ RevokeOthers(keep, J.user, ok)
          /\ gone' = IF ok THEN gone \cup (Of(live, J.user) \ {keep}) ELSE gone
          /\ changed' = IF ok THEN [changed EXCEPT ![J.user] = J.proof.pw] ELSE changed
          /\ proof' = IF keep = NoSid \/ ~ok THEN proof ELSE [proof EXCEPT ![keep].pw = J.proof.pw]
    BY <1>12 DEF Disconnect, J
  <2>2. RegistryTypeOK' /\ Opened' = Opened
    BY <1>0, <2>1, RevokeOthersStep, ClosingType DEF Closing, Opened
  <2>3. J.proof.pw \in Ids /\ Done(t)
    BY <1>2, <1>12 DEF Disconnect, J, Proving
  <2>4. gone' \subseteq Sids \cup Tokens
    BY <1>0, <2>1 DEF Of, TypeOK, RegistryTypeOK
  <2>5. changed' \in [Names -> 0..MaxPasswords]
    BY <1>0, <1>1, <1>3, <2>1, <2>3 DEF TypeOK
  <2>6. proof' \in [Opened -> Proof]
    <3>1. proof \in [Opened -> Proof]
      BY <1>0 DEF TypeOK
    <3>2. ASSUME keep # NoSid PROVE [proof[keep] EXCEPT !.pw = J.proof.pw] \in Proof
      <4>1. keep \in Opened
        BY <3>2 DEF Of
      <4>2. proof[keep] \in Proof
        BY <3>1, <4>1
      <4>3. QED
        BY <2>3, <4>2 DEF Proof
    <3>3. QED
      BY <2>1, <3>1, <3>2
  <2>7. /\ UNCHANGED <<boot, yaml, users, usersFile, passwords, factors, tokens, pending, lastPw,
                      kills, holder>>
    BY <1>12 DEF Disconnect, files
  <2>8. Handed'
    <3>1. \A n \in Names : users'[n] # Nobody \/ usersFile'[n] # Nobody => holder[n] \in Ids
      BY <2>7 DEF TypeInv, Handed
    <3>2. QED
      BY <1>0, <2>3, <2>7, <3>1, HandedDone DEF TypeInv
  <2>9. job' \in [Threads -> Job \cup {Idle}]
    BY <1>0, <2>3, JobSteps
  <2>10. QED
    BY <2>2, <2>4, <2>5, <2>6, <2>7, <2>8, <2>9 DEF TypeInv, TypeOK
<1>13. CASE CompleteLogin(t)
  <2>1. PICK ok \in BOOLEAN : Register(J.user, ok)
    BY <1>13 DEF CompleteLogin, J
  <2>2. RegistryTypeOK' /\ Opened' = Opened \cup {NextSid}
    BY <1>0, <1>1, <2>1, RegisterStep
  <2>3. J.proof \in Proof /\ Done(t)
    BY <1>2, <1>13 DEF CompleteLogin, J, Proving
  <2>4. proof' = [s \in Opened \cup {NextSid} |-> IF s = NextSid THEN J.proof ELSE proof[s]]
    BY <1>13 DEF CompleteLogin, J
  <2>5. proof' \in [Opened' -> Proof]
    BY <1>0, <2>2, <2>3, <2>4 DEF TypeOK
  <2>6. /\ UNCHANGED <<boot, yaml, users, usersFile, passwords, factors, tokens, pending, lastPw,
                      kills, holder, changed, gone>>
    BY <1>13 DEF CompleteLogin, files
  <2>7. Handed'
    <3>1. \A n \in Names : users'[n] # Nobody \/ usersFile'[n] # Nobody => holder[n] \in Ids
      BY <2>6 DEF TypeInv, Handed
    <3>2. QED
      BY <1>0, <2>3, <2>6, <3>1, HandedDone DEF TypeInv
  <2>8. job' \in [Threads -> Job \cup {Idle}]
    BY <1>0, <2>3, JobSteps
  <2>9. QED
    BY <2>2, <2>5, <2>6, <2>7, <2>8 DEF TypeInv, TypeOK
<1>14. QED
  BY <1>4, <1>5, <1>6, <1>7, <1>8, <1>9, <1>10, <1>11, <1>12, <1>13 DEF Handler

LEMMA HandedBegin ==
  ASSUME TypeOK, Handed, NEW t \in Threads,
         NEW pc \in {"totp", "credentials", "role", "drop", "disconnect", "register"},
         NEW n \in Names, NEW r \in Roles \cup {Nobody}, NEW s \in {NoSid} \cup Sids,
         NEW p \in Proof \cup {None}, Begin(t, pc, n, r, s, p), UNCHANGED holder,
         pc = "role" => holder[n] \in Ids, pc \in {"role", "drop"} \/ p \in Proof,
         \A m \in Names : users'[m] # Nobody \/ usersFile'[m] # Nobody => holder[m] \in Ids
  PROVE  Handed' /\ job' \in [Threads -> Job \cup {Idle}]
<1>1. /\ job' \in [Threads -> Job \cup {Idle}]
      /\ job'[t] = [pc |-> pc, user |-> n, role |-> r, by |-> s, proof |-> p]
      /\ \A u \in Threads \ {t} : job'[u] = job[u]
  BY BeginStep
<1>2. job'[t].pc \in {"memory", "role"} => holder'[job'[t].user] \in Ids
  BY <1>1
<1>3. job'[t].pc \in Proving => job'[t].proof \in Proof
  BY <1>1 DEF Proving
<1>4. QED
  BY <1>1, <1>2, <1>3, HandedKept

(* A password that is chosen.                                              *)
LEMMA NextPassword ==
  ASSUME TypeOK, CanChoose
  PROVE  lastPw + 1 \in Ids /\ lastPw + 1 \in 0..MaxPasswords
BY AccountsAssumption DEF TypeOK, CanChoose, Ids

LEMMA ChosenType ==
  ASSUME TypeOK, CanChoose, NEW h \in Ids
  PROVE  /\ Chosen(h) \in Proof /\ Chosen(h).holder = h /\ Chosen(h).pw = lastPw + 1
         /\ ~Chosen(h).second /\ lastPw + 1 \in Ids /\ lastPw + 1 \in 0..MaxPasswords
BY NextPassword DEF Chosen, Proof

(* The requests, as they begin.                                            *)
LEMMA RequestType ==
  ASSUME TypeInv, requests' \in 0..MaxRequests, NEW t \in Threads, Request(t)
  PROVE  TypeInv'
<1>0. TypeOK /\ RegistryTypeOK /\ Handed
  BY DEF TypeInv, TypeOK
<1>1. ASSUME NEW n \in Names, NEW r \in Roles, NEW s \in {NoSid} \cup Sids,
             NEW pc \in {"totp", "credentials"}, CanChoose, lastPw' = lastPw + 1,
             Begin(t, pc, n, r, s, Chosen(lastPw + 1)),
             UNCHANGED <<boot, yaml, users, files, pending, kills, ghosts, registry>>
      PROVE  TypeInv'
  <2>1. Chosen(lastPw + 1) \in Proof /\ lastPw' \in 0..MaxPasswords
    BY <1>0, <1>1, ChosenType, NextPassword
  <2>2. /\ UNCHANGED <<boot, yaml, users, usersFile, passwords, factors, tokens, pending,
                      kills, holder, proof, changed, gone, live, filed, aged, owner>>
    BY <1>1 DEF files, ghosts, registry
  <2>3. \A m \in Names : users'[m] # Nobody \/ usersFile'[m] # Nobody => holder[m] \in Ids
    BY <1>0, <2>2 DEF Handed
  <2>4. Handed' /\ job' \in [Threads -> Job \cup {Idle}]
    BY <1>0, <1>1, <2>1, <2>2, <2>3, HandedBegin
  <2>5. QED
    BY <1>0, <2>1, <2>2, <2>4 DEF TypeInv, TypeOK, RegistryTypeOK, Opened
<1>2. ASSUME NEW n \in Names, SetupCreate(t, n) PROVE TypeInv'
  BY <1>1, <1>2, AccountsAssumption DEF SetupCreate
<1>3. ASSUME NEW s \in live, NEW n \in Names, NEW r \in Roles, UserAdd(t, s, n, r) PROVE TypeInv'
  <2>1. s \in Sids
    BY <1>0 DEF RegistryTypeOK
  <2>2. QED
    BY <1>1, <1>3, <2>1 DEF UserAdd
<1>4. ASSUME NEW n \in Names, NEW p \in Proof, Begin(t, "register", n, Nobody, NoSid, p),
             pending' \subseteq pending,
             UNCHANGED <<boot, yaml, users, files, lastPw, kills, ghosts, registry>>
      PROVE  TypeInv'
  <2>1. /\ UNCHANGED <<boot, yaml, users, usersFile, passwords, factors, tokens, lastPw,
                      kills, holder, proof, changed, gone, live, filed, aged, owner>>
    BY <1>4 DEF files, ghosts, registry
  <2>2. \A m \in Names : users'[m] # Nobody \/ usersFile'[m] # Nobody => holder[m] \in Ids
    BY <1>0, <2>1 DEF Handed
  <2>3. Handed' /\ job' \in [Threads -> Job \cup {Idle}]
    BY <1>0, <1>4, <2>1, <2>2, HandedBegin
  <2>4. QED
    BY <1>0, <1>4, <2>1, <2>3 DEF TypeInv, TypeOK, RegistryTypeOK, Opened
<1>5. ASSUME NEW n \in Names, Login(t, n) PROVE TypeInv'
  <2> DEFINE p == passwords[n]
  <2>1. p \in Password
    BY <1>0, <1>5 DEF Login, Authenticates, HasPassword, TypeOK
  <2>2. /\ [holder |-> p.holder, pw |-> p.pw, second |-> FALSE] \in Proof
        /\ [user |-> n, holder |-> p.holder, pw |-> p.pw] \in [user : Names, holder : Ids, pw : Ids]
    BY <2>1 DEF Password, Proof
  <2>3. CASE FactorOn(n)
    <3>1. /\ UNCHANGED <<boot, yaml, users, usersFile, passwords, factors, tokens, lastPw, job,
                        kills, holder, proof, changed, gone, live, filed, aged, owner>>
          /\ pending' = pending \cup {[user |-> n, holder |-> p.holder, pw |-> p.pw]}
      BY <1>5, <2>3 DEF Login, files, ghosts, registry
    <3>2. pending' \subseteq [user : Names, holder : Ids, pw : Ids]
      BY <1>0, <2>2, <3>1 DEF TypeOK
    <3>3. Handed'
      BY <1>0, <3>1 DEF Handed
    <3>4. QED
      BY <1>0, <3>1, <3>2, <3>3 DEF TypeInv, TypeOK, RegistryTypeOK, Opened
  <2>4. CASE ~FactorOn(n)
    <3>1. /\ UNCHANGED <<boot, yaml, users, files, lastPw, kills, ghosts, registry>>
          /\ pending' \subseteq pending
          /\ Begin(t, "register", n, Nobody, NoSid,
                   [holder |-> p.holder, pw |-> p.pw, second |-> FALSE])
      BY <1>5, <2>4 DEF Login
    <3>2. QED
      BY <1>4, <2>2, <3>1
  <2>5. QED
    BY <2>3, <2>4
<1>6. ASSUME NEW c \in pending, LoginVerify(t, c) PROVE TypeInv'
  <2>1. c.user \in Names /\ [holder |-> c.holder, pw |-> c.pw, second |-> TRUE] \in Proof
    BY <1>0 DEF TypeOK, Proof
  <2>2. QED
    BY <1>4, <1>6, <2>1 DEF LoginVerify
<1>7. ASSUME NEW s \in live, NEW n \in Names, NEW r \in Roles, UserRole(t, s, n, r) PROVE TypeInv'
  <2>1. PICK w \in UsersWith(n, r) :
          usersFile' = w.data /\ IF w.ok THEN Begin(t, "role", n, r, s, None) ELSE UNCHANGED job
    BY <1>7 DEF UserRole
  <2>2. usersFile' \in UserFile
    BY <1>0, <2>1, FilesType
  <2>3. holder[n] \in Ids /\ s \in Sids
    BY <1>0, <1>7 DEF UserRole, Exists, Handed, RegistryTypeOK
  <2>4. usersFile' \in {usersFile, [usersFile EXCEPT ![n] = r]}
    BY <2>1, WriteResult DEF UsersWith
  <2>5. /\ UNCHANGED <<boot, yaml, users, passwords, factors, tokens, pending, lastPw,
                      kills, holder, proof, changed, gone, live, filed, aged, owner>>
    BY <1>7 DEF UserRole, ghosts, registry
  <2>6. \A m \in Names : users'[m] # Nobody \/ usersFile'[m] # Nobody => holder[m] \in Ids
    BY <1>0, <2>3, <2>4, <2>5 DEF Handed, TypeOK
  <2>7. Handed' /\ job' \in [Threads -> Job \cup {Idle}]
    <3>1. CASE UNCHANGED job
      BY <1>0, <2>5, <2>6, <3>1 DEF Handed, TypeOK
    <3>2. CASE Begin(t, "role", n, r, s, None)
      BY <1>0, <2>3, <2>5, <2>6, <3>2, HandedBegin
    <3>3. QED
      BY <2>1, <3>1, <3>2
  <2>8. QED
    BY <1>0, <2>2, <2>5, <2>7 DEF TypeInv, TypeOK, UserFile, RegistryTypeOK, Opened
<1>8. ASSUME NEW s \in live, NEW n \in Names, UserDelete(t, s, n) PROVE TypeInv'
  <2>1. PICK w \in UsersWithout(n) :
          usersFile' = w.data /\ IF w.ok THEN Begin(t, "drop", n, Nobody, s, None) ELSE UNCHANGED job
    BY <1>8 DEF UserDelete
  <2>2. usersFile' \in UserFile /\ s \in Sids
    BY <1>0, <2>1, FilesType DEF RegistryTypeOK
  <2>3. usersFile' \in {usersFile, [usersFile EXCEPT ![n] = Nobody]}
    BY <2>1, WriteResult DEF UsersWithout
  <2>4. /\ UNCHANGED <<boot, yaml, users, passwords, factors, tokens, pending, lastPw,
                      kills, holder, proof, changed, gone, live, filed, aged, owner>>
    BY <1>8 DEF UserDelete, ghosts, registry
  <2>5. \A m \in Names : users'[m] # Nobody \/ usersFile'[m] # Nobody => holder[m] \in Ids
    BY <1>0, <2>3, <2>4 DEF Handed, TypeOK
  <2>6. Handed' /\ job' \in [Threads -> Job \cup {Idle}]
    <3>1. CASE UNCHANGED job
      BY <1>0, <2>4, <2>5, <3>1 DEF Handed, TypeOK
    <3>2. CASE Begin(t, "drop", n, Nobody, s, None)
      BY <1>0, <2>2, <2>4, <2>5, <3>2, HandedBegin
    <3>3. QED
      BY <2>1, <3>1, <3>2
  <2>7. QED
    BY <1>0, <2>2, <2>4, <2>6 DEF TypeInv, TypeOK, UserFile, RegistryTypeOK, Opened
<1>9. ASSUME NEW s \in live, NEW n \in Names, UserResetTwofa(t, s, n) PROVE TypeInv'
  <2>1. factors' \in FactorFile
    BY <1>0, <1>9, FilesType DEF UserResetTwofa
  <2>2. /\ UNCHANGED <<boot, yaml, users, usersFile, passwords, tokens, pending, lastPw, job,
                      kills, holder, proof, changed, gone, live, filed, aged, owner>>
    BY <1>9 DEF UserResetTwofa, ghosts, registry
  <2>3. QED
    BY <1>0, <2>1, <2>2 DEF TypeInv, Handed, TypeOK, FactorFile, RegistryTypeOK, Opened
<1>10. ASSUME NEW s \in live, NEW n \in Names, SetPassword(t, s, n) PROVE TypeInv'
  <2>1. users[n] # Nobody
    BY <1>10 DEF SetPassword, MayReset, MayChange, Exists, Current
  <2>2. holder[n] \in Ids /\ s \in Sids /\ CanChoose /\ lastPw' = lastPw + 1
    BY <1>0, <1>10, <2>1 DEF Handed, SetPassword, RegistryTypeOK
  <2>3. Chosen(holder[n]) \in Proof /\ lastPw' \in 0..MaxPasswords
    BY <1>0, <2>2, ChosenType
  <2>4. PICK w \in PasswordsWith(n, Chosen(holder[n])) :
          /\ passwords' = w.data
          /\ IF w.ok THEN Begin(t, "disconnect", n, Nobody, s, Chosen(holder[n])) ELSE UNCHANGED job
    BY <1>10 DEF SetPassword
  <2>5. passwords' \in PasswordFile
    BY <1>0, <2>3, <2>4, FilesType
  <2>6. /\ UNCHANGED <<boot, yaml, users, usersFile, factors, tokens, pending,
                      kills, holder, proof, changed, gone, live, filed, aged, owner>>
    BY <1>10 DEF SetPassword, ghosts, registry
  <2>7. \A m \in Names : users'[m] # Nobody \/ usersFile'[m] # Nobody => holder[m] \in Ids
    BY <1>0, <2>6 DEF Handed
  <2>8. Handed' /\ job' \in [Threads -> Job \cup {Idle}]
    <3>1. CASE UNCHANGED job
      BY <1>0, <2>6, <2>7, <3>1 DEF Handed, TypeOK
    <3>2. CASE Begin(t, "disconnect", n, Nobody, s, Chosen(holder[n]))
      BY <1>0, <2>2, <2>3, <2>6, <2>7, <3>2, HandedBegin
    <3>3. QED
      BY <2>4, <3>1, <3>2
  <2>9. QED
    BY <1>0, <2>3, <2>5, <2>6, <2>8 DEF TypeInv, TypeOK, PasswordFile, RegistryTypeOK, Opened
<1>11. QED
  BY <1>2, <1>3, <1>5, <1>6, <1>7, <1>8, <1>9, <1>10 DEF Request

(* The requests of a single write.                                         *)
LEMMA AloneType ==
  ASSUME TypeInv, requests' \in 0..MaxRequests, NEW s \in live, Alone(s)
  PROVE  TypeInv'
<1>0. TypeOK /\ RegistryTypeOK /\ Handed
  BY DEF TypeInv, TypeOK
<1>1. ASSUME Closing, gone' \subseteq Sids \cup Tokens,
             UNCHANGED <<boot, yaml, users, files, pending, job, lastPw, kills, holder, proof, changed>>
      PROVE  TypeInv'
  <2>1. RegistryTypeOK' /\ Opened' = Opened
    BY <1>0, <1>1, ClosingType DEF Closing, Opened
  <2>2. UNCHANGED <<boot, yaml, users, usersFile, passwords, factors, tokens, pending, job,
                    lastPw, kills, holder, proof, changed>>
    BY <1>1 DEF files
  <2>3. Handed'
    BY <1>0, <2>2 DEF Handed
  <2>4. QED
    BY <1>0, <1>1, <2>1, <2>2, <2>3 DEF TypeInv, TypeOK
<1>2. ASSUME SessionAges(s) PROVE TypeInv'
  <2>1. Closing
    BY <1>0, <1>2, RevokeStep DEF SessionAges, Age, Purge, Closing, RegistryTypeOK
  <2>2. QED
    BY <1>0, <1>1, <1>2, <2>1 DEF SessionAges, ghosts, TypeOK
<1>3. ASSUME RevokeOtherSessions(s) PROVE TypeInv'
  <2>1. PICK ok \in BOOLEAN :
          /\ RevokeOthers(s, owner[s], ok)
          /\ gone' = IF ok THEN gone \cup (Of(live, owner[s]) \ {s}) ELSE gone
    BY <1>3 DEF RevokeOtherSessions
  <2>2. Closing
    BY <1>0, <2>1, RevokeOthersStep
  <2>3. gone' \subseteq Sids \cup Tokens
    BY <1>0, <2>1 DEF Of, TypeOK, RegistryTypeOK
  <2>4. QED
    BY <1>1, <1>3, <2>2, <2>3 DEF RevokeOtherSessions
<1>4. ASSUME NEW x \in live, NEW ok \in BOOLEAN, Revoke(x, ok),
             gone' = IF ok THEN gone \cup {x} ELSE gone,
             UNCHANGED <<boot, yaml, users, files, pending, job, lastPw, kills, holder, proof, changed>>
      PROVE  TypeInv'
  <2>1. Closing
    BY <1>0, <1>4, RevokeStep
  <2>2. gone' \subseteq Sids \cup Tokens
    BY <1>0, <1>4 DEF TypeOK, RegistryTypeOK
  <2>3. QED
    BY <1>1, <1>4, <2>1, <2>2
<1>5. ASSUME Logout(s) PROVE TypeInv'
  BY <1>4, <1>5 DEF Logout
<1>6. ASSUME NEW x \in live, RevokeSession(s, x) PROVE TypeInv'
  BY <1>4, <1>6 DEF RevokeSession
<1>7. ASSUME NEW w, w.data \in FactorFile, SetFactor(w) PROVE TypeInv'
  <2>1. /\ UNCHANGED <<boot, yaml, users, usersFile, passwords, tokens, pending, lastPw, job,
                      kills, holder, proof, changed, gone, live, filed, aged, owner>>
        /\ factors' \in FactorFile
    BY <1>7 DEF SetFactor, ghosts, registry
  <2>2. QED
    BY <1>0, <2>1 DEF TypeInv, Handed, TypeOK, FactorFile, RegistryTypeOK, Opened
<1>8. ASSUME SecurityStart(s) \/ SecurityEnable(s) \/ SecurityCancel(s) \/ SecurityDisable(s)
      PROVE  TypeInv'
  <2>1. owner[s] \in Names /\ proof[s].holder \in Ids
    BY <1>0, <1>8, CurrentType DEF SecurityStart, SecurityEnable, SecurityCancel, SecurityDisable
  <2>2. PICK w : w.data \in FactorFile /\ SetFactor(w)
    BY <1>0, <1>8, <2>1, FilesType
       DEF SecurityStart, SecurityEnable, SecurityCancel, SecurityDisable, FactorHalfSet
  <2>3. QED
    BY <1>7, <2>2
<1>9. ASSUME NEW k \in Tokens, TokenCreate(s, k) \/ TokenRevoke(s, k) PROVE TypeInv'
  <2>1. PICK w : w \in TokensWith(k) \cup TokensWithout(k) /\ tokens' = w.data
    BY <1>9 DEF TokenCreate, TokenRevoke
  <2>2. tokens' \subseteq Tokens
    BY <1>0, <2>1, WriteResult DEF TokensWith, TokensWithout, TypeOK
  <2>3. /\ UNCHANGED <<boot, yaml, users, usersFile, passwords, factors, pending, lastPw, job,
                      kills, holder, proof, changed, live, filed, aged, owner>>
        /\ gone' \subseteq gone \cup {k}
    BY <1>9 DEF TokenCreate, TokenRevoke, ghosts, registry
  <2>4. QED
    BY <1>0, <2>2, <2>3 DEF TypeInv, Handed, TypeOK, RegistryTypeOK, Opened
<1>10. QED
  BY <1>2, <1>3, <1>5, <1>6, <1>8, <1>9 DEF Alone

(* Starts and stops.                                                       *)
LEMMA BootType ==
  ASSUME TypeInv, requests' \in 0..MaxRequests,
         (\E n \in YamlUsers : ImportPassword(n)) \/ ImportUsers \/ Load \/ Kill
           \/ \E c \in pending : PendingExpires(c)
  PROVE  TypeInv'
<1>0. TypeOK /\ RegistryTypeOK /\ Handed
  BY DEF TypeInv, TypeOK
<1>1. ASSUME NEW n \in YamlUsers, ImportPassword(n) PROVE TypeInv'
  <2>1. n \in Names /\ lastPw + 1 \in Ids /\ lastPw + 1 \in 0..MaxPasswords
    BY <1>0, <1>1, AccountsAssumption, NextPassword DEF ImportPassword, CanChoose
  <2>2. [holder |-> lastPw + 1, pw |-> lastPw + 1] \in Password
    BY <2>1 DEF Password
  <2>3. passwords' \in PasswordFile /\ lastPw' \in 0..MaxPasswords
    BY <1>0, <1>1, <2>1, <2>2 DEF ImportPassword, TypeOK, PasswordFile
  <2>4. UNCHANGED <<boot, yaml, users, usersFile, factors, tokens, pending, job, kills,
                    holder, proof, changed, gone, live, filed, aged, owner>>
    BY <1>1 DEF ImportPassword, ghosts, registry
  <2>5. QED
    BY <1>0, <2>3, <2>4 DEF TypeInv, Handed, TypeOK, PasswordFile, RegistryTypeOK, Opened
<1>2. ASSUME ImportUsers PROVE TypeInv'
  <2>1. \A n \in Imported : n \in Names /\ passwords[n].holder \in Ids
    BY <1>0, <1>2, AccountsAssumption DEF ImportUsers, Imported, TypeOK, Password
  <2>2. PICK role \in [Imported -> Roles \cup {Nobody}] :
          usersFile' = [n \in Names |-> IF n \in Imported THEN role[n] ELSE usersFile[n]]
    BY <1>2 DEF ImportUsers
  <2>3. usersFile \in UserFile /\ holder \in [Names -> 0..MaxPasswords] /\ Ids \subseteq 0..MaxPasswords
    BY <1>0 DEF TypeOK, UserFile, Ids
  <2>4. /\ usersFile' = [n \in Names |-> IF n \in Imported THEN role[n] ELSE usersFile[n]]
        /\ holder' = [n \in Names |-> IF n \in Imported THEN passwords[n].holder ELSE holder[n]]
    BY <1>2, <2>2 DEF ImportUsers
  <2>5. usersFile' \in UserFile
    BY <2>2, <2>3, <2>4 DEF UserFile
  <2>6. holder' \in [Names -> 0..MaxPasswords]
    BY <2>1, <2>3, <2>4
  <2>7. /\ UNCHANGED <<users, passwords, factors, tokens, pending, job, lastPw, kills,
                      proof, changed, gone, live, filed, aged, owner>>
        /\ boot' = "load" /\ yaml' = FALSE
    BY <1>2 DEF ImportUsers, registry
  <2>8. yaml' \in BOOLEAN
    BY <2>7, Zenon
  <2>9. \A n \in Names : holder[n] \in Ids => holder'[n] \in Ids
    BY <2>1, <2>4
  <2>10. \A n \in Names : users'[n] # Nobody \/ usersFile'[n] # Nobody => holder'[n] \in Ids
    BY <1>0, <2>1, <2>4, <2>7, <2>9 DEF Handed
  <2>11. \A u \in Threads : job[u].pc \in {"memory", "role"} => job[u].user \in Names
    BY <1>0 DEF TypeOK, Job, Idle
  <2>12. Handed'
    BY <1>0, <2>7, <2>9, <2>10, <2>11 DEF Handed
  <2>13. QED
    BY <1>0, <2>5, <2>6, <2>7, <2>8, <2>12 DEF TypeInv, TypeOK, UserFile, RegistryTypeOK, Opened
<1>3. ASSUME Load PROVE TypeInv'
  <2>1. Closing
    BY <1>0, <1>3 DEF Load, LoadSessions, Closing, RegistryTypeOK
  <2>2. RegistryTypeOK' /\ Opened' = Opened
    BY <1>0, <2>1, ClosingType DEF Closing, Opened
  <2>3. /\ UNCHANGED <<yaml, usersFile, passwords, factors, tokens, pending, job, lastPw, kills,
                      holder, proof, changed, gone>>
        /\ boot' = "up" /\ users' = usersFile
    BY <1>3 DEF Load, files, ghosts
  <2>4. QED
    BY <1>0, <2>2, <2>3 DEF TypeInv, Handed, TypeOK
<1>4. ASSUME Kill PROVE TypeInv'
  <2>1. Closing
    BY <1>0, <1>4 DEF Kill, LoseMemory, Closing, RegistryTypeOK
  <2>2. RegistryTypeOK' /\ Opened' = Opened
    BY <1>0, <2>1, ClosingType DEF Closing, Opened
  <2>3. /\ UNCHANGED <<yaml, usersFile, passwords, factors, tokens, pending, lastPw,
                      holder, proof, changed, gone>>
        /\ boot' = "import" /\ users' = [n \in Names |-> Nobody] /\ job' = [t \in Threads |-> Idle]
    BY <1>4 DEF Kill, files, ghosts
  <2>4. kills' \in 0..MaxKills
    BY <1>0, <1>4, AccountsAssumption DEF Kill, TypeOK
  <2>5. Handed'
    BY <1>0, <2>3 DEF Handed, Idle, Proving
  <2>6. QED
    BY <1>0, <2>2, <2>3, <2>4, <2>5 DEF TypeInv, TypeOK
<1>5. ASSUME NEW c \in pending, PendingExpires(c) PROVE TypeInv'
  <2>1. /\ UNCHANGED <<boot, yaml, users, usersFile, passwords, factors, tokens, job, lastPw, kills,
                      holder, proof, changed, gone, live, filed, aged, owner>>
        /\ pending' \subseteq pending
    BY <1>5 DEF PendingExpires, files, ghosts, registry
  <2>2. QED
    BY <1>0, <2>1 DEF TypeInv, Handed, TypeOK, RegistryTypeOK, Opened
<1>6. QED
  BY <1>1, <1>2, <1>3, <1>4, <1>5

LEMMA TypeStep ==
  ASSUME TypeInv, [Next]_vars
  PROVE  TypeInv'
<1>1. CASE UNCHANGED vars
  BY <1>1 DEF vars, files, ghosts, registry, TypeInv, Handed, TypeOK, RegistryTypeOK, Opened
<1>2. CASE Next
  <2>1. requests' \in 0..MaxRequests
    BY <1>2, AccountsAssumption DEF Next, TypeInv, TypeOK
  <2>2. QED
    BY <1>2, <2>1, HandlerType, RequestType, AloneType, BootType DEF Next, Process
<1>3. QED
  BY <1>1, <1>2

LEMMA TypeInit ==
  ASSUME Init
  PROVE  TypeInv
<1>1. /\ Opened = {} /\ live = {} /\ filed = {} /\ aged = {}
      /\ owner = [s \in {} |-> CHOOSE n \in Names : TRUE]
  BY DEF Init, RegistryInit, Opened
<1>2. Cardinality({}) = 0 /\ 1..0 = {}
  BY FS_EmptySet
<1>3. RegistryTypeOK
  BY <1>1, <1>2 DEF RegistryTypeOK
<1>4. yaml \in BOOLEAN
  BY Zenon DEF Init
<1>5. 0 \in 0..MaxPasswords /\ 0 \in 0..MaxKills /\ 0 \in 0..MaxRequests
  BY AccountsAssumption
<1>6. proof \in [Opened -> Proof]
  BY <1>1 DEF Init
<1>7. TypeOK
  BY <1>3, <1>4, <1>5, <1>6 DEF Init, TypeOK
<1>8. Handed
  BY DEF Init, Handed, Idle, Proving
<1>9. QED
  BY <1>7, <1>8 DEF TypeInv

(* The types of accounts, sessions and requests in progress, whatever the  *)
(* number of requests served at a time.                                    *)
THEOREM AccountsTyped == Spec => []TypeOK
<1>1. TypeInv => TypeOK
  BY DEF TypeInv
<1>2. QED
  BY <1>1, TypeInit, TypeStep, PTL DEF Spec

-----------------------------------------------------------------------------
(* One request at a time.                                                  *)
Th == CHOOSE t \in Threads : TRUE
J == job[Th]

(* The sessions a restart would not lose.                                  *)
Surviving == live \cup (filed \ aged)

(* Memory and the files, whatever step the request has reached.            *)
Loaded ==
  /\ live \subseteq filed /\ (yaml => boot = "import")
  /\ boot = "up" => filed \ aged \subseteq live
  /\ boot # "up" => live = {} /\ J = Idle /\ users = [n \in Names |-> Nobody]

InStep ==
  /\ boot = "up" =>
       usersFile = IF J.pc \in {"memory", "role", "drop"} THEN [users EXCEPT ![J.user] = J.role]
                   ELSE users
  /\ J.pc = "drop" => J.role = Nobody

(* There is an account as soon as there is a session or a cookie, and      *)
(* nothing is written over an account that is in use.                      *)
Adding == {"totp", "revoke", "credentials", "users"}
HasAccount == \E n \in Names : usersFile[n] # Nobody

Populated ==
  /\ Opened # {} \/ pending # {} \/ J.pc \in {"memory", "register"} => HasAccount
  /\ J.pc \in Adding => users[J.user] = Nobody /\ J.role # Nobody

(* What an account in use has is its holder's; what an account that is     *)
(* being created has is the one it is created for's.                       *)
InUse(n) == users[n] # Nobody \/ usersFile[n] # Nobody

Inherited(n) ==
  /\ passwords[n] # None => passwords[n].holder = holder[n]
  /\ factors[n] # None => factors[n].holder = holder[n]
  /\ \A s \in Surviving : owner[s] = n => proof[s].holder = holder[n]

Clean ==
  /\ yaml => Opened = {}
  /\ Opened = {} => \A n \in Names : factors[n] = None
  /\ \A n \in Names : InUse(n) => Inherited(n)
  /\ J.pc \in {"revoke", "credentials", "users", "memory"} => factors[J.user] = None
  /\ J.pc \in {"credentials", "users", "memory"} => \A s \in Surviving : owner[s] # J.user
  /\ J.pc \in {"users", "memory"} =>
       passwords[J.user] = [holder |-> J.proof.holder, pw |-> J.proof.pw]
  /\ J.pc = "memory" => J.proof.holder = holder[J.user]
  /\ J.pc = "register" /\ InUse(J.user) => J.proof.holder = holder[J.user]

(* No password is older than the last one answered as chosen.              *)
Renewed ==
  /\ Surviving \cap gone = {} /\ tokens \cap gone = {} /\ gone \subseteq Opened \cup Tokens
  /\ \A s \in Surviving : proof[s].second \/ proof[s].pw >= changed[owner[s]]
  /\ \A n \in Names : changed[n] <= lastPw
                      /\ (passwords[n] # None => passwords[n].pw >= changed[n])
  /\ J.pc \in Proving \ {"register"} =>
       J.proof.pw <= lastPw /\ J.proof.pw >= changed[J.user]
  /\ J.pc = "disconnect" => passwords[J.user] # None /\ passwords[J.user].pw = J.proof.pw
  /\ J.pc = "register" => J.proof.second \/ J.proof.pw >= changed[J.user]

(* One request at a time; the file of sessions can be written, and that of *)
(* the accounts is not replaced by a write answered as failed.             *)
Served == (\E t : Threads = {t}) /\ SessionsKept /\ "users" \notin FailsAfter

LEMMA OneThread ==
  ASSUME Served
  PROVE  Threads = {Th} /\ SessionsKept /\ "users" \notin FailsAfter
BY DEF Served, Th

(* The requests of a single write: they close sessions, and the second     *)
(* factor they set up is that of whoever holds the session.                *)
Shrinks ==
  /\ UNCHANGED owner /\ Surviving' \subseteq Surviving /\ live' \subseteq filed'
  /\ boot = "up" => filed' \ aged' \subseteq live'

SameFactor(n) ==
  \/ factors'[n] = None
  \/ factors[n] # None /\ factors'[n].holder = factors[n].holder
  \/ users[n] # Nobody /\ \E x \in live : owner[x] = n /\ factors'[n].holder = proof[x].holder

LEMMA RevokeShrinks ==
  ASSUME Served, TypeInv, Loaded, boot = "up", NEW x \in live, NEW ok \in BOOLEAN, Revoke(x, ok)
  PROVE  Shrinks /\ ok /\ x \notin Surviving'
BY OneThread, RevokeStep DEF TypeInv, TypeOK, Loaded, Shrinks, Surviving, Closing

LEMMA RevokeOthersShrinks ==
  ASSUME Served, TypeInv, Loaded, boot = "up", NEW keep, NEW n, NEW ok \in BOOLEAN,
         RevokeOthers(keep, n, ok)
  PROVE  /\ Shrinks /\ ok /\ UNCHANGED aged
         /\ \A x \in Surviving' : owner[x] = n => x = keep
         /\ (Of(live, n) \ {keep}) \cap Surviving' = {}
<1>1. /\ Closing /\ UNCHANGED aged /\ ok
      /\ live' = live \ (Of(live, n) \ {keep})
      /\ filed' = live' \/ UNCHANGED <<live, filed>>
  BY OneThread, RevokeOthersStep DEF TypeInv, TypeOK
<1>2. live \subseteq filed /\ filed \ aged \subseteq live
  BY DEF Loaded
<1>3. Surviving = live
  BY <1>2 DEF Surviving
<1>4. Surviving' = live' /\ live' \subseteq live /\ live' \subseteq filed' /\ filed' \ aged' \subseteq live'
  BY <1>1, <1>2 DEF Surviving
<1>5. QED
  BY <1>1, <1>3, <1>4 DEF Shrinks, Closing, Of

LEMMA AloneEffect ==
  ASSUME Served, TypeInv, Loaded, NEW s \in live, Alone(s)
  PROVE  /\ UNCHANGED <<boot, yaml, users, usersFile, passwords, pending, job, lastPw, holder,
                        proof, changed>>
         /\ boot = "up" /\ Shrinks
         /\ \A n \in Names : factors'[n] = factors[n] \/ SameFactor(n)
         /\ Surviving' \cap (gone' \ gone) = {} /\ gone' \subseteq gone \cup Opened \cup Tokens
         /\ tokens \cap gone = {} => tokens' \cap gone' = {}
<1> DEFINE Same == UNCHANGED <<boot, yaml, users, usersFile, passwords, pending, job, lastPw, holder,
                               proof, changed>>
           Goal == /\ Same /\ boot = "up" /\ Shrinks
                   /\ \A n \in Names : factors'[n] = factors[n] \/ SameFactor(n)
                   /\ Surviving' \cap (gone' \ gone) = {} /\ gone' \subseteq gone \cup Opened \cup Tokens
                   /\ tokens \cap gone = {} => tokens' \cap gone' = {}
<1>0. TypeOK /\ RegistryTypeOK /\ live \subseteq Opened /\ Opened \cap Tokens = {} /\ tokens \subseteq Tokens
  BY AccountsAssumption DEF TypeInv, TypeOK, RegistryTypeOK
<1>1. ASSUME NEW x \in live, NEW ok \in BOOLEAN, Revoke(x, ok), boot = "up",
             gone' \in {gone, gone \cup {x}},
             UNCHANGED <<boot, yaml, users, files, pending, job, lastPw, kills, holder, proof, changed>>
      PROVE  Goal
  <2>1. Shrinks /\ x \notin Surviving'
    BY <1>1, RevokeShrinks
  <2>2. Same /\ UNCHANGED <<factors, tokens>>
    BY <1>1 DEF files
  <2>3. Surviving' \cap (gone' \ gone) = {} /\ gone' \subseteq gone \cup Opened
    BY <1>0, <1>1, <2>1
  <2>4. tokens \cap gone = {} => tokens' \cap gone' = {}
    BY <1>0, <1>1, <2>2
  <2>5. QED
    BY <1>1, <2>1, <2>2, <2>3, <2>4
<1>2. ASSUME Logout(s) PROVE Goal
  BY <1>1, <1>2 DEF Logout
<1>3. ASSUME NEW x \in live, RevokeSession(s, x) PROVE Goal
  <2>1. boot = "up"
    BY <1>3 DEF RevokeSession, Current
  <2>2. QED
    BY <1>1, <1>3, <2>1 DEF RevokeSession
<1>4. ASSUME SessionAges(s) PROVE Goal
  <2>1. CASE Purge(s)
    <3>1. UNCHANGED <<boot, yaml, users, files, pending, job, lastPw, kills, holder, proof, changed, gone>>
          /\ boot = "up"
      BY <1>4 DEF SessionAges, ghosts
    <3>2. QED
      BY <1>1, <2>1, <3>1 DEF Purge
  <2>2. CASE Age(s)
    <3>1. UNCHANGED <<boot, yaml, users, usersFile, passwords, factors, tokens, pending, job, lastPw,
                      kills, holder, proof, changed, gone>> /\ boot = "up"
      BY <1>4 DEF SessionAges, ghosts, files
    <3>2. aged' = aged \cup {s} /\ UNCHANGED <<live, filed, owner>>
      BY <2>2 DEF Age
    <3>3. Shrinks
      BY <3>1, <3>2 DEF Shrinks, Surviving, Loaded
    <3>4. QED
      BY <3>1, <3>3
  <2>3. QED
    BY <1>4, <2>1, <2>2 DEF SessionAges
<1>5. ASSUME RevokeOtherSessions(s) PROVE Goal
  <2>1. PICK ok \in BOOLEAN :
          /\ RevokeOthers(s, owner[s], ok)
          /\ gone' = IF ok THEN gone \cup (Of(live, owner[s]) \ {s}) ELSE gone
    BY <1>5 DEF RevokeOtherSessions
  <2>2. UNCHANGED <<boot, yaml, users, usersFile, passwords, factors, tokens, pending, job, lastPw,
                    kills, holder, proof, changed>> /\ boot = "up"
    BY <1>5 DEF RevokeOtherSessions, Current, files
  <2>3. Shrinks /\ ok /\ (Of(live, owner[s]) \ {s}) \cap Surviving' = {}
    BY <2>1, <2>2, RevokeOthersShrinks
  <2>4. Of(live, owner[s]) \subseteq Opened
    BY <1>0 DEF Of
  <2>5. QED
    BY <1>0, <2>1, <2>2, <2>3, <2>4
<1>6. ASSUME boot = "up", UNCHANGED registry, Same PROVE Shrinks
  BY <1>6 DEF registry, Shrinks, Loaded, Surviving
<1>7. ASSUME SecurityStart(s) \/ SecurityEnable(s) \/ SecurityCancel(s) \/ SecurityDisable(s)
      PROVE  Goal
  <2> DEFINE m == owner[s]
  <2>1. boot = "up" /\ m \in Names /\ users[m] # Nobody /\ factors \in FactorFile
    BY <1>0, <1>7, CurrentType
       DEF SecurityStart, SecurityEnable, SecurityCancel, SecurityDisable, TypeOK, FactorFile
  <2>2. PICK w : /\ SetFactor(w)
                 /\ \/ w \in FactorPending(m, proof[s].holder)
                    \/ factors[m] # None /\ w \in FactorConfirmed(m)
                    \/ w \in FactorsWithout(m)
    BY <1>7 DEF SecurityStart, SecurityEnable, SecurityCancel, SecurityDisable, FactorHalfSet
  <2>3. Same /\ UNCHANGED <<tokens, gone>> /\ UNCHANGED registry /\ factors' = w.data
    BY <2>2 DEF SetFactor, ghosts
  <2>4. \/ w.data = factors
        \/ w.data = [factors EXCEPT ![m] = [holder |-> proof[s].holder, on |-> FALSE]]
        \/ factors[m] # None /\ w.data = [factors EXCEPT ![m].on = TRUE]
        \/ w.data = [factors EXCEPT ![m] = None]
    <3>1. CASE w \in FactorPending(m, proof[s].holder)
      BY <3>1, WriteResult DEF FactorPending
    <3>2. CASE factors[m] # None /\ w \in FactorConfirmed(m)
      BY <3>2, WriteResult DEF FactorConfirmed
    <3>3. CASE w \in FactorsWithout(m)
      <4>1. CASE w \in NotWritten(factors)
        BY <4>1, NotWrittenResult
      <4>2. CASE w \in Writes("totp", factors, [factors EXCEPT ![m] = None])
        BY <4>2, WriteResult
      <4>3. QED
        BY <3>3, <4>1, <4>2 DEF FactorsWithout
    <3>4. QED
      BY <2>2, <3>1, <3>2, <3>3
  <2>5. \A n \in Names : factors'[n] = factors[n] \/ SameFactor(n)
    <3>1. CASE w.data = factors
      BY <2>3, <3>1
    <3>2. CASE w.data = [factors EXCEPT ![m] = [holder |-> proof[s].holder, on |-> FALSE]]
      BY <2>1, <2>3, <3>2 DEF SameFactor, FactorFile
    <3>3. CASE factors[m] # None /\ w.data = [factors EXCEPT ![m].on = TRUE]
      <4>1. factors[m] \in Factor
        BY <2>1, <3>3 DEF FactorFile
      <4>2. factors'[m].holder = factors[m].holder
        BY <2>1, <2>3, <3>3, <4>1 DEF FactorFile, Factor
      <4>3. \A n \in Names \ {m} : factors'[n] = factors[n]
        BY <2>1, <2>3, <3>3 DEF FactorFile
      <4>4. QED
        BY <3>3, <4>2, <4>3 DEF SameFactor
    <3>4. CASE w.data = [factors EXCEPT ![m] = None]
      <4>1. factors'[m] = None /\ \A n \in Names \ {m} : factors'[n] = factors[n]
        BY <2>1, <2>3, <3>4 DEF FactorFile
      <4>2. QED
        BY <4>1 DEF SameFactor
    <3>5. QED
      BY <2>4, <3>1, <3>2, <3>3, <3>4
  <2>6. QED
    BY <1>6, <2>1, <2>3, <2>5
<1>8. ASSUME NEW k \in Tokens, TokenCreate(s, k) PROVE Goal
  <2>1. Same /\ UNCHANGED <<factors, gone>> /\ UNCHANGED registry /\ k \notin gone /\ boot = "up"
    BY <1>8 DEF TokenCreate, Manager, Current, ghosts
  <2>2. tokens' \subseteq tokens \cup {k}
    BY <1>8, WriteResult DEF TokenCreate, TokensWith
  <2>3. QED
    BY <1>6, <2>1, <2>2
<1>9. ASSUME NEW k \in Tokens, TokenRevoke(s, k) PROVE Goal
  <2>1. Same /\ UNCHANGED factors /\ UNCHANGED registry /\ boot = "up"
    BY <1>9 DEF TokenRevoke, Manager, Current
  <2>2. PICK w \in TokensWithout(k) :
          tokens' = w.data /\ gone' = IF w.ok THEN gone \cup {k} ELSE gone
    BY <1>9 DEF TokenRevoke
  <2>3. w.data \in {tokens, tokens \ {k}} /\ (w.ok => w.data = tokens \ {k})
    BY <2>2, WriteResult DEF TokensWithout
  <2>4. Surviving' \cap (gone' \ gone) = {}
    <3>1. Surviving' \subseteq Opened
      BY <1>0, <2>1 DEF registry, Surviving, RegistryTypeOK
    <3>2. QED
      BY <1>0, <2>2, <3>1
  <2>5. QED
    BY <1>6, <2>1, <2>2, <2>3, <2>4
<1>10. QED
  BY <1>2, <1>3, <1>4, <1>5, <1>7, <1>8, <1>9 DEF Alone

(* What the thread does next.                                              *)
Pcs == {"revoke", "drop_sessions", "credentials", "users", "memory", "undo", "register", "drop_totp"}

LEMMA OneJob ==
  ASSUME Served, TypeInv
  PROVE  /\ Th \in Threads /\ J \in Job \cup {Idle}
         /\ J # Idle => /\ J.user \in Names /\ J.role \in Roles \cup {Nobody} /\ J.pc # "idle"
                        /\ J.by \in {NoSid} \cup Sids
         /\ J.pc \in Proving => J.proof \in Proof
         /\ Done(Th) => J' = Idle
         /\ \A pc \in Pcs : Goto(Th, pc) /\ J # Idle =>
              /\ J'.pc = pc /\ J'.user = J.user /\ J'.role = J.role /\ J'.by = J.by
              /\ J'.proof = J.proof
<1>1. Th \in Threads /\ TypeOK
  BY OneThread DEF TypeInv
<1>2. J \in Job \cup {Idle}
  BY <1>1 DEF TypeOK, J
<1>3. J # Idle => /\ J.user \in Names /\ J.role \in Roles \cup {Nobody} /\ J.pc # "idle"
                  /\ J.by \in {NoSid} \cup Sids
  BY <1>2 DEF Job
<1>4. J.pc \in Proving => J.proof \in Proof
  BY <1>1 DEF TypeInv, Handed, J
<1>5. Done(Th) => J' = Idle
  BY <1>1, JobSteps DEF J
<1>6. ASSUME NEW pc \in Pcs, Goto(Th, pc), J # Idle
      PROVE  /\ J'.pc = pc /\ J'.user = J.user /\ J'.role = J.role /\ J'.by = J.by
             /\ J'.proof = J.proof
  BY <1>1, <1>6, JobSteps DEF J, Pcs
<1>7. QED
  BY <1>1, <1>2, <1>3, <1>4, <1>5, <1>6

LEMMA OneBegin ==
  ASSUME Served, TypeInv, NEW pc, NEW n, NEW r, NEW s, NEW p, Begin(Th, pc, n, r, s, p)
  PROVE  /\ J'.pc = pc /\ J'.user = n /\ J'.role = r /\ J'.by = s /\ J'.proof = p
<1>1. Th \in Threads /\ job \in [Threads -> Job \cup {Idle}]
  BY OneThread DEF TypeInv, TypeOK
<1>2. J' = [pc |-> pc, user |-> n, role |-> r, by |-> s, proof |-> p]
  BY <1>1 DEF Begin, J
<1>3. QED
  BY <1>2

(* The steps, of one thread.                                               *)
Steps ==
  \/ Handler(Th) \/ Request(Th) \/ (\E s \in live : Alone(s))
  \/ (\E n \in YamlUsers : ImportPassword(n)) \/ ImportUsers \/ Load \/ Kill
  \/ (\E c \in pending : PendingExpires(c))
  \/ UNCHANGED vars

LEMMA OneStep ==
  ASSUME Served, [Next]_vars
  PROVE  Steps
BY OneThread DEF Next, Process, Steps

(* Memory and the files stay in step.                                      *)
LEMMA HandlerUp ==
  ASSUME Served, TypeInv, Loaded, Handler(Th)
  PROVE  boot = "up" /\ J # Idle /\ UNCHANGED <<boot, yaml>>
<1>1. J # Idle
  BY DEF J, Idle, Handler, ForgetFactor, ForgetSessions, SetCredentials, StoreAccount,
     UndoCredentials, Publish, RoleInMemory, DropAccount, Disconnect, CompleteLogin
<1>2. UNCHANGED <<boot, yaml>>
  BY DEF Handler, ForgetFactor, ForgetSessions, SetCredentials, StoreAccount,
     UndoCredentials, Publish, RoleInMemory, DropAccount, Disconnect, CompleteLogin
<1>3. QED
  BY <1>1, <1>2 DEF Loaded

LEMMA RequestUp ==
  ASSUME Request(Th)
  PROVE  boot = "up" /\ J = Idle /\ UNCHANGED <<boot, yaml, users, registry, holder, proof, changed, gone, tokens>>
BY DEF J, Request, SetupCreate, Login, UserDelete, UserResetTwofa, SetPassword, UserAdd,
   UserRole, LoginVerify, Free, ghosts, files

LEMMA LoadedStep ==
  ASSUME Served, TypeInv, Loaded, Steps
  PROVE  Loaded'
<1>0. TypeOK /\ RegistryTypeOK /\ SessionsKept
  BY OneThread DEF TypeInv, TypeOK
<1>1. CASE Handler(Th)
  <2>1. boot = "up" /\ J # Idle /\ UNCHANGED <<boot, yaml>>
    BY <1>1, HandlerUp
  <2>2. live' \subseteq filed' /\ filed' \ aged' \subseteq live'
    <3>1. CASE ForgetSessions(Th)
      BY <2>1, <3>1, RevokeOthersShrinks DEF ForgetSessions, Shrinks
    <3>2. CASE Disconnect(Th)
      BY <2>1, <3>2, RevokeOthersShrinks DEF Disconnect, Shrinks
    <3>3. CASE CompleteLogin(Th)
      <4>1. PICK ok \in BOOLEAN : Register(J.user, ok)
        BY <3>3 DEF CompleteLogin, J
      <4>2. filed' = live'
        BY <1>0, <2>1, <4>1, RegisterStep, OneJob
      <4>3. QED
        BY <4>2
    <3>4. CASE UNCHANGED registry
      BY <2>1, <3>4 DEF registry, Loaded
    <3>5. QED
      BY <1>1, <3>1, <3>2, <3>3, <3>4 DEF Handler, ForgetFactor, SetCredentials, StoreAccount,
         UndoCredentials, Publish, RoleInMemory, DropAccount
  <2>3. QED
    BY <2>1, <2>2 DEF Loaded
<1>2. CASE Request(Th)
  BY <1>2, RequestUp DEF Loaded, registry
<1>3. CASE \E s \in live : Alone(s)
  <2>1. boot = "up" /\ UNCHANGED <<boot, yaml>> /\ Shrinks
    BY <1>3, AloneEffect
  <2>2. QED
    BY <2>1 DEF Shrinks, Loaded
<1>4. CASE \E n \in YamlUsers : ImportPassword(n)
  BY <1>4 DEF ImportPassword, registry, Loaded, J
<1>5. CASE ImportUsers
  BY <1>5 DEF ImportUsers, registry, Loaded, J
<1>6. CASE Load
  <2>1. boot' = "up" /\ live' = filed \ aged /\ UNCHANGED <<filed, aged, yaml>> /\ boot = "load"
    BY <1>6 DEF Load, LoadSessions
  <2>2. QED
    BY <2>1 DEF Loaded
<1>7. CASE Kill
  <2>1. /\ boot' = "import" /\ live' = {} /\ users' = [n \in Names |-> Nobody]
        /\ job' = [t \in Threads |-> Idle]
    BY <1>7 DEF Kill, LoseMemory
  <2>2. J' = Idle
    BY <2>1, OneThread DEF J
  <2>3. QED
    BY <2>1, <2>2 DEF Loaded
<1>8. CASE (\E c \in pending : PendingExpires(c)) \/ UNCHANGED vars
  BY <1>8 DEF PendingExpires, vars, registry, Loaded, J
<1>9. QED
  BY <1>1, <1>2, <1>3, <1>4, <1>5, <1>6, <1>7, <1>8 DEF Steps

Writing == {"memory", "role", "drop"}

(* A role that is written, or that is not.                                 *)
LEMMA UsersWritten ==
  ASSUME Served, TypeInv, NEW n \in Names, NEW r \in Roles \cup {Nobody},
         NEW w \in Writes("users", usersFile, [usersFile EXCEPT ![n] = r])
  PROVE  IF w.ok THEN w.data = [usersFile EXCEPT ![n] = r] ELSE w.data = usersFile
BY WriteResult, OneThread

LEMMA InStepStep ==
  ASSUME Served, TypeInv, Loaded, InStep, Steps
  PROVE  InStep'
<1>0. TypeOK /\ users \in UserFile /\ usersFile \in UserFile
  BY DEF TypeInv, TypeOK, UserFile
<1>1. CASE Handler(Th)
  <2>0. boot = "up" /\ J # Idle /\ J.user \in Names /\ J.role \in Roles \cup {Nobody}
    BY <1>1, HandlerUp, OneJob
  <2>1. J.pc \notin Writing => usersFile = users
    BY <2>0 DEF InStep, Writing
  <2>2. J.pc \in Writing => usersFile = [users EXCEPT ![J.user] = J.role]
    BY <2>0 DEF InStep, Writing
  <2>3. ASSUME UNCHANGED <<users, usersFile>>, J.pc \notin Writing, J'.pc \notin Writing
        PROVE  InStep'
    BY <2>1, <2>3 DEF InStep, Writing
  <2>4. CASE StoreAccount(Th)
    <3>1. J.pc = "users" /\ UNCHANGED users
      BY <2>4 DEF StoreAccount, J
    <3>2. PICK w \in UsersWith(J.user, J.role) :
            usersFile' = w.data /\ Goto(Th, IF w.ok THEN "memory" ELSE "undo")
      BY <2>4 DEF StoreAccount, J
    <3>3. IF w.ok THEN w.data = [usersFile EXCEPT ![J.user] = J.role] ELSE w.data = usersFile
      BY <2>0, <3>2, UsersWritten DEF UsersWith
    <3>4. usersFile = users
      BY <2>1, <3>1 DEF Writing
    <3>5. CASE w.ok
      <4>1. J'.pc = "memory" /\ J'.user = J.user /\ J'.role = J.role
        BY <2>0, <3>2, <3>5, OneJob DEF Pcs
      <4>2. QED
        BY <3>1, <3>2, <3>3, <3>4, <3>5, <4>1 DEF InStep
    <3>6. CASE ~w.ok
      <4>1. J'.pc = "undo"
        BY <2>0, <3>2, <3>6, OneJob DEF Pcs
      <4>2. QED
        BY <3>1, <3>2, <3>3, <3>4, <3>6, <4>1 DEF InStep
    <3>7. QED
      BY <3>5, <3>6
  <2>5. CASE Publish(Th)
    <3>1. J.pc = "memory" /\ users' = [users EXCEPT ![J.user] = J.role] /\ UNCHANGED usersFile
          /\ (Goto(Th, "register") \/ Done(Th))
      BY <2>5 DEF Publish, J, files
    <3>2. J'.pc \notin Writing
      BY <2>0, <3>1, OneJob DEF Pcs, Writing, Idle
    <3>3. QED
      BY <2>2, <3>1, <3>2 DEF InStep, Writing
  <2>6. CASE RoleInMemory(Th)
    <3>1. J.pc = "role" /\ users' = [users EXCEPT ![J.user] = J.role] /\ UNCHANGED usersFile
          /\ Done(Th)
      BY <2>6 DEF RoleInMemory, J, files
    <3>2. J'.pc \notin Writing
      BY <2>0, <3>1, OneJob DEF Writing, Idle
    <3>3. QED
      BY <2>2, <3>1, <3>2 DEF InStep, Writing
  <2>7. CASE DropAccount(Th)
    <3>1. J.pc = "drop" /\ users' = [users EXCEPT ![J.user] = Nobody] /\ UNCHANGED usersFile
          /\ Goto(Th, "drop_totp")
      BY <2>7 DEF DropAccount, J
    <3>2. J'.pc \notin Writing
      BY <2>0, <3>1, OneJob DEF Pcs, Writing
    <3>3. J.role = Nobody
      BY <3>1 DEF InStep
    <3>4. QED
      BY <2>2, <3>1, <3>2, <3>3 DEF InStep, Writing
  <2>8. CASE ForgetFactor(Th)
    <3>1. J.pc \notin Writing /\ UNCHANGED <<users, usersFile>>
          /\ (Goto(Th, "revoke") \/ Goto(Th, "drop_sessions") \/ Done(Th))
      BY <2>8 DEF ForgetFactor, J, Writing
    <3>2. QED
      BY <2>0, <2>3, <3>1, OneJob DEF Pcs, Writing, Idle
  <2>9. CASE ForgetSessions(Th)
    <3>1. J.pc \notin Writing /\ UNCHANGED <<users, usersFile>>
          /\ (Goto(Th, "credentials") \/ Done(Th))
      BY <2>9 DEF ForgetSessions, J, Writing, files
    <3>2. QED
      BY <2>0, <2>3, <3>1, OneJob DEF Pcs, Writing, Idle
  <2>10. CASE SetCredentials(Th)
    <3>1. J.pc \notin Writing /\ UNCHANGED <<users, usersFile>>
          /\ (Goto(Th, "users") \/ Done(Th))
      BY <2>10 DEF SetCredentials, J, Writing
    <3>2. QED
      BY <2>0, <2>3, <3>1, OneJob DEF Pcs, Writing, Idle
  <2>11. CASE UndoCredentials(Th) \/ Disconnect(Th) \/ CompleteLogin(Th)
    <3>1. J.pc \notin Writing /\ UNCHANGED <<users, usersFile>> /\ Done(Th)
      BY <2>11 DEF UndoCredentials, Disconnect, CompleteLogin, J, Writing, files
    <3>2. QED
      BY <2>0, <2>3, <3>1, OneJob DEF Writing, Idle
  <2>12. QED
    BY <1>1, <2>4, <2>5, <2>6, <2>7, <2>8, <2>9, <2>10, <2>11 DEF Handler
<1>2. CASE Request(Th)
  <2>0. boot = "up" /\ J = Idle /\ UNCHANGED <<boot, users>> /\ usersFile = users
    BY <1>2, RequestUp DEF InStep, Idle
  <2>1. ASSUME UNCHANGED usersFile, J'.pc \notin Writing PROVE InStep'
    BY <2>0, <2>1 DEF InStep, Writing
  <2>2. ASSUME NEW n \in Names, NEW r \in Roles \cup {Nobody}, NEW s, NEW pc \in Writing,
               NEW w \in Writes("users", usersFile, [usersFile EXCEPT ![n] = r]),
               usersFile' = w.data, IF w.ok THEN Begin(Th, pc, n, r, s, None) ELSE UNCHANGED job,
               pc = "drop" => r = Nobody
        PROVE  InStep'
    <3>1. IF w.ok THEN w.data = [usersFile EXCEPT ![n] = r] ELSE w.data = usersFile
      BY <2>2, UsersWritten
    <3>2. CASE w.ok
      <4>1. J'.pc = pc /\ J'.user = n /\ J'.role = r
        BY <2>2, <3>2, OneBegin
      <4>2. QED
        BY <2>0, <2>2, <3>1, <3>2, <4>1 DEF InStep, Writing
    <3>3. CASE ~w.ok
      <4>1. J' = J
        BY <2>2, <3>3 DEF J
      <4>2. QED
        BY <2>0, <2>1, <2>2, <3>1, <3>3, <4>1 DEF Idle, Writing
    <3>4. QED
      BY <3>2, <3>3
  <2>3. ASSUME NEW s \in live, NEW n \in Names, NEW r \in Roles, UserRole(Th, s, n, r) PROVE InStep'
    BY <2>2, <2>3 DEF UserRole, UsersWith, Writing
  <2>4. ASSUME NEW s \in live, NEW n \in Names, UserDelete(Th, s, n) PROVE InStep'
    BY <2>2, <2>4 DEF UserDelete, UsersWithout, Writing
  <2>5. ASSUME NEW pc \in {"credentials", "totp", "register", "disconnect"}, NEW n, NEW r, NEW s, NEW p,
               Begin(Th, pc, n, r, s, p), UNCHANGED usersFile
        PROVE  InStep'
    <3>1. J'.pc = pc
      BY <2>5, OneBegin
    <3>2. QED
      BY <2>1, <2>5, <3>1 DEF Writing
  <2>6. ASSUME UNCHANGED <<usersFile, job>> PROVE InStep'
    <3>1. J' = J
      BY <2>6 DEF J
    <3>2. QED
      BY <2>0, <2>1, <2>6, <3>1 DEF Writing, Idle
  <2>7. ASSUME NEW n \in Names, SetupCreate(Th, n) PROVE InStep'
    BY <2>5, <2>7 DEF SetupCreate, files
  <2>8. ASSUME NEW n \in Names, Login(Th, n) PROVE InStep'
    <3>1. CASE FactorOn(n)
      BY <2>6, <2>8, <3>1 DEF Login, files
    <3>2. CASE ~FactorOn(n)
      BY <2>5, <2>8, <3>2 DEF Login, files
    <3>3. QED
      BY <3>1, <3>2
  <2>9. ASSUME NEW s \in live, NEW n \in Names, UserResetTwofa(Th, s, n) PROVE InStep'
    BY <2>6, <2>9 DEF UserResetTwofa
  <2>10. ASSUME NEW s \in live, NEW n \in Names, SetPassword(Th, s, n) PROVE InStep'
    <3>1. UNCHANGED job \/ Begin(Th, "disconnect", n, Nobody, s, Chosen(holder[n]))
      BY <2>10 DEF SetPassword
    <3>2. UNCHANGED usersFile
      BY <2>10 DEF SetPassword
    <3>3. QED
      BY <2>5, <2>6, <3>1, <3>2
  <2>11. ASSUME NEW s \in live, NEW n \in Names, NEW r \in Roles, UserAdd(Th, s, n, r) PROVE InStep'
    BY <2>5, <2>11 DEF UserAdd, files
  <2>12. ASSUME NEW c \in pending, LoginVerify(Th, c) PROVE InStep'
    BY <2>5, <2>12 DEF LoginVerify, files
  <2>13. QED
    BY <1>2, <2>3, <2>4, <2>7, <2>8, <2>9, <2>10, <2>11, <2>12 DEF Request
<1>3. CASE \E s \in live : Alone(s)
  BY <1>3, AloneEffect DEF InStep, J
<1>4. CASE (\E n \in YamlUsers : ImportPassword(n)) \/ ImportUsers \/ Kill
  <2>1. boot' # "up"
    BY <1>4 DEF ImportPassword, ImportUsers, Kill
  <2>2. J' = Idle
    BY <1>4, OneThread DEF ImportPassword, ImportUsers, Kill, J, Loaded
  <2>3. QED
    BY <2>1, <2>2 DEF InStep, Idle
<1>5. CASE Load
  <2>1. users' = usersFile /\ UNCHANGED <<usersFile, job>> /\ J = Idle
    BY <1>5 DEF Load, files, Loaded
  <2>2. J' = Idle
    BY <2>1 DEF J
  <2>3. QED
    BY <2>1, <2>2 DEF InStep, Idle
<1>6. CASE (\E c \in pending : PendingExpires(c)) \/ UNCHANGED vars
  BY <1>6 DEF PendingExpires, vars, files, InStep, J
<1>7. QED
  BY <1>1, <1>2, <1>3, <1>4, <1>5, <1>6 DEF Steps

(* An account remains.                                                     *)
LEMMA NobodyApart == OwnerRole \in Roles /\ Nobody \notin Roles
BY AccountsAssumption DEF Nobody

LEMMA PopulatedKept ==
  ASSUME Populated, UNCHANGED usersFile, J'.pc \notin Adding,
         HasAccount \/ /\ owner' = owner /\ pending' \subseteq pending
                       /\ J'.pc \notin {"memory", "register"}
  PROVE  Populated'
BY DEF Populated, HasAccount, Opened

LEMMA PopulatedHandler ==
  ASSUME Served, TypeInv, Loaded, InStep, Populated, Handler(Th)
  PROVE  Populated'
<1>0. boot = "up" /\ J # Idle /\ J.user \in Names /\ J.role \in Roles \cup {Nobody}
  BY HandlerUp, OneJob
<1>1. CASE StoreAccount(Th)
  <2>1. J.pc = "users" /\ UNCHANGED <<users, pending, owner>>
    BY <1>1 DEF StoreAccount, J, registry
  <2>2. PICK w \in UsersWith(J.user, J.role) :
          usersFile' = w.data /\ Goto(Th, IF w.ok THEN "memory" ELSE "undo")
    BY <1>1 DEF StoreAccount, J
  <2>3. IF w.ok THEN w.data = [usersFile EXCEPT ![J.user] = J.role] ELSE w.data = usersFile
    BY <1>0, <2>2, UsersWritten DEF UsersWith
  <2>4. usersFile = users /\ users[J.user] = Nobody /\ J.role # Nobody
    BY <1>0, <2>1 DEF InStep, Populated, Adding
  <2>5. CASE w.ok
    <3>1. usersFile' = [usersFile EXCEPT ![J.user] = J.role] /\ usersFile \in UserFile
      BY <2>2, <2>3, <2>5 DEF TypeInv, TypeOK, UserFile
    <3>2. HasAccount'
      BY <1>0, <2>4, <3>1, NobodyApart DEF HasAccount, UserFile
    <3>3. J'.pc = "memory"
      BY <1>0, <2>2, <2>5, OneJob DEF Pcs
    <3>4. QED
      BY <3>2, <3>3 DEF Populated, Adding
  <2>6. CASE ~w.ok
    <3>1. J'.pc = "undo"
      BY <1>0, <2>2, <2>6, OneJob DEF Pcs
    <3>2. QED
      BY <2>1, <2>2, <2>3, <2>6, <3>1, PopulatedKept DEF Adding
  <2>7. QED
    BY <2>5, <2>6
<1>2. CASE Publish(Th)
  <2>1. J.pc = "memory" /\ UNCHANGED usersFile /\ (Goto(Th, "register") \/ Done(Th))
    BY <1>2 DEF Publish, J, files
  <2>2. HasAccount
    BY <2>1 DEF Populated
  <2>3. J'.pc \notin Adding
    BY <1>0, <2>1, OneJob DEF Adding, Pcs, Idle
  <2>4. QED
    BY <2>1, <2>2, <2>3, PopulatedKept
<1>3. CASE RoleInMemory(Th) \/ UndoCredentials(Th) \/ Disconnect(Th)
  <2>1. Done(Th) /\ UNCHANGED <<usersFile, pending>>
    BY <1>3 DEF RoleInMemory, UndoCredentials, Disconnect, files
  <2>2. UNCHANGED owner
    BY <1>3, OneThread DEF RoleInMemory, UndoCredentials, Disconnect, RevokeOthers, registry
  <2>3. J' = Idle
    BY <2>1, OneJob
  <2>4. QED
    BY <2>1, <2>2, <2>3, PopulatedKept DEF Idle, Adding
<1>4. CASE CompleteLogin(Th)
  <2>1. J.pc = "register" /\ Done(Th) /\ UNCHANGED usersFile
    BY <1>4 DEF CompleteLogin, J, files
  <2>2. HasAccount /\ J' = Idle
    BY <2>1, OneJob DEF Populated
  <2>3. QED
    BY <2>1, <2>2, PopulatedKept DEF Idle, Adding
<1>5. CASE DropAccount(Th)
  <2>1. Goto(Th, "drop_totp") /\ UNCHANGED <<usersFile, pending, owner>>
    BY <1>5 DEF DropAccount, registry
  <2>2. J'.pc = "drop_totp"
    BY <1>0, <2>1, OneJob DEF Pcs
  <2>3. QED
    BY <2>1, <2>2, PopulatedKept DEF Adding
<1>6. ASSUME NEW pc \in {"revoke", "credentials", "users"}, Goto(Th, pc), J.pc \in Adding,
             UNCHANGED <<users, usersFile, pending, owner>>
      PROVE  Populated'
  <2>1. J'.pc = pc /\ J'.user = J.user /\ J'.role = J.role
    BY <1>0, <1>6, OneJob DEF Pcs
  <2>2. QED
    BY <1>6, <2>1 DEF Populated, Adding, HasAccount, Opened
<1>7. ASSUME Done(Th) \/ Goto(Th, "drop_sessions"), UNCHANGED <<usersFile, pending, owner>>
      PROVE  Populated'
  <2>1. J'.pc \in {"idle", "drop_sessions"}
    BY <1>0, <1>7, OneJob DEF Pcs, Idle
  <2>2. QED
    BY <1>7, <2>1, PopulatedKept DEF Adding
<1>8. CASE ForgetFactor(Th)
  <2>1. /\ UNCHANGED <<users, usersFile, pending, owner>>
        /\ (Goto(Th, "revoke") /\ J.pc = "totp") \/ Goto(Th, "drop_sessions") \/ Done(Th)
    BY <1>8 DEF ForgetFactor, registry, J
  <2>2. QED
    BY <1>6, <1>7, <2>1 DEF Adding
<1>9. CASE ForgetSessions(Th)
  <2>1. /\ UNCHANGED <<users, usersFile, pending, owner>>
        /\ (Goto(Th, "credentials") /\ J.pc = "revoke") \/ Done(Th)
    BY <1>9 DEF ForgetSessions, RevokeOthers, files, J
  <2>2. QED
    BY <1>6, <1>7, <2>1 DEF Adding
<1>10. CASE SetCredentials(Th)
  <2>1. /\ UNCHANGED <<users, usersFile, pending, owner>> /\ J.pc = "credentials"
        /\ Goto(Th, "users") \/ Done(Th)
    BY <1>10 DEF SetCredentials, registry, J
  <2>2. QED
    BY <1>6, <1>7, <2>1 DEF Adding
<1>11. QED
  BY <1>1, <1>2, <1>3, <1>4, <1>5, <1>8, <1>9, <1>10 DEF Handler

LEMMA PopulatedRequest ==
  ASSUME Served, TypeInv, Loaded, InStep, Populated, Request(Th)
  PROVE  Populated'
<1>0. boot = "up" /\ J = Idle /\ usersFile = users /\ UNCHANGED <<users, owner>> /\ users \in UserFile
  BY RequestUp DEF InStep, Idle, registry, TypeInv, TypeOK, UserFile
<1>1. ASSUME NEW s, Manager(s)
      PROVE  owner[s] \in Names /\ users[owner[s]] # Nobody /\ HasAccount
  <2>1. owner[s] \in Names /\ users[owner[s]] # Nobody
    BY <1>1, CurrentType DEF Manager, TypeInv
  <2>2. QED
    BY <1>0, <2>1 DEF HasAccount
<1>2. ASSUME NEW n \in Names, SetupCreate(Th, n) PROVE Populated'
  <2>1. J'.pc = "credentials" /\ J'.user = n /\ J'.role = OwnerRole
    BY <1>2, OneBegin DEF SetupCreate
  <2>2. users[n] = Nobody /\ UNCHANGED <<usersFile, pending>>
    BY <1>2 DEF SetupCreate, Exists, files
  <2>3. QED
    BY <1>0, <2>1, <2>2, NobodyApart DEF Populated, Adding, HasAccount, Opened
<1>3. ASSUME NEW s \in live, NEW n \in Names, NEW r \in Roles, UserAdd(Th, s, n, r) PROVE Populated'
  <2>1. J'.pc = "totp" /\ J'.user = n /\ J'.role = r
    BY <1>3, OneBegin DEF UserAdd
  <2>2. users[n] = Nobody /\ UNCHANGED <<usersFile, pending>> /\ HasAccount
    BY <1>1, <1>3 DEF UserAdd, Exists, files
  <2>3. QED
    BY <1>0, <2>1, <2>2, NobodyApart DEF Populated, Adding, HasAccount, Opened
<1>4. ASSUME NEW s, Manager(s), NEW n \in Names, n # owner[s], NEW r \in Roles \cup {Nobody},
             NEW w \in Writes("users", usersFile, [usersFile EXCEPT ![n] = r]),
             usersFile' = w.data, NEW pc \in {"role", "drop"},
             IF w.ok THEN Begin(Th, pc, n, r, s, None) ELSE UNCHANGED job
      PROVE  Populated'
  <2>0. w.data \in {usersFile, [usersFile EXCEPT ![n] = r]} /\ owner[s] \in Names
    BY <1>1, <1>4, WriteResult
  <2>1. usersFile'[owner[s]] = users[owner[s]]
    BY <1>0, <1>4, <2>0 DEF UserFile
  <2>2. HasAccount'
    BY <1>1, <1>4, <2>1 DEF HasAccount
  <2>3. J'.pc \in {"idle", "role", "drop"}
    <3>1. CASE w.ok
      BY <1>4, <3>1, OneBegin
    <3>2. CASE ~w.ok
      BY <1>0, <1>4, <3>2 DEF J, Idle
    <3>3. QED
      BY <3>1, <3>2
  <2>4. QED
    BY <2>2, <2>3 DEF Populated, Adding
<1>5. ASSUME NEW s \in live, NEW n \in Names, NEW r \in Roles, UserRole(Th, s, n, r) PROVE Populated'
  BY <1>4, <1>5 DEF UserRole, UsersWith
<1>6. ASSUME NEW s \in live, NEW n \in Names, UserDelete(Th, s, n) PROVE Populated'
  BY <1>4, <1>6 DEF UserDelete, UsersWithout
<1>7. ASSUME NEW n \in Names, Login(Th, n) PROVE Populated'
  <2>1. HasAccount /\ UNCHANGED usersFile
    BY <1>0, <1>7 DEF Login, Authenticates, Exists, HasAccount, files
  <2>2. J'.pc \in {"idle", "register"}
    <3>1. CASE FactorOn(n)
      BY <1>0, <1>7, <3>1 DEF Login, J, Idle
    <3>2. CASE ~FactorOn(n)
      BY <1>7, <3>2, OneBegin DEF Login
    <3>3. QED
      BY <3>1, <3>2
  <2>3. QED
    BY <2>1, <2>2, PopulatedKept DEF Adding
<1>8. ASSUME NEW c \in pending, LoginVerify(Th, c) PROVE Populated'
  <2>1. HasAccount /\ UNCHANGED usersFile
    BY <1>8 DEF LoginVerify, Populated, files
  <2>2. J'.pc = "register"
    BY <1>8, OneBegin DEF LoginVerify
  <2>3. QED
    BY <2>1, <2>2, PopulatedKept DEF Adding
<1>9. ASSUME NEW s \in live, NEW n \in Names, UserResetTwofa(Th, s, n) \/ SetPassword(Th, s, n)
      PROVE  Populated'
  <2>1. UNCHANGED <<usersFile, pending>>
    BY <1>9 DEF UserResetTwofa, SetPassword
  <2>2. UNCHANGED job \/ Begin(Th, "disconnect", n, Nobody, s, Chosen(holder[n]))
    BY <1>9 DEF UserResetTwofa, SetPassword
  <2>3. J'.pc \in {"idle", "disconnect"}
    BY <1>0, <2>2, OneBegin DEF J, Idle
  <2>4. QED
    BY <1>0, <2>1, <2>3, PopulatedKept DEF Adding
<1>10. QED
  BY <1>2, <1>3, <1>5, <1>6, <1>7, <1>8, <1>9 DEF Request

LEMMA PopulatedStep ==
  ASSUME Served, TypeInv, Loaded, InStep, Populated, Steps
  PROVE  Populated'
<1>1. CASE \E s \in live : Alone(s)
  <2>1. UNCHANGED <<usersFile, users, pending, job, owner>>
    BY <1>1, AloneEffect DEF Shrinks
  <2>2. QED
    BY <2>1 DEF Populated, HasAccount, J, Opened
<1>2. CASE \/ \E n \in YamlUsers : ImportPassword(n)
           \/ \E c \in pending : PendingExpires(c)
           \/ UNCHANGED vars
  <2>1. UNCHANGED <<usersFile, users, job, owner>> /\ pending' \subseteq pending
    BY <1>2 DEF ImportPassword, PendingExpires, vars, files, registry
  <2>2. QED
    BY <2>1 DEF Populated, HasAccount, J, Opened
<1>3. CASE Load \/ Kill
  <2>1. UNCHANGED <<usersFile, pending, owner>> /\ J' = Idle
    BY <1>3, OneThread DEF Load, Kill, files, LoadSessions, LoseMemory, J, Loaded
  <2>2. QED
    BY <2>1, PopulatedKept DEF Idle, Adding
<1>4. CASE ImportUsers
  <2>1. /\ \A n \in Names \ Imported : usersFile'[n] = usersFile[n]
        /\ UNCHANGED <<pending, owner>> /\ J' = Idle
    BY <1>4 DEF ImportUsers, registry, J, Loaded
  <2>2. \A n \in Imported : usersFile[n] = Nobody
    BY DEF Imported
  <2>3. HasAccount => HasAccount'
    BY <2>1, <2>2 DEF HasAccount
  <2>4. J'.pc = "idle"
    BY <2>1 DEF Idle
  <2>5. QED
    BY <2>1, <2>3, <2>4 DEF Populated, Adding, Opened
<1>5. QED
  BY <1>1, <1>2, <1>3, <1>4, PopulatedHandler, PopulatedRequest DEF Steps

-----------------------------------------------------------------------------
(* What an account has stays its holder's.                                 *)
Guarding == {"revoke", "credentials", "users", "memory", "register"}

LEMMA InheritedKept ==
  ASSUME NEW n \in Names, Inherited(n), holder'[n] = holder[n],
         passwords'[n] # None => \/ passwords'[n].holder = holder[n]
                                \/ passwords'[n] = passwords[n],
         factors'[n] # None => \/ factors'[n].holder = holder[n]
                              \/ factors'[n] = factors[n],
         \A s \in Surviving' : owner'[s] = n =>
           \/ s \in Surviving /\ owner[s] = n /\ proof'[s].holder = proof[s].holder
           \/ proof'[s].holder = holder[n]
  PROVE  Inherited(n)'
BY DEF Inherited

LEMMA CleanKept ==
  ASSUME Clean, UNCHANGED <<owner, holder>>, yaml' => yaml, Surviving' \subseteq Surviving,
         \A s \in Surviving : proof'[s].holder = proof[s].holder,
         \A n \in Names :
           /\ passwords'[n] \in {passwords[n], None} \/ passwords'[n].holder = holder[n]
                \/ ~InUse(n)
           /\ factors'[n] \in {factors[n], None}
           /\ InUse(n)' => InUse(n),
         J'.pc \notin Guarding
  PROVE  Clean'
<1>1. ASSUME NEW n \in Names, InUse(n)' PROVE Inherited(n)'
  <2>1. InUse(n) /\ Inherited(n)
    BY <1>1 DEF Clean
  <2>2. QED
    BY <2>1, InheritedKept
<1>2. Opened' = Opened
  BY DEF Opened
<1>3. QED
  BY <1>1, <1>2 DEF Clean, Guarding

(* The writes that take something away.                                    *)
LEMMA Removed ==
  ASSUME TypeInv, NEW n \in Names, NEW w
  PROVE  /\ w \in FactorsWithout(n) =>
              /\ \A m \in Names : w.data[m] \in {factors[m], None}
              /\ w.ok => w.data[n] = None
         /\ w \in PasswordsWithout(n) => \A m \in Names : w.data[m] \in {passwords[m], None}
<1>0. factors \in FactorFile /\ passwords \in PasswordFile
  BY DEF TypeInv, TypeOK, FactorFile, PasswordFile
<1>1. ASSUME w \in FactorsWithout(n)
      PROVE  (\A m \in Names : w.data[m] \in {factors[m], None}) /\ (w.ok => w.data[n] = None)
  <2>1. CASE factors[n] = None
    <3>1. w.data = factors
      BY <1>1, <2>1, NotWrittenResult DEF FactorsWithout
    <3>2. QED
      BY <2>1, <3>1
  <2>2. CASE factors[n] # None
    <3>1. w \in Writes("totp", factors, [factors EXCEPT ![n] = None])
      BY <1>1, <2>2 DEF FactorsWithout
    <3>2. w.data \in {factors, [factors EXCEPT ![n] = None]} /\ (w.ok => w.data = [factors EXCEPT ![n] = None])
      BY <3>1, WriteResult
    <3>3. QED
      BY <1>0, <3>2 DEF FactorFile
  <2>3. QED
    BY <2>1, <2>2
<1>2. ASSUME w \in PasswordsWithout(n) PROVE \A m \in Names : w.data[m] \in {passwords[m], None}
  <2>1. CASE passwords[n] = None
    BY <1>2, <2>1, NotWrittenResult DEF PasswordsWithout
  <2>2. CASE passwords[n] # None
    <3>1. w \in Writes("passwords", passwords, [passwords EXCEPT ![n] = None])
      BY <1>2, <2>2 DEF PasswordsWithout
    <3>2. w.data \in {passwords, [passwords EXCEPT ![n] = None]}
      BY <3>1, WriteResult
    <3>3. QED
      BY <1>0, <3>2 DEF PasswordFile
  <2>3. QED
    BY <2>1, <2>2
<1>3. QED
  BY <1>1, <1>2

LEMMA PasswordGiven ==
  ASSUME TypeInv, NEW n \in Names, NEW STATE p, NEW w \in PasswordsWith(n, p)
  PROVE  /\ \A m \in Names \ {n} : w.data[m] = passwords[m]
         /\ w.data[n] = passwords[n] \/ w.data[n] = [holder |-> p.holder, pw |-> p.pw]
         /\ w.ok => w.data[n] = [holder |-> p.holder, pw |-> p.pw]
<1>1. /\ w.data \in {passwords, [passwords EXCEPT ![n] = [holder |-> p.holder, pw |-> p.pw]]}
      /\ w.ok => w.data = [passwords EXCEPT ![n] = [holder |-> p.holder, pw |-> p.pw]]
  BY WriteResult DEF PasswordsWith
<1>2. passwords \in PasswordFile
  BY DEF TypeInv, TypeOK, PasswordFile
<1>3. QED
  BY <1>1, <1>2 DEF PasswordFile

LEMMA RolesAgree ==
  ASSUME InStep, boot = "up", J.pc \notin Writing
  PROVE  usersFile = users
BY DEF InStep, Writing

LEMMA CleanHandler ==
  ASSUME Served, TypeInv, Loaded, InStep, Populated, Clean, Handler(Th)
  PROVE  Clean'
<1>0. /\ boot = "up" /\ J # Idle /\ J.user \in Names /\ J.role \in Roles \cup {Nobody}
      /\ UNCHANGED yaml
  BY HandlerUp, OneJob
<1>d. Done(Th) => J'.pc \notin Guarding
  BY OneJob DEF Idle, Guarding
<1>1. CASE ForgetFactor(Th)
  <2>1. /\ UNCHANGED <<users, usersFile, passwords, holder, proof, owner, live, filed, aged>>
        /\ UNCHANGED <<Opened, Surviving>>
    BY <1>1 DEF ForgetFactor, ghosts, registry, Opened, Surviving
  <2>2. PICK w \in FactorsWithout(J.user) :
          /\ factors' = w.data
          /\ IF w.ok THEN Goto(Th, IF J.pc = "totp" THEN "revoke" ELSE "drop_sessions") ELSE Done(Th)
    BY <1>1 DEF ForgetFactor, J
  <2>3. (\A m \in Names : factors'[m] \in {factors[m], None}) /\ (w.ok => factors'[J.user] = None)
    BY <1>0, <2>2, Removed
  <2>4. \A n \in Names : InUse(n)' => InUse(n)
    BY <2>1 DEF InUse
  <2>5. J'.pc \in {"revoke", "drop_sessions", "idle"} /\ (J'.pc = "revoke" => w.ok /\ J'.user = J.user)
    BY <1>0, <2>2, OneJob DEF Pcs, Idle
  <2>6. CASE J'.pc # "revoke"
    BY <1>0, <2>1, <2>3, <2>4, <2>5, <2>6, CleanKept DEF Guarding
  <2>7. CASE J'.pc = "revoke"
    <3>1. ASSUME NEW n \in Names, InUse(n)' PROVE Inherited(n)'
      BY <2>1, <2>3, <2>4, <3>1, InheritedKept DEF Clean
    <3>2. factors'[J'.user] = None
      BY <2>3, <2>5, <2>7
    <3>3. QED
      BY <1>0, <2>1, <2>3, <2>7, <3>1, <3>2 DEF Clean
  <2>8. QED
    BY <2>6, <2>7
<1>2. CASE ForgetSessions(Th)
  <2>1. UNCHANGED <<users, usersFile, passwords, factors, holder, proof>>
    BY <1>2 DEF ForgetSessions, files
  <2>2. PICK ok \in BOOLEAN :
          /\ RevokeOthers(NoSid, J.user, ok)
          /\ IF ok /\ J.pc = "revoke" THEN Goto(Th, "credentials") ELSE Done(Th)
    BY <1>2 DEF ForgetSessions, J
  <2>3. Shrinks /\ \A x \in Surviving' : owner[x] = J.user => x = NoSid
    BY <1>0, <2>2, RevokeOthersShrinks
  <2>4. UNCHANGED owner /\ Surviving' \subseteq Surviving /\ NoSid \notin Surviving
    BY <2>3 DEF Shrinks, Surviving, TypeInv, TypeOK, RegistryTypeOK, Sids, NoSid
  <2>5. \A n \in Names : InUse(n)' => InUse(n)
    BY <2>1 DEF InUse
  <2>6. CASE Done(Th)
    BY <1>0, <1>d, <2>1, <2>4, <2>5, <2>6, CleanKept
  <2>7. CASE J.pc = "revoke" /\ Goto(Th, "credentials")
    <3>1. J'.pc = "credentials" /\ J'.user = J.user
      BY <1>0, <2>7, OneJob DEF Pcs
    <3>2. ASSUME NEW n \in Names, InUse(n)' PROVE Inherited(n)'
      BY <2>1, <2>4, <2>5, <3>2, InheritedKept DEF Clean
    <3>3. \A s \in Surviving' : owner'[s] # J.user
      BY <2>3, <2>4
    <3>4. Opened' = Opened
      BY <2>4 DEF Opened
    <3>5. QED
      BY <1>0, <2>1, <2>7, <3>1, <3>2, <3>3, <3>4 DEF Clean
  <2>8. QED
    BY <2>2, <2>6, <2>7
<1>3. CASE SetCredentials(Th)
  <2>1. /\ UNCHANGED <<users, usersFile, factors, holder, proof, owner, live, filed, aged>>
        /\ UNCHANGED <<Opened, Surviving>> /\ J.pc = "credentials"
    BY <1>3 DEF SetCredentials, ghosts, registry, Opened, Surviving, J
  <2>2. PICK w \in PasswordsWith(J.user, J.proof) :
          passwords' = w.data /\ IF w.ok THEN Goto(Th, "users") ELSE Done(Th)
    BY <1>3 DEF SetCredentials, J
  <2>3. /\ \A m \in Names \ {J.user} : passwords'[m] = passwords[m]
        /\ w.ok => passwords'[J.user] = [holder |-> J.proof.holder, pw |-> J.proof.pw]
    BY <1>0, <2>2, PasswordGiven
  <2>4. ~InUse(J.user)
    BY <1>0, <2>1, RolesAgree DEF InUse, Populated, Adding, Writing
  <2>5. \A n \in Names : InUse(n)' => InUse(n)
    BY <2>1 DEF InUse
  <2>6. CASE ~w.ok
    BY <1>0, <1>d, <2>1, <2>2, <2>3, <2>4, <2>5, <2>6, CleanKept
  <2>7. CASE w.ok
    <3>1. J'.pc = "users" /\ J'.user = J.user /\ J'.proof = J.proof
      BY <1>0, <2>2, <2>7, OneJob DEF Pcs
    <3>2. ASSUME NEW n \in Names, InUse(n)' PROVE Inherited(n)'
      <4>1. passwords'[n] = passwords[n] /\ Inherited(n)
        BY <2>3, <2>4, <2>5, <3>2 DEF Clean
      <4>2. QED
        BY <2>1, <4>1, InheritedKept
    <3>3. QED
      BY <1>0, <2>1, <2>3, <2>7, <3>1, <3>2 DEF Clean
  <2>8. QED
    BY <2>6, <2>7
<1>4. CASE StoreAccount(Th)
  <2>1. /\ UNCHANGED <<users, passwords, factors, proof, owner, live, filed, aged>>
        /\ UNCHANGED <<Opened, Surviving>> /\ J.pc = "users"
        /\ holder' = [holder EXCEPT ![J.user] = J.proof.holder]
    BY <1>4 DEF StoreAccount, registry, Opened, Surviving, J
  <2>2. PICK w \in UsersWith(J.user, J.role) :
          usersFile' = w.data /\ Goto(Th, IF w.ok THEN "memory" ELSE "undo")
    BY <1>4 DEF StoreAccount, J
  <2>3. usersFile' \in {usersFile, [usersFile EXCEPT ![J.user] = J.role]}
    BY <2>2, WriteResult DEF UsersWith
  <2>4. J'.pc \in {"memory", "undo"} /\ J'.user = J.user /\ J'.proof = J.proof
    BY <1>0, <2>2, OneJob DEF Pcs
  <2>5. holder \in [Names -> 0..MaxPasswords] /\ usersFile \in UserFile
    BY DEF TypeInv, TypeOK, UserFile
  <2>6. /\ holder'[J.user] = J.proof.holder
        /\ \A n \in Names \ {J.user} : holder'[n] = holder[n] /\ usersFile'[n] = usersFile[n]
    BY <1>0, <2>1, <2>3, <2>5 DEF UserFile
  <2>7. /\ factors[J.user] = None /\ (\A s \in Surviving : owner[s] # J.user)
        /\ passwords[J.user] = [holder |-> J.proof.holder, pw |-> J.proof.pw]
    BY <2>1 DEF Clean
  <2>8. Inherited(J.user)'
    <3>1. passwords'[J.user].holder = J.proof.holder
      BY <2>1, <2>7
    <3>2. factors'[J.user] = None /\ \A s \in Surviving' : owner'[s] # J.user
      BY <2>1, <2>7
    <3>3. Surviving' = Surviving /\ J'.user = J.user
      BY <2>1, <2>4
    <3>4. /\ passwords'[J.user] # None => passwords'[J.user].holder = holder'[J.user]
          /\ factors'[J.user] # None => factors'[J.user].holder = holder'[J.user]
          /\ \A s \in Surviving' : owner'[s] = J.user => proof'[s].holder = holder'[J.user]
      BY <2>6, <3>1, <3>2
    <3>5. QED
      BY <3>3, <3>4 DEF Inherited
  <2>9. ASSUME NEW n \in Names, InUse(n)' PROVE Inherited(n)'
    <3>1. CASE n = J.user
      BY <2>4, <2>8, <3>1 DEF Inherited
    <3>2. CASE n # J.user
      <4>1. InUse(n) /\ holder'[n] = holder[n]
        BY <2>1, <2>6, <2>9, <3>2 DEF InUse
      <4>2. QED
        BY <2>1, <4>1, InheritedKept DEF Clean
    <3>3. QED
      BY <3>1, <3>2
  <2>10. QED
    BY <1>0, <2>1, <2>4, <2>6, <2>7, <2>9 DEF Clean
<1>5. CASE UndoCredentials(Th)
  <2>1. /\ UNCHANGED <<users, usersFile, factors, holder, proof, owner, Surviving>> /\ Done(Th)
    BY <1>5 DEF UndoCredentials, ghosts, registry, Surviving
  <2>2. \A m \in Names : passwords'[m] \in {passwords[m], None}
    BY <1>0, <1>5, Removed DEF UndoCredentials, J
  <2>3. \A n \in Names : InUse(n)' => InUse(n)
    BY <2>1 DEF InUse
  <2>4. QED
    BY <1>0, <1>d, <2>1, <2>2, <2>3, CleanKept
<1>6. CASE Publish(Th)
  <2>1. /\ UNCHANGED <<usersFile, passwords, factors, holder, proof, owner, live, filed, aged>>
        /\ UNCHANGED <<Opened, Surviving>> /\ J.pc = "memory"
        /\ users' = [users EXCEPT ![J.user] = J.role]
        /\ Goto(Th, "register") \/ Done(Th)
    BY <1>6 DEF Publish, files, registry, Opened, Surviving, J
  <2>2. usersFile = users'
    BY <1>0, <2>1 DEF InStep
  <2>3. \A n \in Names : InUse(n)' => InUse(n)
    BY <2>1, <2>2 DEF InUse
  <2>4. CASE Done(Th)
    BY <1>0, <1>d, <2>1, <2>3, <2>4, CleanKept
  <2>5. CASE Goto(Th, "register")
    <3>1. J'.pc = "register" /\ J'.user = J.user /\ J'.proof = J.proof
      BY <1>0, <2>5, OneJob DEF Pcs
    <3>2. ASSUME NEW n \in Names, InUse(n)' PROVE Inherited(n)'
      BY <2>1, <2>3, <3>2, InheritedKept DEF Clean
    <3>3. J.proof.holder = holder[J.user]
      BY <2>1 DEF Clean
    <3>4. QED
      BY <1>0, <2>1, <3>1, <3>2, <3>3 DEF Clean
  <2>6. QED
    BY <2>1, <2>4, <2>5
<1>7. CASE RoleInMemory(Th)
  <2>1. /\ UNCHANGED <<usersFile, passwords, factors, holder, proof, owner, Surviving>> /\ Done(Th)
        /\ J.pc = "role" /\ users' = [users EXCEPT ![J.user] = J.role]
    BY <1>7 DEF RoleInMemory, files, ghosts, registry, Surviving, J
  <2>2. usersFile = users'
    BY <1>0, <2>1 DEF InStep
  <2>3. \A n \in Names : InUse(n)' => InUse(n)
    BY <2>1, <2>2 DEF InUse
  <2>4. QED
    BY <1>0, <1>d, <2>1, <2>3, CleanKept
<1>8. CASE DropAccount(Th)
  <2>1. /\ UNCHANGED <<usersFile, factors, holder, proof, owner, Surviving>> /\ Goto(Th, "drop_totp")
        /\ J.pc = "drop" /\ users' = [users EXCEPT ![J.user] = Nobody]
    BY <1>8 DEF DropAccount, ghosts, registry, Surviving, J
  <2>2. usersFile = users'
    BY <1>0, <2>1 DEF InStep
  <2>3. \A n \in Names : InUse(n)' => InUse(n)
    BY <2>1, <2>2 DEF InUse
  <2>4. \A m \in Names : passwords'[m] \in {passwords[m], None}
    BY <1>0, <1>8, Removed DEF DropAccount, J
  <2>5. J'.pc = "drop_totp"
    BY <1>0, <2>1, OneJob DEF Pcs
  <2>6. QED
    BY <1>0, <2>1, <2>3, <2>4, <2>5, CleanKept DEF Guarding
<1>9. CASE Disconnect(Th)
  <2> DEFINE keep == IF J.by \in Of(Opened, J.user) THEN J.by ELSE NoSid
  <2>1. /\ UNCHANGED <<users, usersFile, passwords, factors, holder>> /\ Done(Th)
    BY <1>9 DEF Disconnect, files
  <2>2. PICK ok \in BOOLEAN :
          /\ RevokeOthers(keep, J.user, ok)
          /\ proof' = IF keep = NoSid \/ ~ok THEN proof ELSE [proof EXCEPT ![keep].pw = J.proof.pw]
    BY <1>9 DEF Disconnect, J
  <2>3. UNCHANGED owner /\ Surviving' \subseteq Surviving
    BY <1>0, <2>2, RevokeOthersShrinks DEF Shrinks
  <2>4. \A s \in Surviving : proof'[s].holder = proof[s].holder
    <3>1. Surviving \subseteq Opened /\ proof \in [Opened -> Proof]
      BY DEF Surviving, TypeInv, TypeOK, RegistryTypeOK
    <3>2. CASE proof' = proof
      BY <3>2
    <3>3. CASE proof' = [proof EXCEPT ![keep].pw = J.proof.pw]
      <4>1. TAKE s \in Surviving
      <4>2. proof[s] \in Proof /\ s \in Opened
        BY <3>1
      <4>3. QED
        BY <3>1, <3>3, <4>2 DEF Proof
    <3>4. QED
      BY <2>2, <3>2, <3>3
  <2>5. \A n \in Names : InUse(n)' => InUse(n)
    BY <2>1 DEF InUse
  <2>6. QED
    BY <1>0, <1>d, <2>1, <2>3, <2>4, <2>5, CleanKept
<1>10. CASE CompleteLogin(Th)
  <2>1. /\ UNCHANGED <<users, usersFile, passwords, factors, holder>> /\ Done(Th)
        /\ J.pc = "register"
        /\ proof' = [s \in Opened \cup {NextSid} |-> IF s = NextSid THEN J.proof ELSE proof[s]]
    BY <1>10 DEF CompleteLogin, files, J
  <2>2. PICK ok \in BOOLEAN : Register(J.user, ok)
    BY <1>10 DEF CompleteLogin, J
  <2>3. /\ Opened' = Opened \cup {NextSid} /\ UNCHANGED aged
        /\ NextSid \notin Opened
        /\ owner'[NextSid] = J.user /\ \A s \in Opened : owner'[s] = owner[s]
        /\ live' \subseteq live \cup {NextSid} /\ filed' = live'
    BY <1>0, <2>2, RegisterStep, OneThread DEF TypeInv, TypeOK
  <2>4. Surviving' \subseteq Surviving \cup {NextSid} /\ Surviving \subseteq Opened
    BY <2>3 DEF Surviving, TypeInv, TypeOK, RegistryTypeOK
  <2>5. ASSUME NEW n \in Names, InUse(n)' PROVE Inherited(n)'
    <3>1. InUse(n) /\ Inherited(n)
      BY <2>1, <2>5 DEF Clean, InUse
    <3>2. ASSUME NEW s \in Surviving', owner'[s] = n
          PROVE  \/ s \in Surviving /\ owner[s] = n /\ proof'[s].holder = proof[s].holder
                 \/ proof'[s].holder = holder[n]
      <4>1. CASE s = NextSid
        <5>1. n = J.user /\ proof'[s] = J.proof
          BY <2>1, <2>3, <3>2, <4>1
        <5>2. QED
          BY <2>1, <3>1, <5>1 DEF Clean
      <4>2. CASE s # NextSid
        BY <2>1, <2>3, <2>4, <3>2, <4>2
      <4>3. QED
        BY <4>1, <4>2
    <3>3. QED
      BY <2>1, <3>1, <3>2, InheritedKept
  <2>6. ~yaml' /\ Opened' # {}
    BY <1>0, <2>3 DEF Loaded
  <2>7. QED
    BY <1>d, <2>1, <2>5, <2>6 DEF Clean, Guarding
<1>11. QED
  BY <1>1, <1>2, <1>3, <1>4, <1>5, <1>6, <1>7, <1>8, <1>9, <1>10 DEF Handler

LEMMA CleanRequest ==
  ASSUME Served, TypeInv, Loaded, InStep, Populated, Clean, Request(Th)
  PROVE  Clean'
<1>0. /\ boot = "up" /\ J = Idle /\ usersFile = users
      /\ UNCHANGED <<yaml, users, owner, holder, proof, Opened, Surviving>>
  BY RequestUp DEF InStep, Idle, registry, Opened, Surviving
<1>k. ASSUME UNCHANGED factors, UNCHANGED usersFile, UNCHANGED passwords
      PROVE  /\ \A n \in Names : InUse(n)' => Inherited(n)'
             /\ yaml' => Opened' = {}
             /\ Opened' = {} => \A n \in Names : factors'[n] = None
  <2>1. ASSUME NEW n \in Names, InUse(n)' PROVE Inherited(n)'
    <3>1. InUse(n) /\ Inherited(n)
      BY <1>0, <1>k, <2>1 DEF InUse, Clean
    <3>2. QED
      BY <1>0, <1>k, <3>1, InheritedKept
  <2>2. QED
    BY <1>0, <1>k, <2>1 DEF Clean
<1>1. ASSUME NEW n \in Names, SetupCreate(Th, n) PROVE Clean'
  <2>1. UNCHANGED <<factors, usersFile, passwords>> /\ \A m \in Names : users[m] = Nobody
    BY <1>1 DEF SetupCreate, files, Exists
  <2>2. Opened = {}
    BY <1>0, <2>1, NobodyApart DEF Populated, HasAccount
  <2>3. factors[n] = None /\ Surviving = {}
    BY <2>2 DEF Clean, Surviving, TypeInv, TypeOK, RegistryTypeOK
  <2>4. J'.pc = "credentials" /\ J'.user = n
    BY <1>1, OneBegin DEF SetupCreate
  <2>5. QED
    BY <1>0, <1>k, <2>1, <2>3, <2>4 DEF Clean
<1>2. ASSUME NEW s \in live, NEW n \in Names, NEW r \in Roles, UserAdd(Th, s, n, r) PROVE Clean'
  <2>1. UNCHANGED <<factors, usersFile, passwords>>
    BY <1>2 DEF UserAdd, files
  <2>2. J'.pc = "totp"
    BY <1>2, OneBegin DEF UserAdd
  <2>3. QED
    BY <1>k, <2>1, <2>2 DEF Clean
<1>3. ASSUME NEW s, NEW n \in Names, Exists(n), NEW r \in Roles \cup {Nobody},
             NEW w \in Writes("users", usersFile, [usersFile EXCEPT ![n] = r]),
             usersFile' = w.data, NEW pc \in {"role", "drop"},
             IF w.ok THEN Begin(Th, pc, n, r, s, None) ELSE UNCHANGED job,
             UNCHANGED <<factors, passwords>>
      PROVE  Clean'
  <2>1. usersFile' \in {usersFile, [usersFile EXCEPT ![n] = r]} /\ usersFile \in UserFile
    BY <1>3, WriteResult DEF TypeInv, TypeOK, UserFile
  <2>2. \A m \in Names : InUse(m)' => InUse(m)
    BY <1>0, <1>3, <2>1 DEF InUse, Exists, UserFile
  <2>3. J'.pc \notin Guarding
    <3>1. CASE w.ok
      BY <1>3, <3>1, OneBegin DEF Guarding
    <3>2. CASE ~w.ok
      BY <1>0, <1>3, <3>2 DEF J, Idle, Guarding
    <3>3. QED
      BY <3>1, <3>2
  <2>4. QED
    BY <1>0, <1>3, <2>2, <2>3, CleanKept
<1>4. ASSUME NEW s \in live, NEW n \in Names, NEW r \in Roles, UserRole(Th, s, n, r) PROVE Clean'
  BY <1>3, <1>4 DEF UserRole, UsersWith
<1>5. ASSUME NEW s \in live, NEW n \in Names, UserDelete(Th, s, n) PROVE Clean'
  BY <1>3, <1>5 DEF UserDelete, UsersWithout
<1>6. ASSUME NEW s \in live, NEW n \in Names, UserResetTwofa(Th, s, n) PROVE Clean'
  <2>1. UNCHANGED <<usersFile, passwords, job>>
    BY <1>6 DEF UserResetTwofa
  <2>2. \A m \in Names : factors'[m] \in {factors[m], None}
    BY <1>6, Removed DEF UserResetTwofa
  <2>3. (\A m \in Names : InUse(m)' => InUse(m)) /\ J'.pc \notin Guarding
    BY <1>0, <2>1 DEF InUse, J, Idle, Guarding
  <2>4. QED
    BY <1>0, <2>1, <2>2, <2>3, CleanKept
<1>7. ASSUME NEW s \in live, NEW n \in Names, SetPassword(Th, s, n) PROVE Clean'
  <2>1. UNCHANGED <<usersFile, factors>>
    BY <1>7 DEF SetPassword
  <2> DEFINE p == Chosen(holder[n])
  <2>2. PICK w \in PasswordsWith(n, p) :
          /\ passwords' = w.data
          /\ IF w.ok THEN Begin(Th, "disconnect", n, Nobody, s, p) ELSE UNCHANGED job
    BY <1>7 DEF SetPassword
  <2>p. p.holder = holder[n]
    BY DEF Chosen
  <2> HIDE DEF p
  <2>g. /\ \A m \in Names \ {n} : w.data[m] = passwords[m]
        /\ w.data[n] = passwords[n] \/ w.data[n] = [holder |-> p.holder, pw |-> p.pw]
    BY PasswordGiven
  <2>3. /\ \A m \in Names \ {n} : passwords'[m] = passwords[m]
        /\ passwords'[n] \in {passwords[n], [holder |-> p.holder, pw |-> p.pw]}
    BY <2>2, <2>g
  <2>4. \A m \in Names : passwords'[m] \in {passwords[m], None} \/ passwords'[m].holder = holder[m]
    BY <2>3, <2>p
  <2>5. J'.pc \notin Guarding
    <3>1. CASE w.ok
      BY <2>2, <3>1, OneBegin DEF Guarding
    <3>2. CASE ~w.ok
      BY <1>0, <2>2, <3>2 DEF J, Idle, Guarding
    <3>3. QED
      BY <3>1, <3>2
  <2>6. \A m \in Names : InUse(m)' => InUse(m)
    BY <1>0, <2>1 DEF InUse
  <2>7. QED
    BY <1>0, <2>1, <2>4, <2>5, <2>6, CleanKept
<1>8. ASSUME NEW n \in Names, Login(Th, n) PROVE Clean'
  <2>1. UNCHANGED <<factors, usersFile, passwords>> /\ users[n] # Nobody /\ passwords[n] # None
    BY <1>8 DEF Login, files, Authenticates, Exists, HasPassword
  <2>2. passwords[n].holder = holder[n]
    BY <2>1 DEF Clean, InUse, Inherited
  <2>3. CASE FactorOn(n)
    <3>1. J'.pc = "idle"
      BY <1>0, <1>8, <2>3 DEF Login, J, Idle
    <3>2. QED
      BY <1>k, <2>1, <3>1 DEF Clean
  <2>4. CASE ~FactorOn(n)
    <3>1. J'.pc = "register" /\ J'.user = n /\ J'.proof.holder = passwords[n].holder
      BY <1>8, <2>4, OneBegin DEF Login
    <3>2. QED
      BY <1>0, <1>k, <2>1, <2>2, <3>1 DEF Clean
  <2>5. QED
    BY <2>3, <2>4
<1>9. ASSUME NEW c \in pending, LoginVerify(Th, c) PROVE Clean'
  <2>1. /\ UNCHANGED <<factors, usersFile, passwords>> /\ c.user \in Names
        /\ factors[c.user] # None /\ factors[c.user].holder = c.holder
    BY <1>9 DEF LoginVerify, files, CodeVerifies, TypeInv, TypeOK
  <2>2. InUse(c.user) => c.holder = holder[c.user]
    BY <2>1 DEF Clean, Inherited
  <2>3. J'.pc = "register" /\ J'.user = c.user /\ J'.proof.holder = c.holder
    BY <1>9, OneBegin DEF LoginVerify
  <2>4. QED
    BY <1>0, <1>k, <2>1, <2>2, <2>3 DEF Clean, InUse
<1>10. QED
  BY <1>1, <1>2, <1>4, <1>5, <1>6, <1>7, <1>8, <1>9 DEF Request

LEMMA CleanStep ==
  ASSUME Served, TypeInv, Loaded, InStep, Populated, Clean, Steps
  PROVE  Clean'
<1>1. ASSUME NEW s \in live, Alone(s) PROVE Clean'
  <2>1. /\ UNCHANGED <<yaml, users, usersFile, passwords, job, holder, proof, owner>>
        /\ boot = "up" /\ Surviving' \subseteq Surviving
        /\ \A n \in Names : factors'[n] = factors[n] \/ SameFactor(n)
    BY <1>1, AloneEffect DEF Shrinks
  <2>2. J' = J /\ Opened' = Opened /\ Opened # {} /\ live \subseteq Surviving
    BY <2>1 DEF J, Opened, Surviving, TypeInv, TypeOK, RegistryTypeOK
  <2>3. ASSUME NEW n \in Names, InUse(n)' PROVE Inherited(n)'
    <3>1. InUse(n) /\ Inherited(n)
      BY <2>1, <2>3 DEF InUse, Clean
    <3>2. factors'[n] # None => factors'[n].holder = holder[n]
      <4>1. CASE factors'[n] = factors[n]
        BY <3>1, <4>1 DEF Inherited
      <4>2. CASE SameFactor(n)
        BY <2>2, <3>1, <4>2 DEF Inherited, SameFactor
      <4>3. QED
        BY <2>1, <4>1, <4>2
    <3>3. QED
      BY <2>1, <3>1, <3>2, InheritedKept
  <2>4. ASSUME J.pc \in {"revoke", "credentials", "users", "memory"} PROVE factors'[J.user] = None
    <3>1. J.user \in Names /\ factors[J.user] = None
      BY <2>4, OneJob DEF Clean, Idle
    <3>2. users[J.user] = Nobody \/ \A x \in live : owner[x] # J.user
      BY <2>2, <2>4 DEF Populated, Adding, Clean
    <3>3. QED
      BY <2>1, <3>1, <3>2 DEF SameFactor
  <2>5. QED
    BY <2>1, <2>2, <2>3, <2>4 DEF Clean, InUse
<1>2. ASSUME NEW n \in YamlUsers, ImportPassword(n) PROVE Clean'
  <2>1. /\ UNCHANGED <<yaml, users, usersFile, factors, job, holder, proof, owner, Surviving>>
        /\ boot = "import" /\ usersFile[n] = Nobody /\ n \in Names
        /\ passwords' = [passwords EXCEPT ![n] = [holder |-> lastPw + 1, pw |-> lastPw + 1]]
    BY <1>2, AccountsAssumption DEF ImportPassword, Imported, ghosts, registry, Surviving
  <2>2. J' = Idle /\ users[n] = Nobody
    BY <2>1 DEF Loaded, J
  <2>3. \A m \in Names : InUse(m) => passwords'[m] = passwords[m]
    BY <2>1, <2>2 DEF InUse, TypeInv, TypeOK
  <2>4. (\A m \in Names : InUse(m)' => InUse(m)) /\ J'.pc \notin Guarding
    BY <2>1, <2>2 DEF InUse, Idle, Guarding
  <2>5. QED
    BY <2>1, <2>3, <2>4, CleanKept
<1>3. ASSUME ImportUsers PROVE Clean'
  <2>1. /\ UNCHANGED <<users, passwords, factors, job, proof, owner, Opened, Surviving>>
        /\ yaml' = FALSE /\ boot = "import"
        /\ \A n \in Names \ Imported : usersFile'[n] = usersFile[n]
        /\ holder' = [n \in Names |-> IF n \in Imported THEN passwords[n].holder ELSE holder[n]]
    BY <1>3 DEF ImportUsers, registry, Opened, Surviving
  <2>2. J' = Idle
    BY <2>1 DEF Loaded, J
  <2>3. ASSUME NEW n \in Names, InUse(n)' PROVE Inherited(n)'
    <3>1. CASE n \in Imported
      <4>1. Opened = {} /\ factors[n] = None /\ Surviving = {}
        BY <3>1 DEF Imported, Clean, Surviving, TypeInv, TypeOK, RegistryTypeOK
      <4>2. holder'[n] = passwords[n].holder
        BY <2>1, <3>1
      <4>3. QED
        BY <2>1, <4>1, <4>2 DEF Inherited
    <3>2. CASE n \notin Imported
      <4>1. InUse(n) /\ holder'[n] = holder[n]
        BY <2>1, <2>3, <3>2 DEF InUse
      <4>2. QED
        BY <2>1, <4>1, InheritedKept DEF Clean
    <3>3. QED
      BY <3>1, <3>2
  <2>4. QED
    BY <2>1, <2>2, <2>3 DEF Clean, Idle
<1>4. CASE Load \/ Kill
  <2>1. /\ UNCHANGED <<yaml, usersFile, passwords, factors, holder, proof, owner>>
        /\ users' = usersFile \/ users' = [n \in Names |-> Nobody]
    BY <1>4 DEF Load, Kill, LoadSessions, LoseMemory, files, ghosts
  <2>2. Surviving' \subseteq Surviving
    BY <1>4 DEF Load, Kill, LoadSessions, LoseMemory, Surviving
  <2>3. J' = Idle
    BY <1>4, OneThread DEF Load, Kill, J, Loaded
  <2>4. (\A m \in Names : InUse(m)' => InUse(m)) /\ J'.pc \notin Guarding
    BY <2>1, <2>3 DEF InUse, Idle, Guarding
  <2>5. QED
    BY <2>1, <2>2, <2>4, CleanKept
<1>5. CASE (\E c \in pending : PendingExpires(c)) \/ UNCHANGED vars
  <2>1. UNCHANGED <<yaml, users, usersFile, passwords, factors, job, holder, proof, owner, live, filed, aged>>
    BY <1>5 DEF PendingExpires, vars, files, ghosts, registry
  <2>2. UNCHANGED <<J, Opened, Surviving>>
    BY <2>1 DEF J, Opened, Surviving
  <2>3. QED
    BY <2>1, <2>2 DEF Clean, InUse, Inherited
<1>6. QED
  BY <1>1, <1>2, <1>3, <1>4, <1>5, CleanHandler, CleanRequest DEF Steps

-----------------------------------------------------------------------------
(* What was answered as disconnected stays out.                            *)
Choosing == Proving \ {"register"}

(* A step that opens no session and answers no change of password.         *)
LEMMA RenewedKept ==
  ASSUME Renewed, TypeInv, UNCHANGED <<owner, proof, changed>>, lastPw' \in Nat, lastPw <= lastPw',
         Surviving' \subseteq Surviving, Surviving' \cap (gone' \ gone) = {},
         gone' \subseteq gone \cup Opened \cup Tokens, tokens' \cap gone' = {},
         \A n \in Names : passwords'[n] # None => \/ passwords'[n] = passwords[n]
                                                  \/ passwords'[n].pw >= changed[n],
         J'.pc \in Choosing => J'.proof.pw <= lastPw' /\ J'.proof.pw >= changed[J'.user],
         J'.pc = "disconnect" => passwords'[J'.user] # None /\ passwords'[J'.user].pw = J'.proof.pw,
         J'.pc = "register" => J'.proof.second \/ J'.proof.pw >= changed[J'.user]
  PROVE  Renewed'
<1>1. Opened' = Opened
  BY DEF Opened
<1>2. Surviving' \cap gone' = {} /\ gone' \subseteq Opened' \cup Tokens
  BY <1>1 DEF Renewed
<1>3. \A s \in Surviving' : proof'[s].second \/ proof'[s].pw >= changed'[owner'[s]]
  BY DEF Renewed
<1>4. lastPw \in Nat /\ changed \in [Names -> Nat]
  BY AccountsAssumption DEF TypeInv, TypeOK
<1>5. \A n \in Names : changed'[n] <= lastPw' /\ (passwords'[n] # None => passwords'[n].pw >= changed'[n])
  BY <1>4 DEF Renewed
<1>6. QED
  BY <1>2, <1>3, <1>5 DEF Renewed, Choosing

LEMMA RenewedHandler ==
  ASSUME Served, TypeInv, Loaded, InStep, Populated, Clean, Renewed, Handler(Th)
  PROVE  Renewed'
<1>0. /\ boot = "up" /\ J # Idle /\ J.user \in Names /\ lastPw \in Nat
      /\ changed \in [Names -> Nat]
      /\ J.pc \in Proving => J.proof.pw \in Nat
  BY HandlerUp, OneJob, AccountsAssumption DEF TypeInv, TypeOK, Proof, Ids
<1>d. Done(Th) => J'.pc \notin Choosing \cup {"disconnect", "register"}
  BY OneJob DEF Idle, Choosing, Proving
<1>g. ASSUME NEW pc \in Pcs, Goto(Th, pc), J.pc \in Choosing, lastPw' = lastPw
      PROVE  /\ J'.proof.pw <= lastPw' /\ J'.proof.pw >= changed[J'.user]
             /\ J'.pc = pc /\ J'.pc # "disconnect"
  BY <1>0, <1>g, OneJob DEF Renewed, Choosing, Pcs
<1>1. CASE ForgetFactor(Th)
  <2>1. /\ UNCHANGED <<owner, proof, changed, lastPw, gone, tokens, passwords, Surviving>>
        /\ J.pc \in {"totp", "drop_totp"}
        /\ Done(Th) \/ (J.pc = "totp" /\ Goto(Th, "revoke")) \/ Goto(Th, "drop_sessions")
    BY <1>1 DEF ForgetFactor, ghosts, registry, Surviving, J
  <2>2. J'.pc \in {"idle", "revoke", "drop_sessions"} /\ (J'.pc = "revoke" => J.pc = "totp" /\ Goto(Th, "revoke"))
    BY <1>0, <2>1, OneJob DEF Pcs, Idle
  <2>3. J'.pc \in Choosing => J'.proof.pw <= lastPw' /\ J'.proof.pw >= changed[J'.user]
    BY <1>g, <2>1, <2>2 DEF Choosing, Proving, Pcs
  <2>4. tokens' \cap gone' = {}
    BY <2>1 DEF Renewed
  <2>5. QED
    BY <1>0, <2>1, <2>2, <2>3, <2>4, RenewedKept
<1>2. CASE ForgetSessions(Th)
  <2>1. UNCHANGED <<proof, changed, lastPw, tokens, passwords>>
    BY <1>2 DEF ForgetSessions, files
  <2>2. PICK ok \in BOOLEAN :
          /\ RevokeOthers(NoSid, J.user, ok)
          /\ IF ok /\ J.pc = "revoke" THEN Goto(Th, "credentials") ELSE Done(Th)
          /\ gone' = IF ok THEN gone \cup Of(live, J.user) ELSE gone
    BY <1>2 DEF ForgetSessions, J
  <2>3. Shrinks /\ (Of(live, J.user) \ {NoSid}) \cap Surviving' = {} /\ ok
    BY <1>0, <2>2, RevokeOthersShrinks
  <2>4. live \subseteq Opened /\ Opened \subseteq Sids /\ NoSid \notin Sids /\ tokens \subseteq Tokens
    BY DEF TypeInv, TypeOK, RegistryTypeOK, Sids, NoSid
  <2>5. gone' = gone \cup Of(live, J.user) /\ Of(live, J.user) \subseteq Opened
    BY <2>2, <2>3, <2>4 DEF Of
  <2>6. Surviving' \cap (gone' \ gone) = {} /\ gone' \subseteq gone \cup Opened
    BY <2>3, <2>4, <2>5
  <2>7. tokens' \cap gone' = {}
    BY <2>1, <2>4, <2>5, AccountsAssumption DEF Renewed
  <2>8. J'.pc \in {"idle", "credentials"} /\ (J'.pc = "credentials" => J.pc = "revoke" /\ Goto(Th, "credentials"))
    BY <1>0, <2>2, OneJob DEF Pcs, Idle
  <2>9. J'.pc \in Choosing => J'.proof.pw <= lastPw' /\ J'.proof.pw >= changed[J'.user]
    BY <1>g, <2>1, <2>8 DEF Choosing, Proving, Pcs
  <2>10. QED
    BY <1>0, <2>1, <2>3, <2>6, <2>7, <2>8, <2>9, RenewedKept DEF Shrinks
<1>3. CASE SetCredentials(Th)
  <2>1. /\ UNCHANGED <<owner, proof, changed, lastPw, gone, tokens, Surviving>> /\ J.pc = "credentials"
    BY <1>3 DEF SetCredentials, ghosts, registry, Surviving, J
  <2>2. PICK w \in PasswordsWith(J.user, J.proof) :
          passwords' = w.data /\ IF w.ok THEN Goto(Th, "users") ELSE Done(Th)
    BY <1>3 DEF SetCredentials, J
  <2>3. /\ \A m \in Names \ {J.user} : passwords'[m] = passwords[m]
        /\ \/ passwords'[J.user] = passwords[J.user]
           \/ passwords'[J.user] = [holder |-> J.proof.holder, pw |-> J.proof.pw]
    BY <1>0, <2>2, PasswordGiven
  <2>4. J.proof.pw >= changed[J.user]
    BY <2>1 DEF Renewed, Proving
  <2>5. J'.pc \in {"idle", "users"} /\ (J'.pc = "users" => Goto(Th, "users"))
    BY <1>0, <2>2, OneJob DEF Pcs, Idle
  <2>6. J'.pc \in Choosing => J'.proof.pw <= lastPw' /\ J'.proof.pw >= changed[J'.user]
    BY <1>g, <2>1, <2>5 DEF Choosing, Proving, Pcs
  <2>7. tokens' \cap gone' = {}
    BY <2>1 DEF Renewed
  <2>8. \A n \in Names : passwords'[n] = passwords[n] \/ passwords'[n].pw >= changed[n]
    BY <2>3, <2>4
  <2>9. QED
    BY <1>0, <2>1, <2>5, <2>6, <2>7, <2>8, RenewedKept
<1>4. CASE StoreAccount(Th)
  <2>1. /\ UNCHANGED <<owner, proof, changed, lastPw, gone, tokens, passwords, Surviving>>
        /\ J.pc = "users" /\ (Goto(Th, "memory") \/ Goto(Th, "undo"))
    BY <1>4 DEF StoreAccount, registry, Surviving, J
  <2>2. J'.proof.pw <= lastPw' /\ J'.proof.pw >= changed[J'.user] /\ J'.pc \in {"memory", "undo"}
    BY <1>g, <2>1 DEF Choosing, Proving, Pcs
  <2>3. tokens' \cap gone' = {}
    BY <2>1 DEF Renewed
  <2>4. QED
    BY <1>0, <2>1, <2>2, <2>3, RenewedKept
<1>5. CASE UndoCredentials(Th) \/ RoleInMemory(Th) \/ DropAccount(Th)
  <2>1. /\ UNCHANGED <<owner, proof, changed, lastPw, gone, tokens, Surviving>>
        /\ Done(Th) \/ Goto(Th, "drop_totp")
    BY <1>5 DEF UndoCredentials, RoleInMemory, DropAccount, files, ghosts, registry, Surviving
  <2>2. \A m \in Names : passwords'[m] \in {passwords[m], None}
    BY <1>0, <1>5, Removed DEF UndoCredentials, RoleInMemory, DropAccount, files, J
  <2>3. J'.pc \in {"idle", "drop_totp"}
    BY <1>0, <2>1, OneJob DEF Pcs, Idle
  <2>4. tokens' \cap gone' = {}
    BY <2>1 DEF Renewed
  <2>5. QED
    BY <1>0, <2>1, <2>2, <2>3, <2>4, RenewedKept DEF Choosing, Proving
<1>6. CASE Publish(Th)
  <2>1. /\ UNCHANGED <<owner, proof, lastPw, gone, tokens, passwords, Opened, Surviving>> /\ J.pc = "memory"
        /\ changed' = [changed EXCEPT ![J.user] = J.proof.pw]
        /\ Goto(Th, "register") \/ Done(Th)
    BY <1>6 DEF Publish, files, registry, Opened, Surviving, J
  <2>2. /\ J.proof.pw <= lastPw /\ J.proof.pw \in Nat /\ passwords[J.user].pw = J.proof.pw
        /\ \A s \in Surviving : owner[s] # J.user
    BY <1>0, <2>1 DEF Renewed, Clean, Proving
  <2>3. changed'[J.user] = J.proof.pw /\ \A n \in Names \ {J.user} : changed'[n] = changed[n]
    BY <1>0, <2>1
  <2>4. \A s \in Surviving : owner[s] \in Names
    BY DEF Surviving, TypeInv, TypeOK, RegistryTypeOK
  <2>5. \A s \in Surviving' : proof'[s].second \/ proof'[s].pw >= changed'[owner'[s]]
    BY <2>1, <2>2, <2>3, <2>4 DEF Renewed
  <2>6. \A n \in Names : /\ changed'[n] <= lastPw'
                         /\ passwords'[n] # None => passwords'[n].pw >= changed'[n]
    BY <2>1, <2>2, <2>3 DEF Renewed
  <2>7. /\ J'.pc \in {"register", "idle"}
        /\ J'.pc = "register" => J'.user = J.user /\ J'.proof = J.proof
    BY <1>0, <2>1, OneJob DEF Pcs, Idle
  <2>8. J'.pc = "register" => J'.proof.pw >= changed'[J'.user]
    BY <2>2, <2>3, <2>7
  <2>9. QED
    BY <2>1, <2>5, <2>6, <2>7, <2>8 DEF Renewed, Proving
<1>7. CASE Disconnect(Th)
  <2> DEFINE keep == IF J.by \in Of(Opened, J.user) THEN J.by ELSE NoSid
  <2>1. UNCHANGED <<passwords, tokens, lastPw>> /\ Done(Th) /\ J.pc = "disconnect"
    BY <1>7 DEF Disconnect, files, J
  <2>2. PICK ok \in BOOLEAN :
          /\ RevokeOthers(keep, J.user, ok)
          /\ gone' = IF ok THEN gone \cup (Of(live, J.user) \ {keep}) ELSE gone
          /\ changed' = IF ok THEN [changed EXCEPT ![J.user] = J.proof.pw] ELSE changed
          /\ proof' = IF keep = NoSid \/ ~ok THEN proof ELSE [proof EXCEPT ![keep].pw = J.proof.pw]
    BY <1>7 DEF Disconnect, J
  <2>3. /\ Shrinks /\ ok /\ (Of(live, J.user) \ {keep}) \cap Surviving' = {}
        /\ \A x \in Surviving' : owner[x] = J.user => x = keep
    BY <1>0, <2>2, RevokeOthersShrinks
  <2>4. /\ UNCHANGED <<owner, Opened>> /\ Surviving' \subseteq Surviving
        /\ live \subseteq Opened /\ Surviving \subseteq Opened /\ NoSid \notin Opened
        /\ Opened \subseteq Sids /\ tokens \subseteq Tokens /\ proof \in [Opened -> Proof]
        /\ \A s \in Opened : owner[s] \in Names
    BY <2>3 DEF Shrinks, Surviving, Opened, TypeInv, TypeOK, RegistryTypeOK, Sids, NoSid
  <2>5. /\ changed'[J.user] = J.proof.pw /\ \A n \in Names \ {J.user} : changed'[n] = changed[n]
    BY <1>0, <2>2, <2>3
  <2>6. J.proof.pw <= lastPw /\ passwords[J.user].pw = J.proof.pw /\ J.proof.pw \in Nat
    BY <1>0, <2>1 DEF Renewed, Proving
  <2>7. \A n \in Names : /\ changed'[n] <= lastPw'
                         /\ passwords'[n] # None => passwords'[n].pw >= changed'[n]
    BY <2>1, <2>5, <2>6 DEF Renewed
  <2>8. ASSUME NEW s \in Surviving' PROVE proof'[s].second \/ proof'[s].pw >= changed'[owner'[s]]
    <3>1. s \in Opened /\ proof[s] \in Proof /\ s # NoSid /\ s \in Surviving
      BY <2>4, <2>8
    <3>2. CASE owner[s] = J.user
      <4>1. s = keep /\ proof' = [proof EXCEPT ![keep].pw = J.proof.pw]
        BY <2>2, <2>3, <2>8, <3>1, <3>2
      <4>2. proof'[s].pw = J.proof.pw
        BY <2>4, <3>1, <4>1 DEF Proof
      <4>3. QED
        BY <2>4, <2>5, <2>6, <3>2, <4>2
    <3>3. CASE owner[s] # J.user
      <4>1. keep \in Opened => owner[keep] = J.user
        BY <2>4 DEF Of
      <4>2. proof'[s] = proof[s]
        BY <2>2, <2>4, <3>1, <3>3, <4>1
      <4>3. changed'[owner'[s]] = changed[owner[s]]
        BY <2>4, <2>5, <3>1, <3>3
      <4>4. QED
        BY <3>1, <4>2, <4>3 DEF Renewed
    <3>4. QED
      BY <3>2, <3>3
  <2> HIDE DEF keep
  <2>9. gone' = gone \cup (Of(live, J.user) \ {keep}) /\ Of(live, J.user) \subseteq Opened
    BY <2>2, <2>3, <2>4 DEF Of
  <2>10. /\ Surviving' \cap gone' = {} /\ tokens' \cap gone' = {} /\ gone' \subseteq Opened' \cup Tokens
    BY <2>1, <2>3, <2>4, <2>9, AccountsAssumption DEF Renewed
  <2>11. QED
    BY <1>d, <2>1, <2>7, <2>8, <2>10 DEF Renewed, Choosing
<1>8. CASE CompleteLogin(Th)
  <2>1. /\ UNCHANGED <<passwords, tokens, lastPw, changed, gone>> /\ Done(Th) /\ J.pc = "register"
        /\ proof' = [s \in Opened \cup {NextSid} |-> IF s = NextSid THEN J.proof ELSE proof[s]]
    BY <1>8 DEF CompleteLogin, files, J
  <2>2. PICK ok \in BOOLEAN : Register(J.user, ok)
    BY <1>8 DEF CompleteLogin, J
  <2>3. /\ Opened' = Opened \cup {NextSid} /\ UNCHANGED aged
        /\ NextSid \notin Opened /\ NextSid \in Sids
        /\ owner'[NextSid] = J.user /\ \A s \in Opened : owner'[s] = owner[s]
        /\ live' \subseteq live \cup {NextSid} /\ filed' = live'
    BY <1>0, <2>2, RegisterStep, OneThread DEF TypeInv, TypeOK
  <2>4. Surviving' \subseteq Surviving \cup {NextSid} /\ Surviving \subseteq Opened
    BY <2>3 DEF Surviving, TypeInv, TypeOK, RegistryTypeOK
  <2>5. NextSid \notin gone
    BY <2>3, AccountsAssumption DEF Renewed
  <2>6. ASSUME NEW s \in Surviving' PROVE proof'[s].second \/ proof'[s].pw >= changed'[owner'[s]]
    <3>1. CASE s = NextSid
      BY <2>1, <2>3, <3>1 DEF Renewed
    <3>2. CASE s # NextSid
      <4>1. s \in Surviving /\ proof'[s] = proof[s] /\ owner'[s] = owner[s]
        BY <2>1, <2>3, <2>4, <3>2
      <4>2. QED
        BY <2>1, <4>1 DEF Renewed
    <3>3. QED
      BY <3>1, <3>2
  <2>7. QED
    BY <1>d, <2>1, <2>3, <2>4, <2>5, <2>6 DEF Renewed, Choosing
<1>9. QED
  BY <1>1, <1>2, <1>3, <1>4, <1>5, <1>6, <1>7, <1>8 DEF Handler

LEMMA RenewedRequest ==
  ASSUME Served, TypeInv, TypeInv', Loaded, InStep, Populated, Clean, Renewed, Request(Th)
  PROVE  Renewed'
<1>0. /\ J = Idle /\ UNCHANGED <<owner, proof, changed, gone, tokens, Surviving>>
      /\ Surviving' \cap (gone' \ gone) = {} /\ gone' \subseteq gone \cup Opened \cup Tokens
      /\ tokens' \cap gone' = {}
  BY RequestUp DEF Renewed, registry, Surviving
<1>1. lastPw \in Nat /\ changed \in [Names -> Nat] /\ \A n \in Names : changed[n] <= lastPw
  BY AccountsAssumption DEF TypeInv, TypeOK, Renewed
<1>2. ASSUME NEW pc \in {"totp", "credentials"}, NEW n \in Names, NEW r, NEW s, NEW h,
             Begin(Th, pc, n, r, s, Chosen(h)), lastPw' = lastPw + 1, UNCHANGED passwords
      PROVE  Renewed'
  <2>1. J'.pc = pc /\ J'.user = n /\ J'.proof.pw = lastPw + 1
    BY <1>2, OneBegin DEF Chosen
  <2>2. J'.proof.pw <= lastPw' /\ J'.proof.pw >= changed[J'.user]
    BY <1>1, <1>2, <2>1
  <2>3. lastPw' \in Nat /\ lastPw <= lastPw'
    BY <1>1, <1>2
  <2>4. QED
    BY <1>0, <1>2, <2>1, <2>2, <2>3, RenewedKept
<1>3. ASSUME NEW n \in Names, SetupCreate(Th, n) PROVE Renewed'
  <2>1. /\ Begin(Th, "credentials", n, OwnerRole, NoSid, Chosen(lastPw + 1))
        /\ lastPw' = lastPw + 1 /\ UNCHANGED passwords
    BY <1>3 DEF SetupCreate, files
  <2>2. QED
    BY <1>2, <2>1
<1>4. ASSUME NEW s \in live, NEW n \in Names, NEW r \in Roles, UserAdd(Th, s, n, r) PROVE Renewed'
  <2>1. /\ Begin(Th, "totp", n, r, s, Chosen(lastPw + 1))
        /\ lastPw' = lastPw + 1 /\ UNCHANGED passwords
    BY <1>4 DEF UserAdd, files
  <2>2. QED
    BY <1>2, <2>1
<1>5. ASSUME UNCHANGED <<passwords, lastPw>>, J'.pc \in {"idle", "role", "drop"}
      PROVE  Renewed'
  BY <1>0, <1>1, <1>5, RenewedKept DEF Choosing, Proving
<1>6. ASSUME NEW s \in live, NEW n \in Names, NEW r \in Roles, UserRole(Th, s, n, r) PROVE Renewed'
  <2>1. UNCHANGED <<passwords, lastPw>> /\ (UNCHANGED job \/ Begin(Th, "role", n, r, s, None))
    BY <1>6 DEF UserRole
  <2>2. J'.pc \in {"idle", "role"}
    BY <1>0, <2>1, OneBegin DEF J, Idle
  <2>3. QED
    BY <1>5, <2>1, <2>2
<1>7. ASSUME NEW s \in live, NEW n \in Names, UserDelete(Th, s, n) PROVE Renewed'
  <2>1. UNCHANGED <<passwords, lastPw>> /\ (UNCHANGED job \/ Begin(Th, "drop", n, Nobody, s, None))
    BY <1>7 DEF UserDelete
  <2>2. J'.pc \in {"idle", "drop"}
    BY <1>0, <2>1, OneBegin DEF J, Idle
  <2>3. QED
    BY <1>5, <2>1, <2>2
<1>8. ASSUME NEW s \in live, NEW n \in Names, UserResetTwofa(Th, s, n) PROVE Renewed'
  <2>1. UNCHANGED <<passwords, lastPw, job>>
    BY <1>8 DEF UserResetTwofa
  <2>2. J'.pc = "idle"
    BY <1>0, <2>1 DEF J, Idle
  <2>3. QED
    BY <1>5, <2>1, <2>2
<1>9. ASSUME NEW s \in live, NEW n \in Names, SetPassword(Th, s, n) PROVE Renewed'
  <2> DEFINE p == Chosen(holder[n])
  <2>1. PICK w \in PasswordsWith(n, p) :
          /\ passwords' = w.data
          /\ IF w.ok THEN Begin(Th, "disconnect", n, Nobody, s, p) ELSE UNCHANGED job
    BY <1>9 DEF SetPassword
  <2>2. p.pw = lastPw + 1 /\ lastPw' = lastPw + 1
    BY <1>9 DEF Chosen, SetPassword
  <2> HIDE DEF p
  <2>3. /\ \A m \in Names \ {n} : w.data[m] = passwords[m]
        /\ w.data[n] = passwords[n] \/ w.data[n] = [holder |-> p.holder, pw |-> p.pw]
        /\ w.ok => w.data[n] = [holder |-> p.holder, pw |-> p.pw]
    BY PasswordGiven
  <2>4. \A m \in Names : passwords'[m] = passwords[m] \/ passwords'[m].pw >= changed[m]
    BY <1>1, <2>1, <2>2, <2>3
  <2>5. /\ J'.pc \in {"idle", "disconnect"}
        /\ J'.pc = "disconnect" => J'.user = n /\ J'.proof = p /\ w.ok
    <3>1. CASE w.ok
      BY <2>1, <3>1, OneBegin
    <3>2. CASE ~w.ok
      BY <1>0, <2>1, <3>2 DEF J, Idle
    <3>3. QED
      BY <3>1, <3>2
  <2>6. w.ok => passwords'[n] # None /\ passwords'[n].pw = p.pw
    <3>1. w.ok => passwords'[n] = [holder |-> p.holder, pw |-> p.pw]
      BY <2>1, <2>3
    <3>2. [holder |-> p.holder, pw |-> p.pw] # None
      BY DEF None
    <3>3. QED
      BY <3>1, <3>2
  <2>7. lastPw' \in Nat /\ lastPw <= lastPw' /\ p.pw <= lastPw' /\ p.pw >= changed[n]
    BY <1>1, <2>2
  <2>8. /\ J'.pc \in Choosing => J'.proof.pw <= lastPw' /\ J'.proof.pw >= changed[J'.user]
        /\ J'.pc = "disconnect" => passwords'[J'.user] # None /\ passwords'[J'.user].pw = J'.proof.pw
        /\ J'.pc # "register"
    <3>1. CASE J'.pc = "disconnect"
      BY <2>5, <2>6, <2>7, <3>1
    <3>2. CASE J'.pc = "idle"
      BY <3>2 DEF Choosing, Proving
    <3>3. QED
      BY <2>5, <3>1, <3>2
  <2>9. QED
    BY <1>0, <2>4, <2>7, <2>8, RenewedKept
<1>10. ASSUME NEW n \in Names, Login(Th, n) PROVE Renewed'
  <2>1. UNCHANGED <<passwords, lastPw>> /\ passwords[n] # None
    BY <1>10 DEF Login, files, Authenticates, HasPassword
  <2>2. CASE FactorOn(n)
    <3>1. J'.pc = "idle"
      BY <1>0, <1>10, <2>2 DEF Login, J, Idle
    <3>2. QED
      BY <1>5, <2>1, <3>1
  <2>3. CASE ~FactorOn(n)
    <3>1. J'.pc = "register" /\ J'.user = n /\ J'.proof.pw = passwords[n].pw
      BY <1>10, <2>3, OneBegin DEF Login
    <3>2. J'.proof.pw >= changed[J'.user]
      BY <2>1, <3>1 DEF Renewed
    <3>3. QED
      BY <1>0, <1>1, <2>1, <3>1, <3>2, RenewedKept DEF Choosing
  <2>4. QED
    BY <2>2, <2>3
<1>11. ASSUME NEW c \in pending, LoginVerify(Th, c) PROVE Renewed'
  <2>1. UNCHANGED <<passwords, lastPw>>
    BY <1>11 DEF LoginVerify, files
  <2>2. J'.pc = "register" /\ J'.proof = [holder |-> c.holder, pw |-> c.pw, second |-> TRUE]
    BY <1>11, OneBegin DEF LoginVerify
  <2>3. J'.proof.second
    BY <2>2
  <2>4. QED
    BY <1>0, <1>1, <2>1, <2>2, <2>3, RenewedKept DEF Choosing
<1>12. QED
  BY <1>3, <1>4, <1>6, <1>7, <1>8, <1>9, <1>10, <1>11 DEF Request

LEMMA RenewedStep ==
  ASSUME Served, TypeInv, TypeInv', Loaded, InStep, Populated, Clean, Renewed, Steps
  PROVE  Renewed'
<1>0. lastPw \in Nat /\ lastPw' \in Nat /\ tokens \cap gone = {}
  BY AccountsAssumption DEF TypeInv, TypeOK, Renewed
<1>1. ASSUME NEW s \in live, Alone(s) PROVE Renewed'
  <2>1. /\ UNCHANGED <<passwords, job, lastPw, proof, changed, owner>>
        /\ Surviving' \subseteq Surviving /\ Surviving' \cap (gone' \ gone) = {}
        /\ gone' \subseteq gone \cup Opened \cup Tokens /\ tokens' \cap gone' = {}
    BY <1>0, <1>1, AloneEffect DEF Shrinks
  <2>2. J' = J
    BY <2>1 DEF J
  <2>3. QED
    BY <1>0, <2>1, <2>2, RenewedKept DEF Renewed, Choosing
<1>2. ASSUME NEW n \in YamlUsers, ImportPassword(n) PROVE Renewed'
  <2>1. /\ UNCHANGED <<owner, proof, changed, gone, tokens, job, Surviving>>
        /\ boot = "import" /\ n \in Names /\ lastPw' = lastPw + 1
        /\ passwords' = [passwords EXCEPT ![n] = [holder |-> lastPw + 1, pw |-> lastPw + 1]]
    BY <1>2, AccountsAssumption DEF ImportPassword, ghosts, registry, Surviving
  <2>2. J' = Idle
    BY <2>1 DEF Loaded, J
  <2>3. changed \in [Names -> Nat] /\ passwords \in PasswordFile
    BY AccountsAssumption DEF TypeInv, TypeOK, PasswordFile
  <2>4. \A m \in Names : passwords'[m] = passwords[m] \/ passwords'[m].pw >= changed[m]
    BY <1>0, <2>1, <2>3 DEF Renewed, PasswordFile
  <2>5. lastPw <= lastPw'
    BY <1>0, <2>1
  <2>6. QED
    BY <1>0, <2>1, <2>2, <2>4, <2>5, RenewedKept DEF Idle, Choosing, Proving
<1>3. CASE ImportUsers \/ Load \/ Kill
  <2>1. UNCHANGED <<owner, proof, changed, gone, tokens, passwords, lastPw>> /\ Surviving' \subseteq Surviving
    BY <1>3 DEF ImportUsers, Load, Kill, LoadSessions, LoseMemory, files, ghosts, registry, Surviving
  <2>2. J' = Idle
    BY <1>3, OneThread DEF ImportUsers, Load, Kill, J, Loaded
  <2>3. QED
    BY <1>0, <2>1, <2>2, RenewedKept DEF Idle, Choosing, Proving
<1>4. CASE (\E c \in pending : PendingExpires(c)) \/ UNCHANGED vars
  <2>1. UNCHANGED <<owner, proof, changed, gone, tokens, passwords, lastPw, job, live, filed, aged>>
    BY <1>4 DEF PendingExpires, vars, files, ghosts, registry
  <2>2. UNCHANGED <<J, Surviving>>
    BY <2>1 DEF J, Surviving
  <2>3. QED
    BY <1>0, <2>1, <2>2, RenewedKept DEF Renewed, Choosing
<1>5. QED
  BY <1>1, <1>2, <1>3, <1>4, RenewedHandler, RenewedRequest DEF Steps

-----------------------------------------------------------------------------
(* All of it is inductive.                                                 *)
AccountsInv == TypeInv /\ Loaded /\ InStep /\ Populated /\ Clean /\ Renewed

LEMMA AccountsStart ==
  ASSUME Served, Init
  PROVE  AccountsInv
<1>1. /\ Opened = {} /\ live = {} /\ filed = {} /\ aged = {} /\ Surviving = {}
  BY DEF Init, RegistryInit, Opened, Surviving
<1>2. J = Idle
  BY OneThread DEF Init, J
<1>3. Loaded
  BY <1>1, <1>2 DEF Init, Loaded
<1>4. InStep
  BY <1>2 DEF Init, InStep, Idle
<1>5. Populated
  BY <1>1, <1>2 DEF Init, Populated, Idle, Adding
<1>6. Clean
  BY <1>1, <1>2 DEF Init, Clean, Idle, InUse
<1>7. Renewed
  BY <1>1, <1>2 DEF Init, Renewed, Idle, Proving
<1>8. QED
  BY <1>3, <1>4, <1>5, <1>6, <1>7, TypeInit DEF AccountsInv

LEMMA AccountsStep ==
  ASSUME Served, AccountsInv, [Next]_vars
  PROVE  AccountsInv'
<1>1. TypeInv' /\ Steps
  BY TypeStep, OneStep DEF AccountsInv
<1>2. QED
  BY <1>1, LoadedStep, InStepStep, PopulatedStep, CleanStep, RenewedStep DEF AccountsInv

LEMMA AccountsAlways == ASSUME Served PROVE Spec => []AccountsInv
BY AccountsStart, AccountsStep, PTL DEF Spec

(* One request at a time, sessions that can be written and an account file *)
(* not replaced by a write answered as failed: no session of a former      *)
(* holder of a name works for the account created again under it, whatever *)
(* part of the clean-up failed or was cut.                                 *)
THEOREM NobodyInherits == ASSUME Served PROVE Spec => []NoInheritance
<1>1. ASSUME AccountsInv PROVE NoInheritance
  <2>1. \A s \in live : owner[s] \in Names /\ s \in Surviving
    BY <1>1 DEF AccountsInv, TypeInv, TypeOK, RegistryTypeOK, Surviving
  <2>2. QED
    BY <1>1, <2>1 DEF AccountsInv, Clean, InUse, Inherited, NoInheritance, Exists
<1>2. QED
  BY <1>1, AccountsAlways, PTL

(* In the same system a session or a token answered as revoked never comes *)
(* back, and a change of password answered as done leaves no session of an *)
(* older password but those of a second factor entered late.               *)
THEOREM OutStaysOut == ASSUME Served PROVE Spec => []DisconnectedStaysOut
<1>1. ASSUME AccountsInv PROVE DisconnectedStaysOut
  <2>1. Surviving \cap gone = {} /\ tokens \cap gone = {} /\ live \subseteq Surviving
    BY <1>1 DEF AccountsInv, Renewed, Surviving
  <2>2. \A s \in live : proof[s].second \/ proof[s].pw >= changed[owner[s]]
    BY <1>1, <2>1 DEF AccountsInv, Renewed
  <2>3. QED
    BY <2>1, <2>2 DEF DisconnectedStaysOut, Resolves
<1>2. QED
  BY <1>1, AccountsAlways, PTL

(* In the same system memory and files agree between two requests: a       *)
(* restart changes neither the accounts nor the sessions.                  *)
THEOREM RestartHarmless == ASSUME Served PROVE Spec => []RestartChangesNothing
<1>1. ASSUME AccountsInv PROVE RestartChangesNothing
  <2>1. (\A t \in Threads : job[t] = Idle) => J.pc = "idle"
    BY OneThread DEF J, Idle
  <2>2. QED
    BY <1>1, <2>1 DEF AccountsInv, Loaded, InStep, RestartChangesNothing
<1>2. QED
  BY <1>1, AccountsAlways, PTL
=============================================================================
