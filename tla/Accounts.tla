------------------------------ MODULE Accounts ------------------------------
(***************************************************************************)
(* api/routes/auth.py: accounts, passwords, the second factor and the      *)
(* sessions they open.  An account is spread over four files (users,       *)
(* passwords, second factors, sessions) and two copies in memory; a        *)
(* handler changes them one after the other, any write can fail and the    *)
(* process can stop between two of them.                                   *)
(*                                                                         *)
(* A password is a number, fresh whenever one is chosen.  Whoever creates  *)
(* an account hands it to a person, the holder, named by the first         *)
(* password: the same name created again has another holder.  Failed       *)
(* sign-ins are counted by LoginLimiter and change nothing here.           *)
(***************************************************************************)
EXTENDS Sessions

CONSTANTS
  Roles, Managers,   \* roles, and those that grant USER_MANAGE
  OwnerRole,         \* the role of the first account
  YamlUsers,         \* accounts of an old roles.yml
  Tokens,            \* bound: API tokens ever created
  Threads,           \* requests served at a time
  MaxPasswords,      \* bound: passwords ever chosen
  MaxRequests,       \* bound: requests in all
  MaxKills           \* bound: stops of the process

ASSUME AccountsAssumption ==
  /\ Managers \subseteq Roles /\ OwnerRole \in Managers
  /\ YamlUsers \subseteq Names
  /\ {MaxPasswords, MaxRequests, MaxKills} \subseteq Nat
  /\ "nobody" \notin Roles /\ Tokens \cap Sids = {}

Nobody == "nobody"
None == [holder |-> 0]
Ids == 1..MaxPasswords
Password == [holder : Ids, pw : Ids]
Factor == [holder : Ids, on : BOOLEAN]
Proof == [holder : Ids, pw : Ids, second : BOOLEAN]
Idle == [pc |-> "idle"]

VARIABLES
  boot,         \* how far the process has started
  yaml,         \* roles.yml has accounts, and they are not imported yet
  users,        \* app.state.users: the role of every account
  usersFile,    \* the role load_rbac recognises in the file; an entry whose
                \* role is unknown counts for none
  passwords, factors,
  tokens,       \* the file of API tokens
  pending,      \* cookies of a first factor that was accepted
  job,          \* what every thread has still to do
  lastPw, kills, requests,
  holder,       \* who the account was given to last
  proof,        \* how every session proved itself
  changed,      \* the password last answered as chosen
  gone          \* sessions and tokens answered as revoked

files == <<usersFile, passwords, factors, tokens>>
ghosts == <<holder, proof, changed, gone>>
vars == <<boot, yaml, users, files, pending, job, lastPw, kills, requests, ghosts, registry>>

Job ==
  [pc : {"totp", "revoke", "credentials", "users", "undo", "memory", "register",
         "role", "drop", "drop_totp", "drop_sessions", "disconnect"},
   user : Names, role : Roles \cup {Nobody}, by : {NoSid} \cup Sids,
   proof : Proof \cup {None}]

TypeOK ==
  /\ RegistryTypeOK
  /\ boot \in {"import", "load", "up"}
  /\ yaml \in BOOLEAN
  /\ {users, usersFile} \subseteq [Names -> Roles \cup {Nobody}]
  /\ passwords \in [Names -> Password \cup {None}]
  /\ factors \in [Names -> Factor \cup {None}]
  /\ tokens \subseteq Tokens
  /\ pending \subseteq [user : Names, holder : Ids, pw : Ids]
  /\ job \in [Threads -> Job \cup {Idle}]
  /\ lastPw \in 0..MaxPasswords /\ kills \in 0..MaxKills /\ requests \in 0..MaxRequests
  /\ {holder, changed} \subseteq [Names -> 0..MaxPasswords]
  /\ proof \in [Opened -> Proof]
  /\ gone \subseteq Sids \cup Tokens

Init ==
  /\ RegistryInit
  /\ boot = "import" /\ yaml \in {FALSE, YamlUsers # {}}
  /\ users = [n \in Names |-> Nobody] /\ usersFile = users
  /\ passwords = [n \in Names |-> None] /\ factors = passwords
  /\ tokens = {} /\ pending = {}
  /\ job = [t \in Threads |-> Idle]
  /\ lastPw = 0 /\ kills = 0 /\ requests = 0
  /\ holder = [n \in Names |-> 0] /\ changed = holder
  /\ proof = [s \in {} |-> None] /\ gone = {}

-----------------------------------------------------------------------------
(* Start, stop.  migrate_yaml_users copies the passwords, then the         *)
(* accounts together with the flag that it is done; a failure stops the    *)
(* start.                                                                  *)
Imported == {n \in YamlUsers : yaml /\ usersFile[n] = Nobody}

ImportPassword(n) ==
  /\ boot = "import" /\ n \in Imported /\ passwords[n] = None
  /\ lastPw < MaxPasswords /\ lastPw' = lastPw + 1
  /\ passwords' = [passwords EXCEPT ![n] = [holder |-> lastPw + 1, pw |-> lastPw + 1]]
  /\ UNCHANGED <<boot, yaml, users, usersFile, factors, tokens, pending, job, kills,
                 ghosts, registry>>

(* Whatever roles roles.yml gives: an account of an unknown role is        *)
(* written too, and every start leaves it out.                             *)
ImportUsers ==
  /\ boot = "import" /\ \A n \in Imported : passwords[n] # None
  /\ \E role \in [Imported -> Roles \cup {Nobody}] :
       usersFile' = [n \in Names |-> IF n \in Imported THEN role[n] ELSE usersFile[n]]
  /\ holder' = [n \in Names |-> IF n \in Imported THEN passwords[n].holder ELSE holder[n]]
  /\ yaml' = FALSE
  /\ boot' = "load"
  /\ UNCHANGED <<users, passwords, factors, tokens, pending, job, lastPw, kills,
                 proof, changed, gone, registry>>

(* load_rbac and the registry's _load_into_memory.                         *)
Load ==
  /\ boot = "load"
  /\ users' = usersFile
  /\ LoadSessions
  /\ boot' = "up"
  /\ UNCHANGED <<yaml, files, pending, job, lastPw, kills, ghosts>>

Kill ==
  /\ kills < MaxKills /\ kills' = kills + 1
  /\ boot' = "import"
  /\ users' = [n \in Names |-> Nobody]
  /\ LoseMemory
  /\ job' = [t \in Threads |-> Idle]
  /\ UNCHANGED <<yaml, files, pending, lastPw, ghosts>>

-----------------------------------------------------------------------------
Free(t) == boot = "up" /\ job[t] = Idle
Exists(n) == users[n] # Nobody
HasPassword(n) == passwords[n] # None
Goto(t, pc) == job' = [job EXCEPT ![t].pc = pc]
Done(t) == job' = [job EXCEPT ![t] = Idle]
Begin(t, pc, n, r, s, p) ==
  job' = [job EXCEPT ![t] = [pc |-> pc, user |-> n, role |-> r, by |-> s, proof |-> p]]

(* _current: the session is in the registry and its account in memory.     *)
Current(s) == boot = "up" /\ Valid(s) /\ Exists(owner[s])

(* build_role: the roles that grant USER_MANAGE, by name or all together.  *)
MayManage(role) == role \in Managers

(* authorize_user_management, authorize_api_tokens                         *)
Manager(s) == Current(s) /\ MayManage(users[owner[s]])

(* A password nobody has used yet, chosen for a person.                    *)
Chosen(h) == [holder |-> h, pw |-> lastPw + 1, second |-> FALSE]
CanChoose == lastPw < MaxPasswords

(* The mutations of the files, each under the lock of its path.            *)
UsersWith(n, r) == Writes("users", usersFile, [usersFile EXCEPT ![n] = r])
UsersWithout(n) == Writes("users", usersFile, [usersFile EXCEPT ![n] = Nobody])

PasswordsWith(n, p) ==
  Writes("passwords", passwords,
         [passwords EXCEPT ![n] = [holder |-> p.holder, pw |-> p.pw]])
PasswordsWithout(n) ==
  IF passwords[n] = None THEN NotWritten(passwords)
  ELSE Writes("passwords", passwords, [passwords EXCEPT ![n] = None])

FactorPending(n, h) ==
  Writes("totp", factors, [factors EXCEPT ![n] = [holder |-> h, on |-> FALSE]])
FactorConfirmed(n) == Writes("totp", factors, [factors EXCEPT ![n].on = TRUE])
FactorsWithout(n) ==
  IF factors[n] = None THEN NotWritten(factors)
  ELSE Writes("totp", factors, [factors EXCEPT ![n] = None])

TokensWith(k) == Writes("tokens", tokens, tokens \cup {k})
TokensWithout(k) == Writes("tokens", tokens, tokens \ {k})

(* _bearer_user: the request of a script is served.                        *)
Resolves(k) == k \in tokens

(* JsonTotp.is_enabled, has_pending                                        *)
FactorOn(n) == factors[n] # None /\ factors[n].on
FactorHalfSet(n) == factors[n] # None /\ ~factors[n].on

(* totp.verify: the code of a person who has the secret.                   *)
CodeVerifies(n, h) == factors[n] # None /\ factors[n].holder = h

(* authenticate: the right password of an account in memory.               *)
Authenticates(n) == Exists(n) /\ HasPassword(n)

-----------------------------------------------------------------------------
(* New accounts.  setup_create, only while there is no account at all.     *)
SetupCreate(t, n) ==
  /\ Free(t) /\ \A m \in Names : ~Exists(m)
  /\ CanChoose /\ lastPw' = lastPw + 1
  /\ Begin(t, "credentials", n, OwnerRole, NoSid, Chosen(lastPw + 1))
  /\ UNCHANGED <<boot, yaml, users, files, pending, kills, ghosts, registry>>

(* Mutant: what a former account of that name left is not looked for.      *)
UserAddKeepsTraces(t, s, n, r) ==
  /\ Free(t) /\ Manager(s) /\ ~Exists(n)
  /\ CanChoose /\ lastPw' = lastPw + 1
  /\ Begin(t, "credentials", n, r, s, Chosen(lastPw + 1))
  /\ UNCHANGED <<boot, yaml, users, files, pending, kills, ghosts, registry>>

(* action_user_add: first _forget_account_traces.                          *)
UserAdd(t, s, n, r) ==
  /\ Free(t) /\ Manager(s) /\ ~Exists(n)
  /\ CanChoose /\ lastPw' = lastPw + 1
  /\ Begin(t, "totp", n, r, s, Chosen(lastPw + 1))
  /\ UNCHANGED <<boot, yaml, users, files, pending, kills, ghosts, registry>>

(* _forget_account_traces: the second factor, then the sessions.  A        *)
(* failure ends the creation; a deletion goes on without the sessions.     *)
ForgetFactor(t) ==
  LET n == job[t].user
      adding == job[t].pc = "totp" IN
  /\ job[t].pc \in {"totp", "drop_totp"}
  /\ \E w \in FactorsWithout(n) :
       /\ factors' = w.data
       /\ IF w.ok THEN Goto(t, IF adding THEN "revoke" ELSE "drop_sessions") ELSE Done(t)
  /\ UNCHANGED <<boot, yaml, users, usersFile, passwords, tokens, pending, lastPw,
                 kills, ghosts, registry>>

ForgetSessions(t) ==
  LET n == job[t].user
      adding == job[t].pc = "revoke" IN
  /\ job[t].pc \in {"revoke", "drop_sessions"}
  /\ \E ok \in BOOLEAN :
       /\ RevokeOthers(NoSid, n, ok)
       /\ IF ok /\ adding THEN Goto(t, "credentials") ELSE Done(t)
       /\ gone' = IF ok THEN gone \cup Of(live, n) ELSE gone
  /\ UNCHANGED <<boot, yaml, users, files, pending, lastPw, kills, holder, proof, changed>>

(* _persist_new_account                                                    *)
SetCredentials(t) ==
  /\ job[t].pc = "credentials"
  /\ \E w \in PasswordsWith(job[t].user, job[t].proof) :
       /\ passwords' = w.data
       /\ IF w.ok THEN Goto(t, "users") ELSE Done(t)
  /\ UNCHANGED <<boot, yaml, users, usersFile, factors, tokens, pending, lastPw,
                 kills, ghosts, registry>>

StoreAccount(t) ==
  LET n == job[t].user IN
  /\ job[t].pc = "users"
  /\ \E w \in UsersWith(n, job[t].role) :
       /\ usersFile' = w.data
       /\ Goto(t, IF w.ok THEN "memory" ELSE "undo")
  /\ holder' = [holder EXCEPT ![n] = job[t].proof.holder]
  /\ UNCHANGED <<boot, yaml, users, passwords, factors, tokens, pending, lastPw,
                 kills, proof, changed, gone, registry>>

UndoCredentials(t) ==
  /\ job[t].pc = "undo"
  /\ \E w \in PasswordsWithout(job[t].user) : passwords' = w.data
  /\ Done(t)
  /\ UNCHANGED <<boot, yaml, users, usersFile, factors, tokens, pending, lastPw,
                 kills, ghosts, registry>>

(* The first account is also signed in at once.                            *)
Publish(t) ==
  LET n == job[t].user IN
  /\ job[t].pc = "memory"
  /\ users' = [users EXCEPT ![n] = job[t].role]
  /\ changed' = [changed EXCEPT ![n] = job[t].proof.pw]
  /\ IF job[t].by = NoSid THEN Goto(t, "register") ELSE Done(t)
  /\ UNCHANGED <<boot, yaml, files, pending, lastPw, kills, holder, proof, gone, registry>>

-----------------------------------------------------------------------------
(* Changes of an account by a manager, never the manager's own.            *)

UserRole(t, s, n, r) ==
  /\ Free(t) /\ Manager(s) /\ n # owner[s] /\ Exists(n)
  /\ \E w \in UsersWith(n, r) :
       /\ usersFile' = w.data
       /\ IF w.ok THEN Begin(t, "role", n, r, s, None) ELSE UNCHANGED job
  /\ UNCHANGED <<boot, yaml, users, passwords, factors, tokens, pending, lastPw,
                 kills, ghosts, registry>>

(* Mutant: memory keeps the former role.                                   *)
RoleInFileOnly(t) ==
  /\ job[t].pc = "role"
  /\ Done(t)
  /\ UNCHANGED <<boot, yaml, users, files, pending, lastPw, kills, ghosts, registry>>

RoleInMemory(t) ==
  /\ job[t].pc = "role"
  /\ users' = [users EXCEPT ![job[t].user] = job[t].role]
  /\ Done(t)
  /\ UNCHANGED <<boot, yaml, files, pending, lastPw, kills, ghosts, registry>>

(* action_user_delete: the file, memory, then the two clean-ups, of which  *)
(* one may fail without the other.  An account that the file has lost is   *)
(* not touched.                                                            *)
UserDelete(t, s, n) ==
  /\ Free(t) /\ Manager(s) /\ n # owner[s] /\ Exists(n)
  /\ usersFile[n] # Nobody
  /\ \E w \in UsersWithout(n) :
       /\ usersFile' = w.data
       /\ IF w.ok THEN Begin(t, "drop", n, Nobody, s, None) ELSE UNCHANGED job
  /\ UNCHANGED <<boot, yaml, users, passwords, factors, tokens, pending, lastPw,
                 kills, ghosts, registry>>

DropAccount(t) ==
  LET n == job[t].user IN
  /\ job[t].pc = "drop"
  /\ users' = [users EXCEPT ![n] = Nobody]
  /\ \E w \in PasswordsWithout(n) : passwords' = w.data
  /\ Goto(t, "drop_totp")
  /\ UNCHANGED <<boot, yaml, usersFile, factors, tokens, pending, lastPw, kills,
                 ghosts, registry>>

UserResetTwofa(t, s, n) ==
  /\ Free(t) /\ Manager(s) /\ n # owner[s] /\ Exists(n)
  /\ factors[n] # None
  /\ \E w \in FactorsWithout(n) : factors' = w.data
  /\ UNCHANGED <<boot, yaml, users, usersFile, passwords, tokens, pending, job,
                 lastPw, kills, ghosts, registry>>

(* action_user_reset_password of any account and action_password of one's  *)
(* own: the password, then the sessions.                                   *)
MayReset(s, n) == Manager(s) /\ Exists(n)
MayChange(s, n) == Current(s) /\ n = owner[s] /\ HasPassword(n)

SetPassword(t, s, n) ==
  /\ Free(t)
  /\ MayReset(s, n) \/ MayChange(s, n)
  /\ CanChoose /\ lastPw' = lastPw + 1
  /\ LET p == Chosen(holder[n]) IN
     \E w \in PasswordsWith(n, p) :
       /\ passwords' = w.data
       /\ IF w.ok THEN Begin(t, "disconnect", n, Nobody, s, p) ELSE UNCHANGED job
  /\ UNCHANGED <<boot, yaml, users, usersFile, factors, tokens, pending, kills,
                 ghosts, registry>>

(* Mutant: a manager's reset leaves the devices connected.                 *)
DisconnectOwnOnly(t) ==
  LET n == job[t].user
      p == job[t].proof IN
  /\ job[t].pc = "disconnect"
  /\ changed' = [changed EXCEPT ![n] = p.pw]
  /\ proof' = [s \in Opened |-> IF s = job[t].by /\ owner[s] = n
                                THEN [proof[s] EXCEPT !.pw = p.pw] ELSE proof[s]]
  /\ Done(t)
  /\ UNCHANGED <<boot, yaml, users, files, pending, lastPw, kills, holder, gone, registry>>

(* The other devices of one's own account, all those of another one.       *)
Disconnect(t) ==
  LET n == job[t].user
      p == job[t].proof
      keep == IF job[t].by \in Of(Opened, n) THEN job[t].by ELSE NoSid IN
  /\ job[t].pc = "disconnect"
  /\ \E ok \in BOOLEAN :
       /\ RevokeOthers(keep, n, ok)
       /\ gone' = IF ok THEN gone \cup (Of(live, n) \ {keep}) ELSE gone
       /\ changed' = IF ok THEN [changed EXCEPT ![n] = p.pw] ELSE changed
       /\ proof' = IF keep = NoSid \/ ~ok THEN proof ELSE [proof EXCEPT ![keep].pw = p.pw]
  /\ Done(t)
  /\ UNCHANGED <<boot, yaml, users, files, pending, lastPw, kills, holder>>

-----------------------------------------------------------------------------
(* Signing in.  login: the password is right and the account in memory.    *)
Login(t, n) ==
  LET p == passwords[n] IN
  /\ Free(t) /\ Authenticates(n)
  /\ IF FactorOn(n)
     THEN /\ pending' = pending \cup {[user |-> n, holder |-> p.holder, pw |-> p.pw]}
          /\ UNCHANGED job
     ELSE /\ Begin(t, "register", n, Nobody, NoSid,
                   [holder |-> p.holder, pw |-> p.pw, second |-> FALSE])
          /\ UNCHANGED pending
  /\ UNCHANGED <<boot, yaml, users, files, lastPw, kills, ghosts, registry>>

(* login_verify: whoever knows the secret, of a cookie that is still good. *)
(* Neither the account nor the password is looked at again.                *)
LoginVerify(t, c) ==
  /\ Free(t) /\ c \in pending
  /\ CodeVerifies(c.user, c.holder)
  /\ pending' = pending \ {c}
  /\ Begin(t, "register", c.user, Nobody, NoSid,
           [holder |-> c.holder, pw |-> c.pw, second |-> TRUE])
  /\ UNCHANGED <<boot, yaml, users, files, lastPw, kills, ghosts, registry>>

PendingExpires(c) ==
  /\ pending' = pending \ {c}
  /\ UNCHANGED <<boot, yaml, users, files, job, lastPw, kills, ghosts, registry>>

(* _complete_login, _register_session                                      *)
CompleteLogin(t) ==
  /\ job[t].pc = "register"
  /\ \E ok \in BOOLEAN : Register(job[t].user, ok)
  /\ proof' = [s \in Opened \cup {NextSid} |->
                 IF s = NextSid THEN job[t].proof ELSE proof[s]]
  /\ Done(t)
  /\ UNCHANGED <<boot, yaml, users, files, pending, lastPw, kills, holder, changed, gone>>

(* The page a session asks for finds it too old, or it only grows old.     *)
SessionAges(s) ==
  /\ boot = "up"
  /\ Age(s) \/ Purge(s)
  /\ UNCHANGED <<boot, yaml, users, files, pending, job, lastPw, kills, ghosts>>

(* logout asks for less than a session that is current.                    *)
Logout(s) ==
  /\ boot = "up"
  /\ \E ok \in BOOLEAN : Revoke(s, ok) /\ gone' = IF ok THEN gone \cup {s} ELSE gone
  /\ UNCHANGED <<boot, yaml, users, files, pending, job, lastPw, kills, holder, proof, changed>>

(* action_revoke_session: a session of one's own account.                  *)
RevokeSession(s, x) ==
  /\ Current(s) /\ owner[x] = owner[s]
  /\ \E ok \in BOOLEAN : Revoke(x, ok) /\ gone' = IF ok THEN gone \cup {x} ELSE gone
  /\ UNCHANGED <<boot, yaml, users, files, pending, job, lastPw, kills, holder, proof, changed>>

RevokeOtherSessions(s) ==
  /\ Current(s)
  /\ \E ok \in BOOLEAN :
       /\ RevokeOthers(s, owner[s], ok)
       /\ gone' = IF ok THEN gone \cup (Of(live, owner[s]) \ {s}) ELSE gone
  /\ UNCHANGED <<boot, yaml, users, files, pending, job, lastPw, kills, holder, proof, changed>>

(* One's own second factor: security_start, security_enable,               *)
(* security_cancel and security_disable.                                   *)
SetFactor(w) ==
  /\ factors' = w.data
  /\ UNCHANGED <<boot, yaml, users, usersFile, passwords, tokens, pending, job,
                 lastPw, kills, ghosts, registry>>

SecurityStart(s) ==
  /\ Current(s) /\ ~FactorOn(owner[s])
  /\ \E w \in FactorPending(owner[s], proof[s].holder) : SetFactor(w)

SecurityEnable(s) ==
  /\ Current(s) /\ FactorHalfSet(owner[s]) /\ CodeVerifies(owner[s], proof[s].holder)
  /\ \E w \in FactorConfirmed(owner[s]) : SetFactor(w)

SecurityCancel(s) ==
  /\ Current(s) /\ FactorHalfSet(owner[s])
  /\ \E w \in FactorsWithout(owner[s]) : SetFactor(w)

SecurityDisable(s) ==
  /\ Current(s) /\ Authenticates(owner[s]) /\ factors[owner[s]] # None
  /\ \E w \in FactorsWithout(owner[s]) : SetFactor(w)

(* API tokens: api_token_create, api_token_revoke.                         *)
TokenCreate(s, k) ==
  /\ Manager(s) /\ k \notin tokens \cup gone
  /\ \E w \in TokensWith(k) : tokens' = w.data
  /\ UNCHANGED <<boot, yaml, users, usersFile, passwords, factors, pending, job,
                 lastPw, kills, ghosts, registry>>

TokenRevoke(s, k) ==
  /\ Manager(s) /\ k \in tokens
  /\ \E w \in TokensWithout(k) :
       tokens' = w.data /\ gone' = IF w.ok THEN gone \cup {k} ELSE gone
  /\ UNCHANGED <<boot, yaml, users, usersFile, passwords, factors, pending, job,
                 lastPw, kills, holder, proof, changed, registry>>

-----------------------------------------------------------------------------
Handler(t) ==
  \/ ForgetFactor(t) \/ ForgetSessions(t) \/ SetCredentials(t) \/ StoreAccount(t)
  \/ UndoCredentials(t) \/ Publish(t) \/ RoleInMemory(t) \/ DropAccount(t)
  \/ Disconnect(t) \/ CompleteLogin(t)

Request(t) ==
  \/ \E n \in Names : SetupCreate(t, n) \/ Login(t, n)
  \/ \E s \in live, n \in Names :
       UserDelete(t, s, n) \/ UserResetTwofa(t, s, n) \/ SetPassword(t, s, n)
  \/ \E s \in live, n \in Names, r \in Roles : UserAdd(t, s, n, r) \/ UserRole(t, s, n, r)
  \/ \E c \in pending : LoginVerify(t, c)

(* Requests of a single write run between the steps of the others.         *)
Alone(s) ==
  \/ SessionAges(s) \/ RevokeOtherSessions(s) \/ Logout(s)
  \/ SecurityStart(s) \/ SecurityEnable(s) \/ SecurityCancel(s) \/ SecurityDisable(s)
  \/ \E x \in live : RevokeSession(s, x)
  \/ \E k \in Tokens : TokenCreate(s, k) \/ TokenRevoke(s, k)

Process ==
  \/ (\E n \in YamlUsers : ImportPassword(n)) \/ ImportUsers \/ Load \/ Kill
  \/ \E t \in Threads : Handler(t)
  \/ \E c \in pending : PendingExpires(c)

Next ==
  \/ Process /\ UNCHANGED requests
  \/ /\ requests < MaxRequests /\ requests' = requests + 1
     /\ (\E t \in Threads : Request(t)) \/ (\E s \in live : Alone(s))

Spec == Init /\ [][Next]_vars

-----------------------------------------------------------------------------
(* A name that is deleted and created again is another person's: no        *)
(* session of the former holder works for the new one, whatever part of    *)
(* the clean-up failed or was cut (_forget_account_traces).                *)
NoInheritance ==
  \A s \in live : Exists(owner[s]) => proof[s].holder = holder[owner[s]]

(* What was answered as disconnected stays so, over restarts too: sessions *)
(* and tokens that were revoked and, after a change of password, every     *)
(* session that proved itself with an older one.  A second factor entered  *)
(* for a password accepted before the change is the exception.             *)
DisconnectedStaysOut ==
  /\ live \cap gone = {} /\ \A k \in Tokens : Resolves(k) => k \notin gone
  /\ \A s \in live : proof[s].second \/ proof[s].pw >= changed[owner[s]]

(* Between two requests memory and files agree: a restart changes neither  *)
(* the accounts nor the sessions.                                          *)
RestartChangesNothing ==
  boot = "up" /\ (\A t \in Threads : job[t] = Idle)
    => users = usersFile /\ live \ aged = filed \ aged
=============================================================================
