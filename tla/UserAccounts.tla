---------------------------- MODULE UserAccounts ----------------------------
(***************************************************************************)
(* The users table and the services that write it: UsersService, the desk  *)
(* of the System Administrator, and AuthService with its login, lockout,   *)
(* refresh rotation and logout.  A handler keeps what it read across the   *)
(* awaits of bcrypt and writes columns computed from it afterwards.        *)
(*                                                                         *)
(* Names, offices and password texts decide nothing here and are left out, *)
(* as is the audit entry each handler appends after its last write.  A     *)
(* right or wrong password is an input.                                    *)
(***************************************************************************)
EXTENDS Integers, AimrsVocabulary

CONSTANTS
  Users,         \* user ids
  Calls,         \* slots in which a request is served
  None,          \* SQL NULL, no cookie, no token
  MaxAttempts,   \* SystemConfigService.getMaxLoginAttempts()
  MaxVersion, MaxFailed, MaxTokens   \* bounds

ASSUME AccountAssumption ==
  /\ None \notin Users \cup UserRole
  /\ None \notin Nat
  /\ MaxAttempts \in Nat \ {0}
  /\ {MaxVersion, MaxFailed, MaxTokens} \subseteq Nat

VARIABLES
  account,   \* table users
  call,      \* [Calls -> the handler in the slot, between two awaits]
  minted,    \* refresh tokens made so far; a token is its number
  epoch,     \* history: logins, resets and revocations so far
  missed,    \* history: wrong passwords since the counter was cleared
  raced      \* history: accounts with two overlapping handlers that count

accountVars == <<account, call, minted, epoch, missed, raced>>

-----------------------------------------------------------------------------
Account ==
  [role: UserRole \cup {None},           \* None: no such account
   active: BOOLEAN,
   version: 0..MaxVersion,               \* token_version
   failed: 0..MaxFailed,                 \* failed_login_attempts
   locked: BOOLEAN,                      \* locked_until is in the future
   refresh: 1..MaxTokens \cup {None},    \* refresh_token_hash
   lapsed: BOOLEAN,                      \* refresh_token_expires_at is past
   alternate: Users \cup {None},
   away: BOOLEAN]                        \* unavailable, and its end date

NoAccount ==
  [role |-> None, active |-> FALSE, version |-> 0, failed |-> 0,
   locked |-> FALSE, refresh |-> None, lapsed |-> FALSE, alternate |-> None,
   away |-> FALSE]

(* An access token: whose it is, the version it carries, and when that was *)
(* read.                                                                   *)
Tokens == [user: Users, version: 0..MaxVersion, epoch: Nat]

ASSUME TokenAssumption == None \notin Tokens

Idle ==
  [at |-> "idle", op |-> None, user |-> None, copy |-> NoAccount, epoch |-> 0,
   arg |-> None, token |-> None, cookie |-> None, result |-> None]

(* The handlers that count from what they read: attempts, or the version.  *)
Counting == {"login", "reset", "revoke", "unlock", "activate"}

AtWork(u) ==
  {c \in Calls : call[c].user = u /\ call[c].op \in Counting
                 /\ call[c].at \in {"compare", "write"}}

Overlap(u) == \E c, d \in AtWork(u) : c # d

(* Handlers begin, and may meet others on their account.                   *)
Meet == raced' = raced \cup {u \in Users : Overlap(u)'}

Goto(c, at) == call' = [call EXCEPT ![c].at = at]

(* The handler returns, or throws; what it read is gone.                   *)
Answer(c, result) ==
  [Idle EXCEPT !.at = "reply", !.op = call[c].op, !.user = call[c].user,
     !.result = result]

Reply(c, result) == call' = [call EXCEPT ![c] = Answer(c, result)]

(* What JwtStrategy and RolesGuard let pass: an access token of an active  *)
(* account that carries the account's present version.                     *)
Accepted(token) ==
  /\ token # None
  /\ account[token.user].active
  /\ token.version = account[token.user].version

-----------------------------------------------------------------------------
(* The columns each UPDATE writes.  r is the row as it is, c as it was     *)
(* read, x the argument.                                                   *)
Created(r, x) == [NoAccount EXCEPT !.role = x, !.active = TRUE]

UpdatedWholeRow(r, c, x) ==   \* mutant: save() of the row that was read
  [c EXCEPT !.alternate = x.alternate, !.away = x.away]

Updated(r, c, x) == [r EXCEPT !.alternate = x.alternate, !.away = x.away]

Availability(r, x) == [r EXCEPT !.away = x]

RoleAssigned(r, x) == [r EXCEPT !.role = x]

PasswordReset(r, c) ==
  [r EXCEPT !.failed = 0, !.locked = FALSE, !.version = c.version + 1]

Unlocked(r, c) == [r EXCEPT !.failed = 0, !.locked = FALSE]

SessionsRevoked(r, c) == [r EXCEPT !.version = c.version + 1]

Deactivated(r) == [r EXCEPT !.active = FALSE]

Activated(r) == [r EXCEPT !.active = TRUE, !.failed = 0, !.locked = FALSE]

Written(op, r, c, x) ==
  CASE op = "create"     -> Created(r, x)
    [] op = "update"     -> Updated(r, c, x)
    [] op = "available"  -> Availability(r, x)
    [] op = "role"       -> RoleAssigned(r, x)
    [] op = "reset"      -> PasswordReset(r, c)
    [] op = "unlock"     -> Unlocked(r, c)
    [] op = "revoke"     -> SessionsRevoked(r, c)
    [] op = "deactivate" -> Deactivated(r)
    [] op = "activate"   -> Activated(r)

(* The checks on the row read, before the write.                           *)
MayBeginUnchecked(op, u, x) ==   \* mutant: the alternate is not compared
  LET r == account[u] IN
  /\ op # "create" => r.role # None
  /\ op = "update" => r.role = "supervisor"
  /\ op = "deactivate" => r.active
  /\ op = "activate" => ~r.active
  /\ op \in {"reset", "revoke"} => r.version < MaxVersion

MayBegin(op, u, x) ==
  LET r == account[u] IN
  /\ op # "create" => r.role # None
  /\ op = "update" => /\ r.role = "supervisor"
                      /\ x.alternate # u
  /\ op = "available" => r.role \in {"supervisor", "system_admin"}
  /\ op = "deactivate" => r.active
  /\ op = "activate" => ~r.active
  /\ op \in {"reset", "revoke"} => r.version < MaxVersion

DeskWork ==
  [create |-> UserRole, role |-> UserRole, available |-> BOOLEAN,
   update |-> [alternate: Users \cup {None}, away: BOOLEAN],
   reset |-> {None}, unlock |-> {None}, revoke |-> {None},
   deactivate |-> {None}, activate |-> {None}]

(* A handler of UsersService reads its account.                            *)
Begin(c, op, u, x) ==
  /\ call[c].at = "idle"
  /\ MayBegin(op, u, x)
  /\ call' = [call EXCEPT ![c] =
                [Idle EXCEPT !.op = op, !.user = u, !.arg = x,
                   !.copy = account[u], !.epoch = epoch[u],
                   !.at = IF op = "update" THEN "alternate" ELSE "write"]]
  /\ Meet
  /\ UNCHANGED <<account, minted, epoch, missed>>

(* update() reads the alternate's account.                                 *)
ReadAlternate(c) ==
  LET a == call[c].arg.alternate IN
  /\ call[c].at = "alternate"
  /\ IF a = None \/ (account[a].active /\ account[a].role = "supervisor")
     THEN Goto(c, "write")
     ELSE call' = [call EXCEPT ![c] = Idle]
  /\ UNCHANGED <<account, minted, epoch, missed, raced>>

(* The UPDATE, or the INSERT, which fails on an employee id in use.        *)
Write(c) ==
  LET u == call[c].user
      op == call[c].op IN
  /\ call[c].at = "write"
  /\ IF op = "create" /\ account[u].role # None
     THEN UNCHANGED account
     ELSE account' = [account EXCEPT ![u] =
                        Written(op, @, call[c].copy, call[c].arg)]
  /\ call' = [call EXCEPT ![c] = Idle]
  /\ epoch' = [epoch EXCEPT ![u] = IF op \in {"reset", "revoke"} THEN @ + 1 ELSE @]
  /\ missed' = [missed EXCEPT ![u] =
                  IF op \in {"reset", "unlock", "activate"} THEN 0 ELSE @]
  /\ UNCHANGED <<minted, raced>>

-----------------------------------------------------------------------------
(***************************************************************************)
(* login(): the account is read, and a locked one refused; bcrypt          *)
(* compares; a wrong password counts, a right one signs the user in.       *)
(***************************************************************************)
LoginEntry(u, right) ==
  LET seen == [Idle EXCEPT !.op = "login", !.user = u, !.arg = right] IN
  IF account[u].role = None
  THEN [seen EXCEPT !.at = "reply", !.result = "unauthorized"]
  ELSE IF account[u].locked
  THEN [seen EXCEPT !.at = "reply", !.result = "refused"]
  ELSE [seen EXCEPT !.at = "compare", !.copy = account[u], !.epoch = epoch[u]]

Attempt(r, c) ==
  LET attempts == c.failed + 1 IN
  [r EXCEPT !.failed = attempts, !.locked = attempts >= MaxAttempts]

RefuseLogin(c) ==
  LET u == call[c].user IN
  /\ call[c].at = "compare" /\ ~call[c].arg
  /\ call[c].copy.failed < MaxFailed
  /\ account' = [account EXCEPT ![u] = Attempt(@, call[c].copy)]
  /\ Reply(c, IF account'[u].locked THEN "refused" ELSE "unauthorized")
  /\ missed' = [missed EXCEPT ![u] = @ + 1]
  /\ UNCHANGED <<minted, epoch, raced>>

SignedInBeside(r, c) ==   \* mutant: earlier sessions live on
  [r EXCEPT !.failed = 0, !.locked = FALSE]

SignedIn(r, c) ==
  [r EXCEPT !.failed = 0, !.locked = FALSE, !.version = c.version + 1]

AcceptLogin(c) ==
  LET u == call[c].user
      version == call[c].copy.version + 1 IN
  /\ call[c].copy.version < MaxVersion
  /\ call[c].at = "compare" /\ call[c].arg
  /\ IF ~call[c].copy.active
     THEN Reply(c, "refused") /\ UNCHANGED <<account, epoch, missed>>
     ELSE /\ account' = [account EXCEPT ![u] = SignedIn(@, call[c].copy)]
          /\ epoch' = [epoch EXCEPT ![u] = @ + 1]
          /\ missed' = [missed EXCEPT ![u] = 0]
          /\ call' = [call EXCEPT ![c].at = "store", ![c].copy = NoAccount,
                        ![c].token = [user |-> u, version |-> version,
                                      epoch |-> epoch'[u]]]
  /\ UNCHANGED <<minted, raced>>

(* generateRefreshToken(), after its bcrypt: the hash, then the cookie.    *)
Stored(r, id) == [r EXCEPT !.refresh = id, !.lapsed = FALSE]

StoreRefresh(c) ==
  LET u == call[c].user IN
  /\ call[c].at = "store"
  /\ minted < MaxTokens
  /\ minted' = minted + 1
  /\ account' = [account EXCEPT ![u] = Stored(@, minted')]
  /\ call' = [call EXCEPT ![c] = [Answer(c, "ok") EXCEPT !.token = call[c].token,
                                    !.cookie = minted']]
  /\ UNCHANGED <<epoch, missed, raced>>

(***************************************************************************)
(* rotateRefreshToken(): a cookie that does not match ends the session for *)
(* whoever holds the matching one; the access token carries the version    *)
(* that was read at the start.                                             *)
(***************************************************************************)
RefreshEntry(cookie) ==
  LET u == cookie.user
      asked == [Idle EXCEPT !.at = "reply", !.op = "refresh",
                  !.result = "unauthorized"] IN
  IF cookie = None THEN asked
  ELSE IF account[u].refresh = None \/ account[u].lapsed
  THEN [asked EXCEPT !.user = u]
  ELSE [Idle EXCEPT !.at = "match", !.op = "refresh", !.user = u,
          !.arg = cookie.id, !.copy = account[u], !.epoch = epoch[u]]

Refresh(c, cookie) ==
  /\ call' = [call EXCEPT ![c] = RefreshEntry(cookie)]
  /\ UNCHANGED <<account, minted, epoch, missed, raced>>

(* The hash and its expiry are set to NULL.                                *)
DroppedLapse(r) == [r EXCEPT !.lapsed = FALSE]   \* mutant: the hash stays

Dropped(r) == [r EXCEPT !.refresh = None, !.lapsed = FALSE]

DropReused(c) ==
  /\ call[c].at = "match" /\ call[c].arg # call[c].copy.refresh
  /\ account' = [account EXCEPT ![call[c].user] = Dropped(@)]
  /\ Reply(c, "unauthorized")
  /\ UNCHANGED <<minted, epoch, missed, raced>>

Rotate(c) ==
  /\ call[c].at = "match" /\ call[c].arg = call[c].copy.refresh
  /\ call' = [call EXCEPT ![c].at = "store", ![c].copy = NoAccount,
                ![c].token = [user |-> call[c].user,
                              version |-> call[c].copy.version,
                              epoch |-> call[c].epoch]]
  /\ UNCHANGED <<account, minted, epoch, missed, raced>>

(* A route behind the guards: logout, or any other.                        *)
GuardedEntry(op, token) ==
  [Idle EXCEPT !.at = "guard", !.op = op, !.user = token.user, !.token = token]

Guard(c) ==
  /\ call[c].at = "guard"
  /\ IF ~Accepted(call[c].token)
     THEN Reply(c, "unauthorized")
     ELSE IF call[c].op = "logout" THEN Goto(c, "drop") ELSE Reply(c, "ok")
  /\ UNCHANGED <<account, minted, epoch, missed, raced>>

Logout(c) ==
  /\ call[c].at = "drop"
  /\ account' = [account EXCEPT ![call[c].user] = Dropped(@)]
  /\ Reply(c, "ok")
  /\ UNCHANGED <<minted, epoch, missed, raced>>

(* An await throws, or the answer is lost on its way.                      *)
Fails(c) ==
  /\ call[c].at # "idle" /\ call[c].op \notin DOMAIN DeskWork
  /\ call[c].result # "refused"
  /\ Reply(c, "refused")
  /\ UNCHANGED <<account, minted, epoch, missed, raced>>

-----------------------------------------------------------------------------
(* The thirty minutes of a lock, and the seven days of a refresh token.    *)
TimePasses(u) ==
  /\ \/ /\ account[u].locked
        /\ account' = [account EXCEPT ![u].locked = FALSE]
     \/ /\ account[u].refresh # None /\ ~account[u].lapsed
        /\ account' = [account EXCEPT ![u].lapsed = TRUE]
  /\ UNCHANGED <<call, minted, epoch, missed, raced>>

AccountInit(table) ==
  /\ account = table
  /\ call = [c \in Calls |-> Idle]
  /\ minted = 0
  /\ epoch = [u \in Users |-> 0]
  /\ missed = [u \in Users |-> 0]
  /\ raced = {}

Serve(c) ==
  \/ ReadAlternate(c) \/ Write(c)
  \/ RefuseLogin(c) \/ AcceptLogin(c) \/ StoreRefresh(c)
  \/ DropReused(c) \/ Rotate(c) \/ Guard(c) \/ Logout(c)

-----------------------------------------------------------------------------
(* The table and the handlers keep their types; nobody is their own        *)
(* alternate, whatever PATCHes overlap.                                    *)
AccountTypeOK ==
  /\ account \in [Users -> Account]
  /\ minted \in 0..MaxTokens
  /\ \A u \in Users : account[u].alternate # u
  /\ \A c \in Calls :
       /\ call[c].copy \in Account
       /\ call[c].token = None \/ call[c].token \in Tokens
       /\ call[c].cookie \in 1..MaxTokens \cup {None}

(***************************************************************************)
(* The column counts the wrong passwords there have been, and a lock means *)
(* that there were as many as the settings allow: through resets, unlocks, *)
(* reactivations and edits of the account, also those that overlap a       *)
(* sign-in, unless two handlers that count overlap on the account.         *)
(***************************************************************************)
AttemptsCounted ==
  \A u \in Users \ raced :
    /\ account[u].failed = missed[u]
    /\ account[u].locked => missed[u] >= MaxAttempts
=============================================================================
