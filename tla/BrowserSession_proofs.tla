------------------------ MODULE BrowserSession_proofs ------------------------
(***************************************************************************)
(* Theorems about BrowserSession and the UserAccounts under it, for any    *)
(* number of users, browsers, tabs, requests and administrators, who all   *)
(* may work on the same accounts at the same time.                         *)
(***************************************************************************)
EXTENDS BrowserSession, FiniteSetTheorems, TLAPS

-----------------------------------------------------------------------------
(* The handlers, the cookies and the requests there can be.                *)
DeskOps == {"create", "role", "available", "update", "reset", "unlock",
            "revoke", "deactivate", "activate"}

Args == UserRole \cup BOOLEAN \cup Nat \cup {None}
          \cup [alternate: Users \cup {None}, away: BOOLEAN]

Handler ==
  [at: {"idle", "alternate", "write", "compare", "store", "match", "guard",
        "drop", "reply"},
   op: DeskOps \cup {"login", "refresh", "get", "logout", None},
   user: Users \cup {None}, copy: Account, epoch: Nat, arg: Args,
   token: Tokens \cup {None}, cookie: 1..MaxTokens \cup {None},
   result: {"ok", "unauthorized", "refused", None}]

Cookie == [user: Users, id: 1..MaxTokens]

Request ==
  [kind: {"get", "login", "logout"}, at: {"idle", "sent", "queued", "leading"},
   retried: BOOLEAN, user: Users \cup {None}, right: BOOLEAN]

(* What a handler's await says of it.                                      *)
HandlerOK(h) ==
  /\ h.token # None => h.token.user = h.user
  /\ h.at = "idle" => h.user = None
  /\ h.at \in {"alternate", "write"} =>
       /\ h.user \in Users /\ h.op \in DeskOps /\ h.arg \in DeskWork[h.op]
       /\ h.op = "update" => h.arg.alternate # h.user
       /\ h.op \in {"reset", "revoke"} => h.copy.version < MaxVersion
       /\ h.token = None
  /\ h.at = "alternate" => h.op = "update"
  /\ h.at = "compare" => h.user \in Users /\ h.op = "login" /\ h.arg \in BOOLEAN
  /\ h.at = "store" => /\ h.user \in Users /\ h.op \in {"login", "refresh"}
                       /\ h.token # None
  /\ h.at = "match" => /\ h.user \in Users /\ h.op = "refresh"
                       /\ h.arg \in 1..MaxTokens
  /\ h.at = "guard" => /\ h.user \in Users /\ h.op \in {"get", "logout"}
                       /\ h.token # None
  /\ h.at = "drop" => h.user \in Users /\ h.op = "logout"
  /\ h.at = "reply" =>
       /\ h.op \in {"get", "logout", "login", "refresh"}
       /\ h.result \in {"ok", "unauthorized", "refused"}
       /\ h.op # "refresh" => h.user \in Users
       /\ h.result = "ok" /\ h.op \in {"login", "refresh"} => h.token # None
  /\ h.cookie # None =>
       /\ h.at = "reply" /\ h.result = "ok" /\ h.op \in {"login", "refresh"}

(* Administrators work in slots of their own.                              *)
InPlace(c, h) ==
  IF c \in Desks THEN h.at \in {"idle", "alternate", "write"}
                 ELSE h.at \notin {"alternate", "write"}

(* Of an account that is not there, no session is.                         *)
NoTrace(u, h) == h.user = u => /\ h.token = None
                               /\ h.op = "create" \/ h.at = "reply"

Vacant(u) ==
  account[u].role = None =>
    /\ account[u] = NoAccount /\ missed[u] = 0
    /\ \A t \in Tabs : token[t] # None => token[t].user # u
    /\ \A c \in Calls : NoTrace(u, call[c])

AccountsOK ==
  /\ account \in [Users -> Account]
  /\ minted \in 0..MaxTokens
  /\ epoch \in [Users -> Nat] /\ missed \in [Users -> Nat]
  /\ raced \subseteq Users
  /\ \A u \in Users : account[u].alternate # u

CallsOK ==
  /\ call \in [Calls -> Handler]
  /\ \A c \in Calls : HandlerOK(call[c]) /\ InPlace(c, call[c])

BrowsersOK ==
  /\ home \in [Tabs -> Browsers]
  /\ jar \in [Browsers -> Cookie \cup {None}]
  /\ token \in [Tabs -> Tokens \cup {None}]
  /\ refreshing \in [Tabs -> BOOLEAN]
  /\ req \in [Requests -> Request]
  /\ \A x \in Requests : req[x].kind = "login" => req[x].user \in Users
  /\ keeper \in [Users -> Browsers \cup {None}]
  /\ strained \subseteq Users

SessionInv == AccountsOK /\ CallsOK /\ BrowsersOK /\ \A u \in Users : Vacant(u)

(* The table the system is put to work with: nobody has tried a password,  *)
(* nobody is signed in, and nobody is their own alternate.                 *)
FreshTable(table) ==
  /\ table \in [Users -> Account]
  /\ \A u \in Users :
       /\ table[u].alternate # u /\ table[u].failed = 0 /\ ~table[u].locked
       /\ table[u].refresh = None
       /\ table[u].role = None => table[u] = NoAccount

-----------------------------------------------------------------------------
(* Types of what the handlers are made of.                                 *)
LEMMA ConstantFacts ==
  /\ None \notin Users /\ None \notin UserRole /\ None \notin Nat
  /\ MaxAttempts \in Nat \ {0} /\ MaxVersion \in Nat /\ MaxFailed \in Nat
  /\ MaxTokens \in Nat
  /\ None \notin Browsers
  /\ Calls = Tabs \cup Requests \cup Desks /\ Tabs \cap Requests = {}
  /\ (Tabs \cup Requests) \cap Desks = {} /\ Sender \in [Requests -> Tabs]
BY AccountAssumption, SessionAssumption DEF AccountAssumption, SessionAssumption

LEMMA DeskOpsAre ==
  /\ DOMAIN DeskWork = DeskOps
  /\ \A op \in DeskOps : \A x \in DeskWork[op] : x \in Args
  /\ DeskWork["update"] = [alternate: Users \cup {None}, away: BOOLEAN]
  /\ DeskWork["create"] = UserRole /\ DeskWork["role"] = UserRole
  /\ DeskWork["available"] = BOOLEAN
<1>1. DOMAIN DeskWork = DeskOps
  BY DEF DeskWork, DeskOps
<1>2. /\ DeskWork["update"] = [alternate: Users \cup {None}, away: BOOLEAN]
      /\ DeskWork["create"] = UserRole /\ DeskWork["role"] = UserRole
      /\ DeskWork["available"] = BOOLEAN
  BY DEF DeskWork
<1>3. \A op \in {"reset", "unlock", "revoke", "deactivate", "activate"} :
        DeskWork[op] = {None}
  BY DEF DeskWork
<1> QED
  BY <1>1, <1>2, <1>3 DEF DeskOps, Args

LEMMA IdleTyped ==
  /\ NoAccount \in Account /\ Idle \in Handler
  /\ NoAccount.role = None /\ NoAccount.refresh = None /\ NoAccount.failed = 0
  /\ ~NoAccount.locked /\ NoAccount.alternate = None
  /\ HandlerOK(Idle) /\ Idle.at = "idle" /\ Idle.user = None /\ Idle.token = None
  /\ Idle.cookie = None
<1>1. NoAccount \in Account
  BY ConstantFacts DEF NoAccount, Account
<1>2. Idle \in Handler
  BY <1>1 DEF Idle, Handler, Args
<1> QED
  BY <1>1, <1>2 DEF Idle, NoAccount, HandlerOK

(* What the UPDATEs write is an account, and which columns they keep.      *)
LEMMA WrittenIs ==
  ASSUME NEW op \in DeskOps, NEW r \in Account, NEW c \in Account,
         NEW x \in DeskWork[op],
         op \in {"reset", "revoke"} => c.version < MaxVersion
  PROVE  /\ Written(op, r, c, x) \in Account
         /\ op = "create" => Written(op, r, c, x).role # None
         /\ r.role # None => Written(op, r, c, x).role # None
         /\ op \in {"create", "update"} \/ Written(op, r, c, x).alternate = r.alternate
         /\ op = "update" => Written(op, r, c, x).alternate = x.alternate
         /\ op = "create" => /\ Written(op, r, c, x).alternate = None
                             /\ Written(op, r, c, x).refresh = None
                             /\ Written(op, r, c, x).failed = 0
                             /\ ~Written(op, r, c, x).locked
         /\ op # "create" => Written(op, r, c, x).refresh = r.refresh
         /\ op \in {"reset", "unlock", "activate"} =>
              /\ Written(op, r, c, x).failed = 0
              /\ ~Written(op, r, c, x).locked
         /\ op \in {"update", "available", "role", "revoke", "deactivate"} =>
              /\ Written(op, r, c, x).failed = r.failed
              /\ Written(op, r, c, x).locked = r.locked
         /\ op \in {"reset", "revoke"} =>
              Written(op, r, c, x).version = c.version + 1
         /\ op \notin {"create", "reset", "revoke"} =>
              Written(op, r, c, x).version = r.version
<1>0. /\ MaxVersion \in Nat /\ MaxFailed \in Nat /\ None \notin UserRole
      /\ NoAccount \in Account /\ NoAccount.alternate = None
      /\ NoAccount.refresh = None /\ NoAccount.failed = 0 /\ ~NoAccount.locked
  BY ConstantFacts, IdleTyped
<1>1. CASE op = "create"
  <2>1. x \in UserRole
    BY <1>1, DeskOpsAre
  <2>2. Written(op, r, c, x) = [NoAccount EXCEPT !.role = x, !.active = TRUE]
    BY <1>1 DEF Written, Created
  <2> QED
    BY <1>0, <1>1, <2>1, <2>2 DEF Account
<1>2. CASE op = "update"
  <2>1. x \in [alternate: Users \cup {None}, away: BOOLEAN]
    BY <1>2, DeskOpsAre
  <2>2. Written(op, r, c, x) =
          [r EXCEPT !.alternate = x.alternate, !.away = x.away]
    BY <1>2 DEF Written, Updated
  <2> QED
    BY <1>0, <1>2, <2>1, <2>2 DEF Account
<1>3. CASE op = "available"
  <2>1. x \in BOOLEAN /\ Written(op, r, c, x) = [r EXCEPT !.away = x]
    BY <1>3, DeskOpsAre DEF Written, Availability
  <2> QED
    BY <1>0, <1>3, <2>1 DEF Account
<1>4. CASE op = "role"
  <2>1. x \in UserRole /\ Written(op, r, c, x) = [r EXCEPT !.role = x]
    BY <1>4, DeskOpsAre DEF Written, RoleAssigned
  <2> QED
    BY <1>0, <1>4, <2>1 DEF Account
<1>5. CASE op = "reset"
  <2>1. Written(op, r, c, x) = [r EXCEPT !.failed = 0, !.locked = FALSE,
                                         !.version = c.version + 1]
    BY <1>5 DEF Written, PasswordReset
  <2>2. c.version + 1 \in 0..MaxVersion
    BY <1>0, <1>5 DEF Account
  <2> QED
    BY <1>0, <1>5, <2>1, <2>2 DEF Account
<1>6. CASE op = "unlock"
  <2>1. Written(op, r, c, x) = [r EXCEPT !.failed = 0, !.locked = FALSE]
    BY <1>6 DEF Written, Unlocked
  <2> QED
    BY <1>0, <1>6, <2>1 DEF Account
<1>7. CASE op = "revoke"
  <2>1. Written(op, r, c, x) = [r EXCEPT !.version = c.version + 1]
    BY <1>7 DEF Written, SessionsRevoked
  <2>2. c.version + 1 \in 0..MaxVersion
    BY <1>0, <1>7 DEF Account
  <2> QED
    BY <1>0, <1>7, <2>1, <2>2 DEF Account
<1>8. CASE op = "deactivate"
  <2>1. Written(op, r, c, x) = [r EXCEPT !.active = FALSE]
    BY <1>8 DEF Written, Deactivated
  <2> QED
    BY <1>0, <1>8, <2>1 DEF Account
<1>9. CASE op = "activate"
  <2>1. Written(op, r, c, x) =
          [r EXCEPT !.active = TRUE, !.failed = 0, !.locked = FALSE]
    BY <1>9 DEF Written, Activated
  <2> QED
    BY <1>0, <1>9, <2>1 DEF Account
<1> QED
  BY <1>1, <1>2, <1>3, <1>4, <1>5, <1>6, <1>7, <1>8, <1>9 DEF DeskOps

LEMMA WrittenRow ==
  ASSUME NEW op \in DeskOps, NEW r \in Account, NEW c \in Account,
         NEW x \in DeskWork[op], NEW u \in Users,
         op \in {"reset", "revoke"} => c.version < MaxVersion,
         op # "create" => r.role # None, r.alternate # u,
         op = "update" => x.alternate # u
  PROVE  /\ Written(op, r, c, x) \in Account
         /\ Written(op, r, c, x).role # None
         /\ Written(op, r, c, x).alternate # u
<1> DEFINE w == Written(op, r, c, x)
<1>1. /\ w \in Account
      /\ op = "create" => w.role # None
      /\ r.role # None => w.role # None
      /\ op \in {"create", "update"} \/ w.alternate = r.alternate
      /\ op = "update" => w.alternate = x.alternate
      /\ op = "create" => w.alternate = None
  BY WrittenIs
<1> HIDE DEF w
<1>2. w.role # None /\ w.alternate # u
  BY <1>1, ConstantFacts
<1> QED
  BY <1>1, <1>2 DEF w

LEMMA AttemptIs ==
  ASSUME NEW r \in Account, NEW c \in Account, c.failed < MaxFailed
  PROVE  /\ Attempt(r, c) \in Account /\ Attempt(r, c).role = r.role
         /\ Attempt(r, c).alternate = r.alternate
         /\ Attempt(r, c).failed = c.failed + 1
         /\ Attempt(r, c).locked <=> c.failed + 1 >= MaxAttempts
         /\ Attempt(r, c).version = r.version
         /\ Attempt(r, c).refresh = r.refresh
<1>1. c.failed + 1 \in 0..MaxFailed
  BY ConstantFacts DEF Account
<1>2. Attempt(r, c) = [r EXCEPT !.failed = c.failed + 1,
                                !.locked = (c.failed + 1 >= MaxAttempts)]
  BY DEF Attempt
<1>3. (c.failed + 1 >= MaxAttempts) \in BOOLEAN
  OBVIOUS
<1> QED
  BY <1>1, <1>2, <1>3 DEF Account

LEMMA SignedInIs ==
  ASSUME NEW r \in Account, NEW c \in Account, c.version < MaxVersion
  PROVE  /\ SignedIn(r, c) \in Account /\ SignedIn(r, c).role = r.role
         /\ SignedIn(r, c).alternate = r.alternate
         /\ SignedIn(r, c).failed = 0 /\ ~SignedIn(r, c).locked
         /\ SignedIn(r, c).version = c.version + 1
         /\ SignedIn(r, c).refresh = r.refresh
<1>1. c.version + 1 \in 0..MaxVersion /\ 0 \in 0..MaxFailed
  BY ConstantFacts DEF Account
<1> QED
  BY <1>1 DEF SignedIn, Account

LEMMA StoredIs ==
  ASSUME NEW r \in Account, NEW id \in 1..MaxTokens
  PROVE  /\ Stored(r, id) \in Account /\ Stored(r, id).role = r.role
         /\ Stored(r, id).alternate = r.alternate
         /\ Stored(r, id).failed = r.failed
         /\ Stored(r, id).locked = r.locked
         /\ Stored(r, id).version = r.version
         /\ Stored(r, id).refresh = id
BY DEF Stored, Account

LEMMA DroppedIs ==
  ASSUME NEW r \in Account
  PROVE  /\ Dropped(r) \in Account /\ Dropped(r).role = r.role
         /\ Dropped(r).alternate = r.alternate
         /\ Dropped(r).failed = r.failed /\ Dropped(r).locked = r.locked
         /\ Dropped(r).version = r.version /\ Dropped(r).refresh = None
BY DEF Dropped, Account

(* The handlers that begin, and the answers.                               *)
LEMMA LoginEntryOK ==
  ASSUME AccountsOK, NEW u \in Users, NEW right \in BOOLEAN
  PROVE  /\ LoginEntry(u, right) \in Handler /\ HandlerOK(LoginEntry(u, right))
         /\ LoginEntry(u, right).at \in {"compare", "reply"}
         /\ LoginEntry(u, right).user = u /\ LoginEntry(u, right).op = "login"
         /\ LoginEntry(u, right).token = None
         /\ LoginEntry(u, right).cookie = None
         /\ LoginEntry(u, right).at = "compare" =>
              /\ LoginEntry(u, right).copy = account[u] /\ account[u].role # None
<1>1. account[u] \in Account /\ epoch[u] \in Nat /\ right \in Args
  BY DEF AccountsOK, Args
<1>2. CASE account[u].role = None
  <2>1. LoginEntry(u, right) =
          [Idle EXCEPT !.op = "login", !.user = u, !.arg = right,
             !.at = "reply", !.result = "unauthorized"]
    BY <1>2 DEF LoginEntry, Idle
  <2> QED
    BY ZenonT(60), <1>1, <2>1, IdleTyped DEF Handler, HandlerOK
<1>3. CASE account[u].role # None /\ account[u].locked
  <2>1. LoginEntry(u, right) =
          [Idle EXCEPT !.op = "login", !.user = u, !.arg = right,
             !.at = "reply", !.result = "refused"]
    BY <1>3 DEF LoginEntry, Idle
  <2> QED
    BY ZenonT(60), <1>1, <2>1, IdleTyped DEF Handler, HandlerOK
<1>4. CASE account[u].role # None /\ ~account[u].locked
  <2>1. LoginEntry(u, right) =
          [Idle EXCEPT !.op = "login", !.user = u, !.arg = right,
             !.at = "compare", !.copy = account[u], !.epoch = epoch[u]]
    BY <1>4 DEF LoginEntry, Idle
  <2> QED
    BY ZenonT(60), <1>1, <1>4, <2>1, IdleTyped DEF Handler, HandlerOK
<1> QED
  BY <1>2, <1>3, <1>4

LEMMA GuardedEntryOK ==
  ASSUME NEW op \in {"get", "logout"}, NEW tok \in Tokens, tok # None
  PROVE  /\ GuardedEntry(op, tok) \in Handler /\ HandlerOK(GuardedEntry(op, tok))
         /\ GuardedEntry(op, tok).at = "guard"
         /\ GuardedEntry(op, tok).user = tok.user
         /\ GuardedEntry(op, tok).op = op
         /\ GuardedEntry(op, tok).token = tok
         /\ GuardedEntry(op, tok).cookie = None
<1>1. tok.user \in Users
  BY DEF Tokens
<1> QED
  BY <1>1, IdleTyped DEF Tokens, GuardedEntry, Handler, HandlerOK

LEMMA RefreshEntryOK ==
  ASSUME AccountsOK, NEW cookie \in Cookie \cup {None}
  PROVE  /\ RefreshEntry(cookie) \in Handler /\ HandlerOK(RefreshEntry(cookie))
         /\ RefreshEntry(cookie).at \in {"match", "reply"}
         /\ RefreshEntry(cookie).user # None =>
              RefreshEntry(cookie).user \in Users
         /\ RefreshEntry(cookie).op = "refresh"
         /\ RefreshEntry(cookie).token = None
         /\ RefreshEntry(cookie).cookie = None
         /\ RefreshEntry(cookie).at = "match" =>
              LET u == RefreshEntry(cookie).user IN
              /\ RefreshEntry(cookie).copy = account[u]
              /\ RefreshEntry(cookie).epoch = epoch[u]
              /\ account[u].refresh # None
<1>1. CASE cookie = None
  <2>1. RefreshEntry(cookie) =
          [Idle EXCEPT !.at = "reply", !.op = "refresh", !.result = "unauthorized"]
    BY <1>1 DEF RefreshEntry
  <2> QED
    BY ZenonT(60), <2>1, IdleTyped DEF Handler, HandlerOK
<1>2. CASE cookie # None
  <2>0. /\ cookie.user \in Users /\ cookie.id \in 1..MaxTokens
        /\ account[cookie.user] \in Account /\ epoch[cookie.user] \in Nat
        /\ cookie.id \in Args /\ cookie.user # None
    BY <1>2, ConstantFacts DEF Cookie, AccountsOK, Args
  <2>1. CASE account[cookie.user].refresh = None \/ account[cookie.user].lapsed
    <3>1. RefreshEntry(cookie) =
            [Idle EXCEPT !.at = "reply", !.op = "refresh", !.user = cookie.user,
               !.result = "unauthorized"]
      BY <1>2, <2>1 DEF RefreshEntry, Idle
    <3> QED
      BY ZenonT(60), <2>0, <3>1, IdleTyped DEF Handler, HandlerOK
  <2>2. CASE ~(account[cookie.user].refresh = None \/ account[cookie.user].lapsed)
    <3>1. RefreshEntry(cookie) =
            [Idle EXCEPT !.at = "match", !.op = "refresh", !.user = cookie.user,
               !.arg = cookie.id, !.copy = account[cookie.user],
               !.epoch = epoch[cookie.user]]
      BY <1>2, <2>2 DEF RefreshEntry
    <3>2. /\ RefreshEntry(cookie).at = "match" /\ RefreshEntry(cookie).op = "refresh"
          /\ RefreshEntry(cookie).user = cookie.user
          /\ RefreshEntry(cookie).arg = cookie.id
          /\ RefreshEntry(cookie).copy = account[cookie.user]
          /\ RefreshEntry(cookie).epoch = epoch[cookie.user]
          /\ RefreshEntry(cookie).token = None
          /\ RefreshEntry(cookie).cookie = None
      BY <3>1, IdleTyped DEF Handler
    <3>3. RefreshEntry(cookie) \in Handler
      BY <2>0, <3>1, IdleTyped DEF Handler
    <3> QED
      BY <2>0, <2>2, <3>2, <3>3 DEF HandlerOK
  <2> QED
    BY <2>1, <2>2
<1> QED
  BY <1>1, <1>2

LEMMA AnswerOK ==
  ASSUME CallsOK, NEW c \in Calls, NEW result \in {"unauthorized", "refused"},
         call[c].op \in {"get", "logout", "login", "refresh"},
         call[c].op # "refresh" => call[c].user \in Users
  PROVE  /\ Answer(c, result) \in Handler /\ HandlerOK(Answer(c, result))
         /\ Answer(c, result).at = "reply" /\ Answer(c, result).token = None
         /\ Answer(c, result).cookie = None
         /\ Answer(c, result).user = call[c].user
         /\ Answer(c, result).op = call[c].op
         /\ Answer(c, result).result = result
<1>1. call[c].user \in Users \cup {None}
  BY DEF CallsOK, Handler
<1>2. Answer(c, result) =
        [Idle EXCEPT !.at = "reply", !.op = call[c].op, !.user = call[c].user,
           !.result = result]
  BY DEF Answer
<1>3. Answer(c, result) \in Handler
  BY <1>1, <1>2, IdleTyped DEF Handler
<1>4. /\ Answer(c, result).at = "reply" /\ Answer(c, result).token = None
      /\ Answer(c, result).cookie = None
      /\ Answer(c, result).user = call[c].user
      /\ Answer(c, result).op = call[c].op
      /\ Answer(c, result).result = result
  BY <1>2, IdleTyped DEF Handler
<1> QED
  BY <1>3, <1>4 DEF HandlerOK

-----------------------------------------------------------------------------
browser == <<home, jar, token, refreshing, req, keeper, strained>>

(* A handler at work has an account that is there.                         *)
LEMMA Present ==
  ASSUME SessionInv, NEW c \in Calls,
         \/ call[c].at \in {"alternate", "compare", "store", "match", "guard", "drop"}
         \/ call[c].at = "write" /\ call[c].op # "create"
  PROVE  /\ call[c].user \in Users /\ account[call[c].user].role # None
         /\ account[call[c].user] \in Account /\ call[c] \in Handler
         /\ HandlerOK(call[c]) /\ InPlace(c, call[c])
         /\ account[call[c].user].alternate # call[c].user
<1>1. call[c] \in Handler /\ HandlerOK(call[c]) /\ InPlace(c, call[c])
  BY DEF SessionInv, CallsOK
<1>2. call[c].user \in Users /\ (call[c].at # "write" => call[c].op # "create")
  BY <1>1 DEF HandlerOK
<1>3. Vacant(call[c].user) /\ AccountsOK
  BY <1>2 DEF SessionInv
<1> QED
  BY <1>1, <1>2, <1>3 DEF Vacant, NoTrace, AccountsOK

(* A step of the server in slot c that leaves the handler h there, and r   *)
(* in its account.                                                         *)
LEMMA ServerKeeps ==
  ASSUME SessionInv, NEW c \in Calls, NEW u \in Users, NEW h \in Handler,
         HandlerOK(h), InPlace(c, h), h.user \in {u, None},
         call' = [call EXCEPT ![c] = h],
         NEW r \in Account, r.role # None, r.alternate # u,
         account' = [account EXCEPT ![u] = r],
         minted' \in 0..MaxTokens,
         epoch' \in [Users -> Nat], missed' \in [Users -> Nat],
         \A v \in Users : v # u => missed'[v] = missed[v],
         UNCHANGED browser, raced' \in SUBSET Users
  PROVE  SessionInv'
<1>0. /\ AccountsOK /\ CallsOK /\ BrowsersOK
      /\ account \in [Users -> Account] /\ call \in [Calls -> Handler]
  BY DEF SessionInv, AccountsOK, CallsOK
<1>1. AccountsOK'
  BY <1>0 DEF AccountsOK
<1>2. CallsOK'
  BY <1>0 DEF CallsOK
<1>3. BrowsersOK'
  BY <1>0 DEF BrowsersOK, browser
<1>4. ASSUME NEW v \in Users
      PROVE  Vacant(v)'
  <2>1. CASE v = u
    BY <1>0, <2>1 DEF Vacant
  <2>2. CASE v # u
    <3>1. /\ Vacant(v) /\ account'[v] = account[v] /\ missed'[v] = missed[v]
          /\ token' = token /\ h.user # v
      BY <1>0, <2>2, ConstantFacts DEF SessionInv, browser
    <3>2. \A d \in Calls : NoTrace(v, call[d]) => NoTrace(v, call'[d])
      BY <1>0, <3>1 DEF NoTrace
    <3> QED
      BY <3>1, <3>2 DEF Vacant
  <2> QED
    BY <2>1, <2>2
<1> QED
  BY <1>1, <1>2, <1>3, <1>4 DEF SessionInv

(* The same for steps that write no account.                               *)
LEMMA HandlerMoves ==
  ASSUME SessionInv, NEW c \in Calls, NEW h \in Handler,
         HandlerOK(h), InPlace(c, h), call' = [call EXCEPT ![c] = h],
         \A u \in Users : account[u].role = None => NoTrace(u, h),
         UNCHANGED <<account, minted, epoch, missed, browser>>,
         raced' \in SUBSET Users
  PROVE  SessionInv'
<1>0. /\ AccountsOK /\ CallsOK /\ BrowsersOK
      /\ account \in [Users -> Account] /\ call \in [Calls -> Handler]
  BY DEF SessionInv, AccountsOK, CallsOK
<1>1. AccountsOK'
  BY <1>0 DEF AccountsOK
<1>2. CallsOK'
  BY <1>0 DEF CallsOK
<1>3. BrowsersOK'
  BY <1>0 DEF BrowsersOK, browser
<1>4. ASSUME NEW v \in Users
      PROVE  Vacant(v)'
  BY <1>0 DEF SessionInv, Vacant, browser
<1> QED
  BY <1>1, <1>2, <1>3, <1>4 DEF SessionInv

LEMMA BeginKeeps ==
  ASSUME SessionInv, NEW c \in Desks, Offline(AtDesk(c))
  PROVE  SessionInv'
<1>0. /\ AccountsOK /\ CallsOK /\ c \in Calls
      /\ UNCHANGED <<account, minted, epoch, missed, browser>>
      /\ raced' \in SUBSET Users
  BY ConstantFacts DEF SessionInv, Offline, AtDesk, Begin, Meet, browser,
     AccountsOK
<1>1. PICK op \in DeskOps, u \in Users : \E x \in DeskWork[op] : Begin(c, op, u, x)
  BY DeskOpsAre DEF Offline, AtDesk
<1>2. PICK x \in DeskWork[op] : Begin(c, op, u, x)
  BY <1>1
<1> DEFINE h == [Idle EXCEPT !.op = op, !.user = u, !.arg = x,
                   !.copy = account[u], !.epoch = epoch[u],
                   !.at = IF op = "update" THEN "alternate" ELSE "write"]
<1>3. call' = [call EXCEPT ![c] = h] /\ MayBegin(op, u, x)
  BY <1>2 DEF Begin, Idle
<1>4. /\ account[u] \in Account /\ epoch[u] \in Nat /\ x \in Args
      /\ op = "update" => x.alternate # u
      /\ op # "create" => account[u].role # None
      /\ op \in {"reset", "revoke"} => account[u].version < MaxVersion
  BY <1>0, <1>3, DeskOpsAre DEF MayBegin, AccountsOK
<1>5. /\ h.op = op /\ h.user = u /\ h.arg = x /\ h.copy = account[u]
      /\ h.at \in {"alternate", "write"} /\ (h.at = "alternate" => op = "update")
      /\ h.token = None /\ h.cookie = None
  BY IdleTyped DEF Handler
<1>6. h \in Handler
  BY ZenonT(60), <1>4, IdleTyped DEF Handler
<1>7. HandlerOK(h) /\ InPlace(c, h)
  BY <1>4, <1>5 DEF HandlerOK, InPlace
<1>8. \A v \in Users : account[v].role = None => NoTrace(v, h)
  BY <1>4, <1>5 DEF NoTrace
<1> HIDE DEF h
<1> QED
  BY <1>0, <1>3, <1>6, <1>7, <1>8, HandlerMoves

LEMMA WriteKeeps ==
  ASSUME SessionInv, NEW c \in Calls, Write(c), UNCHANGED browser
  PROVE  SessionInv'
<1> DEFINE u == call[c].user
           op == call[c].op
           k == call[c].copy
           x == call[c].arg
           r == Written(op, account[u], k, x)
<1>0. /\ AccountsOK /\ CallsOK /\ call[c] \in Handler /\ HandlerOK(call[c])
      /\ call[c].at = "write" /\ InPlace(c, call[c])
  BY DEF SessionInv, CallsOK, Write
<1>1. /\ u \in Users /\ op \in DeskOps /\ call[c].arg \in DeskWork[op]
      /\ op = "update" => call[c].arg.alternate # u
      /\ op \in {"reset", "revoke"} => call[c].copy.version < MaxVersion
      /\ call[c].copy \in Account /\ account[u] \in Account
      /\ account[u].alternate # u
  BY <1>0 DEF HandlerOK, Handler, AccountsOK
<1>2. /\ call' = [call EXCEPT ![c] = Idle] /\ UNCHANGED <<minted, raced>>
      /\ epoch' \in [Users -> Nat] /\ missed' \in [Users -> Nat]
      /\ \A v \in Users : v # u => missed'[v] = missed[v]
      /\ Idle \in Handler /\ HandlerOK(Idle) /\ InPlace(c, Idle)
      /\ Idle.user = None /\ minted \in 0..MaxTokens /\ raced \in SUBSET Users
  BY <1>0, <1>1, IdleTyped DEF Write, AccountsOK, InPlace
<1>3. CASE op = "create" /\ account[u].role # None
  <2>1. account' = account
    BY <1>3 DEF Write
  <2>2. account' = [account EXCEPT ![u] = account[u]]
    BY <1>0, <2>1 DEF AccountsOK
  <2> HIDE DEF u, op, r
  <2> QED
    BY <1>1, <1>2, <1>3, <2>2, ServerKeeps
<1>4. CASE ~(op = "create" /\ account[u].role # None)
  <2>1. account' = [account EXCEPT ![u] = r]
    BY <1>4 DEF Write
  <2>2. op # "create" => account[u].role # None
    BY <1>0, Present
  <2>3. r \in Account /\ r.role # None /\ r.alternate # u
    <3>1. /\ op \in DeskOps /\ account[u] \in Account /\ k \in Account
          /\ x \in DeskWork[op] /\ u \in Users /\ account[u].alternate # u
          /\ op \in {"reset", "revoke"} => k.version < MaxVersion
          /\ op = "update" => x.alternate # u
      BY <1>1
    <3> HIDE DEF u, op, x, k
    <3> QED
      BY <2>2, <3>1, WrittenRow
  <2> HIDE DEF u, op, r
  <2> QED
    BY <1>1, <1>2, <2>1, <2>3, ServerKeeps
<1> QED
  BY <1>3, <1>4

LEMMA OkAnswer ==
  ASSUME CallsOK, NEW c \in Calls, call[c].op \in {"get", "logout"},
         call[c].user \in Users
  PROVE  /\ Answer(c, "ok") \in Handler /\ HandlerOK(Answer(c, "ok"))
         /\ Answer(c, "ok").at = "reply" /\ Answer(c, "ok").token = None
         /\ Answer(c, "ok").cookie = None
         /\ Answer(c, "ok").user = call[c].user
         /\ Answer(c, "ok").op = call[c].op /\ Answer(c, "ok").result = "ok"
<1>2. Answer(c, "ok") =
        [Idle EXCEPT !.at = "reply", !.op = call[c].op, !.user = call[c].user,
           !.result = "ok"]
  BY DEF Answer
<1>3. Answer(c, "ok") \in Handler
  BY <1>2, IdleTyped DEF Handler
<1>4. /\ Answer(c, "ok").at = "reply" /\ Answer(c, "ok").token = None
      /\ Answer(c, "ok").cookie = None /\ Answer(c, "ok").user = call[c].user
      /\ Answer(c, "ok").op = call[c].op /\ Answer(c, "ok").result = "ok"
  BY <1>2, IdleTyped DEF Handler
<1> QED
  BY <1>3, <1>4 DEF HandlerOK

(* The steps of login, refresh and logout, and of the guards.              *)
LEMMA AuthKeeps ==
  ASSUME SessionInv, NEW c \in Calls, UNCHANGED browser,
         \/ RefuseLogin(c) \/ AcceptLogin(c) \/ StoreRefresh(c)
         \/ DropReused(c) \/ Rotate(c) \/ Guard(c) \/ Logout(c)
  PROVE  SessionInv'
<1> DEFINE u == call[c].user
<1>0. /\ u \in Users /\ account[u].role # None /\ account[u] \in Account
      /\ account[u].alternate # u
      /\ call[c] \in Handler /\ HandlerOK(call[c]) /\ InPlace(c, call[c])
      /\ AccountsOK /\ CallsOK
      /\ account = [account EXCEPT ![u] = account[u]]
      /\ minted \in 0..MaxTokens /\ raced \in SUBSET Users
      /\ epoch \in [Users -> Nat] /\ missed \in [Users -> Nat]
  <2>1. call[c].at \in {"compare", "store", "match", "guard", "drop"}
    BY DEF RefuseLogin, AcceptLogin, StoreRefresh, DropReused, Rotate, Guard, Logout
  <2>2. SessionInv => AccountsOK /\ CallsOK
    BY DEF SessionInv
  <2> QED
    BY <2>1, <2>2, Present DEF AccountsOK
<1>1. call[c].op \in {"login", "refresh", "get", "logout"} /\ c \notin Desks
  BY <1>0 DEF HandlerOK, InPlace, RefuseLogin, AcceptLogin, StoreRefresh,
     DropReused, Rotate, Guard, Logout
<1>2. ASSUME NEW result \in {"unauthorized", "refused"}
      PROVE  /\ Answer(c, result) \in Handler /\ HandlerOK(Answer(c, result))
             /\ InPlace(c, Answer(c, result)) /\ Answer(c, result).user = u
  BY <1>0, <1>1, AnswerOK DEF InPlace
<1>3. CASE RefuseLogin(c)
  <2>1. PICK result \in {"unauthorized", "refused"} :
          call' = [call EXCEPT ![c] = Answer(c, result)]
    BY <1>3 DEF RefuseLogin, Reply
  <2> DEFINE k == call[c].copy
             r == Attempt(account[u], k)
  <2>2. account' = [account EXCEPT ![u] = r] /\ call[c].copy.failed < MaxFailed
    BY <1>3 DEF RefuseLogin
  <2>3. call[c].copy \in Account
    BY <1>0 DEF Handler
  <2>4. r \in Account /\ r.role # None /\ r.alternate # u
    <3>1. /\ account[u] \in Account /\ k \in Account /\ k.failed < MaxFailed
          /\ account[u].role # None /\ account[u].alternate # u
      BY <1>0, <2>2, <2>3
    <3> HIDE DEF u, k
    <3> QED
      BY <3>1, AttemptIs
  <2>5. /\ UNCHANGED <<minted, epoch, raced>> /\ missed' \in [Users -> Nat]
        /\ \A v \in Users : v # u => missed'[v] = missed[v]
    BY <1>0, <1>3 DEF RefuseLogin
  <2> HIDE DEF u, r
  <2> QED
    BY <1>0, <1>2, <2>1, <2>2, <2>4, <2>5, ServerKeeps
<1>4. CASE AcceptLogin(c) /\ call[c].copy.active
  <2> DEFINE tok == [user |-> u, version |-> call[c].copy.version + 1,
                     epoch |-> epoch[u] + 1]
             h == [call[c] EXCEPT !.at = "store", !.copy = NoAccount, !.token = tok]
             k == call[c].copy
             r == SignedIn(account[u], k)
  <2>1. /\ account' = [account EXCEPT ![u] = r] /\ call[c].copy.version < MaxVersion
        /\ epoch' = [epoch EXCEPT ![u] = @ + 1]
        /\ missed' = [missed EXCEPT ![u] = 0]
        /\ call[c].at = "compare"
        /\ call' = [call EXCEPT ![c].at = "store", ![c].copy = NoAccount,
                      ![c].token = [user |-> u,
                                    version |-> call[c].copy.version + 1,
                                    epoch |-> epoch'[u]]]
        /\ UNCHANGED <<minted, raced>>
    BY <1>4 DEF AcceptLogin
  <2>2. call' = [call EXCEPT ![c] = h]
    <3>1. epoch'[u] = epoch[u] + 1
      BY <1>0, <2>1
    <3> QED
      BY <2>1, <3>1, <1>0 DEF CallsOK
  <2>3. call[c].copy.version + 1 \in 0..MaxVersion
    BY <1>0, <2>1, ConstantFacts DEF Handler, Account
  <2>4. r \in Account /\ r.role # None /\ r.alternate # u
    <3>1. /\ account[u] \in Account /\ k \in Account /\ k.version < MaxVersion
          /\ account[u].role # None /\ account[u].alternate # u
      BY <1>0, <2>1 DEF Handler
    <3> HIDE DEF u, k
    <3> QED
      BY <3>1, SignedInIs
  <2>5. tok \in Tokens
    BY <1>0, <2>3 DEF Tokens
  <2>6. /\ h \in Handler /\ h.user = u /\ h.at = "store" /\ h.op = call[c].op
        /\ h.token = tok /\ h.cookie = call[c].cookie
    BY ZenonT(60), <1>0, <2>5, IdleTyped DEF Handler
  <2>7. call[c].op = "login" /\ call[c].cookie = None
    BY <1>0, <2>1 DEF HandlerOK
  <2>8. HandlerOK(h) /\ InPlace(c, h)
    <3>1. u \in Users /\ tok.user = u /\ tok # None
      BY <1>0, <2>5, TokenAssumption
    <3> HIDE DEF h, tok, u
    <3> QED
      BY <1>1, <2>6, <2>7, <3>1 DEF HandlerOK, InPlace
  <2>9. /\ UNCHANGED <<minted, raced>> /\ account' = [account EXCEPT ![u] = r]
        /\ epoch' \in [Users -> Nat] /\ missed' \in [Users -> Nat]
        /\ \A v \in Users : v # u => missed'[v] = missed[v]
    BY <1>0, <2>1
  <2> HIDE DEF u, r, h, tok
  <2> QED
    BY <1>0, <2>2, <2>4, <2>6, <2>8, <2>9, ServerKeeps
<1>5. CASE AcceptLogin(c) /\ ~call[c].copy.active
  <2>1. /\ call' = [call EXCEPT ![c] = Answer(c, "refused")]
        /\ UNCHANGED <<account, minted, epoch, missed, raced>>
    BY <1>5 DEF AcceptLogin, Reply
  <2> HIDE DEF u
  <2> QED
    BY <1>0, <1>2, <2>1, ServerKeeps
<1>6. CASE StoreRefresh(c)
  <2> DEFINE h == [Answer(c, "ok") EXCEPT !.token = call[c].token,
                                          !.cookie = minted + 1]
             r == Stored(account[u], minted + 1)
  <2>1. /\ account' = [account EXCEPT ![u] = r] /\ call' = [call EXCEPT ![c] = h]
        /\ minted' = minted + 1 /\ minted < MaxTokens /\ call[c].at = "store"
        /\ UNCHANGED <<epoch, missed, raced>>
    BY <1>6 DEF StoreRefresh
  <2>2. minted + 1 \in 1..MaxTokens /\ minted' \in 0..MaxTokens
    BY <1>0, <2>1, ConstantFacts
  <2>3. r \in Account /\ r.role # None /\ r.alternate # u
    BY <1>0, <2>2, StoredIs
  <2>4. /\ call[c].token \in Tokens /\ call[c].token # None
        /\ call[c].token.user = u /\ call[c].op \in {"login", "refresh"}
    BY <1>0, <2>1 DEF HandlerOK, Handler
  <2>5. /\ h \in Handler /\ h.user = u /\ h.at = "reply" /\ h.op = call[c].op
        /\ h.token = call[c].token /\ h.cookie = minted + 1 /\ h.result = "ok"
    BY ZenonT(60), <1>0, <1>1, <2>2, <2>4, IdleTyped DEF Answer, Handler
  <2>6. HandlerOK(h) /\ InPlace(c, h)
    BY <1>0, <1>1, <2>4, <2>5 DEF HandlerOK, InPlace
  <2> HIDE DEF u, r, h
  <2> QED
    BY <1>0, <2>1, <2>2, <2>3, <2>5, <2>6, ServerKeeps
<1>7. CASE DropReused(c) \/ Logout(c)
  <2> DEFINE r == Dropped(account[u])
  <2>1. r \in Account /\ r.role # None /\ r.alternate # u
    BY <1>0, DroppedIs
  <2>2. account' = [account EXCEPT ![u] = r]
        /\ UNCHANGED <<minted, epoch, missed, raced>>
    BY <1>7 DEF DropReused, Logout
  <2>3. CASE DropReused(c)
    <3>1. call' = [call EXCEPT ![c] = Answer(c, "unauthorized")]
      BY <2>3 DEF DropReused, Reply
    <3> HIDE DEF u, r
    <3> QED
      BY <1>0, <1>2, <2>1, <2>2, <3>1, ServerKeeps
  <2>4. CASE Logout(c)
    <3>1. call' = [call EXCEPT ![c] = Answer(c, "ok")] /\ call[c].op = "logout"
      BY <1>0, <2>4 DEF Logout, Reply, HandlerOK
    <3>2. /\ Answer(c, "ok") \in Handler /\ HandlerOK(Answer(c, "ok"))
          /\ InPlace(c, Answer(c, "ok")) /\ Answer(c, "ok").user = u
      BY <1>0, <1>1, <3>1, OkAnswer DEF InPlace
    <3> HIDE DEF u, r
    <3> QED
      BY <1>0, <2>1, <2>2, <3>1, <3>2, ServerKeeps
  <2> QED
    BY <1>7, <2>3, <2>4
<1>8. CASE Rotate(c)
  <2> DEFINE tok == [user |-> u, version |-> call[c].copy.version,
                     epoch |-> call[c].epoch]
             h == [call[c] EXCEPT !.at = "store", !.copy = NoAccount, !.token = tok]
  <2>1. /\ call' = [call EXCEPT ![c].at = "store", ![c].copy = NoAccount,
                      ![c].token = tok]
        /\ UNCHANGED <<account, minted, epoch, missed, raced>>
        /\ call[c].at = "match"
    BY <1>8 DEF Rotate
  <2>2. call' = [call EXCEPT ![c] = h]
    BY <1>0, <2>1 DEF CallsOK
  <2>3. tok \in Tokens
    BY <1>0 DEF Tokens, Handler, Account
  <2>4. /\ h \in Handler /\ h.user = u /\ h.at = "store" /\ h.op = call[c].op
        /\ h.token = tok /\ h.cookie = call[c].cookie
    BY <1>0, <2>3, IdleTyped DEF Handler
  <2>5. call[c].op = "refresh" /\ call[c].cookie = None
    BY <1>0, <2>1 DEF HandlerOK
  <2>6. HandlerOK(h) /\ InPlace(c, h)
    <3>1. u \in Users /\ tok.user = u /\ tok # None
      BY <1>0, <2>3, TokenAssumption
    <3> HIDE DEF h, tok, u
    <3> QED
      BY <1>1, <2>4, <2>5, <3>1 DEF HandlerOK, InPlace
  <2> HIDE DEF u, h
  <2> QED
    BY <1>0, <2>1, <2>2, <2>4, <2>6, ServerKeeps
<1>9. CASE Guard(c)
  <2>1. UNCHANGED <<account, minted, epoch, missed, raced>>
        /\ call[c].at = "guard" /\ call[c].op \in {"get", "logout"}
    BY <1>0, <1>9 DEF Guard, HandlerOK
  <2>2. \E h \in Handler : /\ HandlerOK(h) /\ InPlace(c, h) /\ h.user = u
                           /\ call' = [call EXCEPT ![c] = h]
    <3>1. CASE ~Accepted(call[c].token)
      BY <1>2, <1>9, <3>1 DEF Guard, Reply
    <3>2. CASE Accepted(call[c].token) /\ call[c].op = "logout"
      <4> DEFINE h == [call[c] EXCEPT !.at = "drop"]
      <4>1. call' = [call EXCEPT ![c] = h]
        BY <1>0, <1>9, <3>2 DEF Guard, Goto, CallsOK
      <4>2. /\ h \in Handler /\ h.user = u /\ h.at = "drop" /\ h.op = "logout"
            /\ h.token = call[c].token /\ h.cookie = call[c].cookie
        BY <1>0, <3>2 DEF Handler
      <4>3. HandlerOK(h) /\ InPlace(c, h)
        BY <1>0, <1>1, <2>1, <4>2 DEF HandlerOK, InPlace
      <4> QED
        BY <4>1, <4>2, <4>3
    <3>3. CASE Accepted(call[c].token) /\ call[c].op # "logout"
      BY <1>0, <1>1, <1>9, <2>1, <3>3, OkAnswer DEF Guard, Reply, InPlace
    <3> QED
      BY <3>1, <3>2, <3>3
  <2>3. PICK h \in Handler : /\ HandlerOK(h) /\ InPlace(c, h) /\ h.user = u
                             /\ call' = [call EXCEPT ![c] = h]
    BY <2>2
  <2> HIDE DEF u
  <2> QED
    BY <1>0, <2>1, <2>3, ServerKeeps
<1> QED
  BY <1>3, <1>4, <1>5, <1>6, <1>7, <1>8, <1>9

LEMMA FailsKeeps ==
  ASSUME SessionInv, NEW c \in Calls, Fails(c), UNCHANGED browser
  PROVE  SessionInv'
<1>1. /\ AccountsOK /\ CallsOK /\ call[c] \in Handler /\ HandlerOK(call[c])
      /\ InPlace(c, call[c])
  BY DEF SessionInv, CallsOK
<1>2. /\ call[c].op \in {"get", "logout", "login", "refresh"} /\ c \notin Desks
      /\ call[c].op # "refresh" => call[c].user \in Users
  BY <1>1, DeskOpsAre DEF Fails, HandlerOK, Handler, InPlace
<1>3. /\ call' = [call EXCEPT ![c] = Answer(c, "refused")]
      /\ UNCHANGED <<account, minted, epoch, missed, raced>>
  BY DEF Fails, Reply
<1>4. /\ Answer(c, "refused") \in Handler /\ HandlerOK(Answer(c, "refused"))
      /\ Answer(c, "refused").at = "reply" /\ Answer(c, "refused").token = None
  BY <1>1, <1>2, AnswerOK
<1>5. /\ InPlace(c, Answer(c, "refused"))
      /\ \A u \in Users : NoTrace(u, Answer(c, "refused"))
  BY <1>2, <1>4 DEF InPlace, NoTrace
<1>6. raced' \in SUBSET Users
  BY <1>1, <1>3 DEF AccountsOK
<1> QED
  BY <1>3, <1>4, <1>5, <1>6, HandlerMoves

LEMMA ServeKeeps ==
  ASSUME SessionInv, NEW c \in Calls, Offline(Serve(c) \/ Fails(c))
  PROVE  SessionInv'
<1>1. UNCHANGED browser
  BY DEF Offline, browser
<1>2. CASE ReadAlternate(c)
  <2>1. /\ UNCHANGED <<account, minted, epoch, missed, raced>>
        /\ call[c].at = "alternate" /\ CallsOK /\ AccountsOK
    BY <1>2 DEF ReadAlternate, SessionInv
  <2>2. /\ call[c] \in Handler /\ HandlerOK(call[c]) /\ InPlace(c, call[c])
        /\ raced' \in SUBSET Users
    BY <2>1 DEF CallsOK, AccountsOK
  <2>3. CASE call' = [call EXCEPT ![c].at = "write"]
    <3> DEFINE h == [call[c] EXCEPT !.at = "write"]
    <3>1. call' = [call EXCEPT ![c] = h]
      BY <2>1, <2>3 DEF CallsOK
    <3>2. /\ h \in Handler /\ h.at = "write" /\ h.op = call[c].op
          /\ h.user = call[c].user /\ h.arg = call[c].arg /\ h.copy = call[c].copy
          /\ h.token = call[c].token /\ h.cookie = call[c].cookie
      BY <2>2 DEF Handler
    <3>3. call[c].user \in Users /\ account[call[c].user].role # None
      BY <2>1, Present
    <3>4. HandlerOK(h) /\ InPlace(c, h)
      <4> HIDE DEF h
      <4> QED
        BY <2>1, <2>2, <3>2 DEF HandlerOK, InPlace
    <3>5. \A u \in Users : account[u].role = None => NoTrace(u, h)
      BY <3>2, <3>3 DEF NoTrace
    <3> HIDE DEF h
    <3> QED
      BY <1>1, <2>1, <2>2, <3>1, <3>2, <3>4, <3>5, HandlerMoves
  <2>4. CASE call' = [call EXCEPT ![c] = Idle]
    <3>1. /\ Idle \in Handler /\ HandlerOK(Idle) /\ InPlace(c, Idle)
          /\ \A u \in Users : NoTrace(u, Idle)
      BY IdleTyped, ConstantFacts DEF InPlace, NoTrace
    <3> QED
      BY <1>1, <2>1, <2>2, <2>4, <3>1, HandlerMoves
  <2> QED
    BY <1>2, <2>3, <2>4 DEF ReadAlternate, Goto
<1> QED
  BY <1>1, <1>2, WriteKeeps, AuthKeeps, FailsKeeps DEF Offline, Serve

LEMMA TimeKeeps ==
  ASSUME SessionInv, NEW u \in Users, Offline(TimePasses(u))
  PROVE  SessionInv'
<1>0. /\ AccountsOK /\ CallsOK /\ BrowsersOK /\ Vacant(u)
      /\ UNCHANGED <<call, minted, epoch, missed, raced, browser>>
  BY DEF SessionInv, Offline, TimePasses, browser
<1>1. PICK r \in {[account[u] EXCEPT !.locked = FALSE],
                  [account[u] EXCEPT !.lapsed = TRUE]} :
             account' = [account EXCEPT ![u] = r]
  BY <1>0 DEF Offline, TimePasses, AccountsOK
<1>2. account[u] \in Account /\ account[u].alternate # u
  BY <1>0 DEF AccountsOK
<1>3. account[u].role # None
  <2>1. account[u] # NoAccount
    BY IdleTyped, ConstantFacts DEF Offline, TimePasses
  <2> QED
    BY <1>0, <2>1 DEF Vacant
<1>4. r \in Account /\ r.role # None /\ r.alternate # u
  BY <1>1, <1>2, <1>3 DEF Account
<1>5. AccountsOK'
  BY <1>0, <1>1, <1>4 DEF AccountsOK
<1>6. CallsOK' /\ BrowsersOK'
  BY <1>0 DEF CallsOK, BrowsersOK, browser
<1>7. ASSUME NEW v \in Users
      PROVE  Vacant(v)'
  <2>1. /\ v # u => account'[v] = account[v] /\ Vacant(v)
        /\ account'[u].role # None
    BY <1>0, <1>1, <1>4 DEF AccountsOK, SessionInv
  <2> QED
    BY <1>0, <2>1 DEF Vacant, browser
<1> QED
  BY <1>5, <1>6, <1>7 DEF SessionInv

-----------------------------------------------------------------------------
(* A token that is kept somewhere is of an account that is there.          *)
LEMMA LiveTokens ==
  ASSUME SessionInv
  PROVE  /\ \A t \in Tabs : token[t] # None =>
              token[t] \in Tokens /\ account[token[t].user].role # None
         /\ \A c \in Calls : call[c].token # None =>
              /\ call[c].token \in Tokens /\ call[c].token.user = call[c].user
              /\ call[c].user \in Users /\ account[call[c].user].role # None
<1>1. /\ token \in [Tabs -> Tokens \cup {None}] /\ call \in [Calls -> Handler]
      /\ \A c \in Calls : HandlerOK(call[c])
      /\ \A u \in Users : Vacant(u)
  BY DEF SessionInv, BrowsersOK, CallsOK
<1>2. ASSUME NEW t \in Tabs, token[t] # None
      PROVE  token[t] \in Tokens /\ account[token[t].user].role # None
  <2>1. token[t] \in Tokens /\ token[t].user \in Users
    BY <1>1, <1>2 DEF Tokens
  <2> QED
    BY <1>1, <1>2, <2>1 DEF Vacant
<1>3. ASSUME NEW c \in Calls, call[c].token # None
      PROVE  /\ call[c].token \in Tokens /\ call[c].token.user = call[c].user
             /\ call[c].user \in Users /\ account[call[c].user].role # None
  <2>1. call[c].token \in Tokens /\ call[c].token.user = call[c].user
    BY <1>1, <1>3 DEF Handler, HandlerOK
  <2>2. call[c].user \in Users
    BY <2>1 DEF Tokens
  <2> QED
    BY <1>1, <1>3, <2>1, <2>2 DEF Vacant, NoTrace
<1> QED
  BY <1>2, <1>3

(* A step of a browser writes no account.                                  *)
LEMMA ClientKeeps ==
  ASSUME SessionInv, UNCHANGED <<account, minted, epoch, missed>>,
         raced' \in SUBSET Users, CallsOK', BrowsersOK',
         \A t \in Tabs : token'[t] # None =>
           token'[t].user \in Users /\ account[token'[t].user].role # None,
         \A c \in Calls, u \in Users : account[u].role = None =>
           (NoTrace(u, call[c]) => NoTrace(u, call'[c]))
  PROVE  SessionInv'
<1>1. AccountsOK'
  BY DEF SessionInv, AccountsOK
<1>2. ASSUME NEW u \in Users
      PROVE  Vacant(u)'
  BY DEF SessionInv, Vacant
<1> QED
  BY <1>1, <1>2 DEF SessionInv

LEMMA CookieTaken ==
  ASSUME SessionInv, NEW c \in Calls, NEW b \in Browsers, TakeCookie(c, b)
  PROVE  /\ jar' \in [Browsers -> Cookie \cup {None}]
         /\ keeper' \in [Users -> Browsers \cup {None}]
<1>1. /\ call[c] \in Handler /\ HandlerOK(call[c]) /\ BrowsersOK
  BY DEF SessionInv, CallsOK
<1>2. call[c].cookie # None => call[c].cookie \in 1..MaxTokens /\ call[c].user \in Users
  BY <1>1, LiveTokens DEF Handler, HandlerOK
<1>3. call[c].cookie # None =>
        [user |-> call[c].user, id |-> call[c].cookie] \in Cookie
  BY <1>2 DEF Cookie
<1> QED
  BY <1>1, <1>3 DEF TakeCookie, BrowsersOK

LEMMA StrainTyped ==
  ASSUME strained \subseteq Users, NEW lost \in SUBSET Users, Strain(lost)
  PROVE  strained' \subseteq Users
BY DEF Strain

LEMMA LostTyped ==
  ASSUME NEW c
  PROVE  Lost(c) \in SUBSET Users
BY DEF Lost

(* Requests go out.                                                        *)
LEMMA Dispatched ==
  ASSUME SessionInv, NEW xs \in SUBSET Requests, NEW rs, NEW tok,
         Dispatch(xs, rs, tok),
         \A x \in xs : /\ rs[x] \in Request
                       /\ rs[x].kind = "login" => rs[x].user \in Users
                       /\ rs[x].kind # "login" =>
                            /\ tok \in Tokens /\ tok # None
                            /\ account[tok.user].role # None
  PROVE  /\ CallsOK' /\ raced' \in SUBSET Users
         /\ req' \in [Requests -> Request]
         /\ \A x \in Requests : req'[x].kind = "login" => req'[x].user \in Users
         /\ \A c \in Calls, u \in Users : account[u].role = None =>
              (NoTrace(u, call[c]) => NoTrace(u, call'[c]))
<1>0. AccountsOK /\ CallsOK /\ BrowsersOK /\ Requests \subseteq Calls \ Desks
  BY ConstantFacts DEF SessionInv
<1> DEFINE e(c) == IF rs[c].kind = "login" THEN LoginEntry(rs[c].user, rs[c].right)
                   ELSE GuardedEntry(rs[c].kind, tok)
<1>1. ASSUME NEW c \in xs
      PROVE  /\ e(c) \in Handler /\ HandlerOK(e(c)) /\ InPlace(c, e(c))
             /\ \A u \in Users : account[u].role = None => NoTrace(u, e(c))
  <2>0. c \notin Desks /\ rs[c] \in Request
    BY <1>0, <1>1
  <2>1. CASE rs[c].kind = "login"
    <3>1. rs[c].user \in Users /\ rs[c].right \in BOOLEAN
      BY <2>0, <2>1 DEF Request
    <3>2. e(c) = LoginEntry(rs[c].user, rs[c].right)
      BY <2>1
    <3> HIDE DEF e
    <3> QED
      BY <1>0, <2>0, <3>1, <3>2, LoginEntryOK DEF InPlace, NoTrace
  <2>2. CASE rs[c].kind # "login"
    <3>1. /\ rs[c].kind \in {"get", "logout"} /\ tok \in Tokens /\ tok # None
          /\ account[tok.user].role # None
      BY <2>0, <2>2 DEF Request
    <3>2. e(c) = GuardedEntry(rs[c].kind, tok)
      BY <2>2
    <3> HIDE DEF e
    <3> QED
      BY <1>0, <2>0, <3>1, <3>2, GuardedEntryOK DEF InPlace, NoTrace
  <2> QED
    BY <2>1, <2>2
<1>2. call' = [c \in Calls |-> IF c \notin xs THEN call[c] ELSE e(c)]
  BY DEF Dispatch
<1> HIDE DEF e
<1>3. CallsOK'
  BY <1>0, <1>1, <1>2 DEF CallsOK
<1>4. raced' \in SUBSET Users
  BY <1>0 DEF Dispatch, Meet, AccountsOK
<1>5. /\ req' \in [Requests -> Request]
      /\ \A x \in Requests : req'[x].kind = "login" => req'[x].user \in Users
  <2>1. \A x \in xs : /\ [rs[x] EXCEPT !.at = "sent"] \in Request
                      /\ [rs[x] EXCEPT !.at = "sent"].kind = rs[x].kind
                      /\ [rs[x] EXCEPT !.at = "sent"].user = rs[x].user
    BY DEF Request
  <2> QED
    BY <1>0, <2>1 DEF Dispatch, BrowsersOK
<1> QED
  BY <1>1, <1>2, <1>3, <1>4, <1>5

(* An answer is taken: its slot is free, its token kept or not.            *)
LEMMA AnswerTaken ==
  ASSUME SessionInv, NEW c \in Calls, Answered(c), BrowsersOK',
         UNCHANGED <<account, minted, epoch, missed, raced>>,
         \A t \in Tabs : token'[t] \in {token[t], call[c].token, None}
  PROVE  SessionInv'
<1>1. AccountsOK /\ CallsOK
  BY DEF SessionInv
<1>2. CallsOK'
  BY <1>1, IdleTyped DEF Answered, CallsOK, InPlace
<1>3. raced' \in SUBSET Users
  BY <1>1 DEF AccountsOK
<1>4. ASSUME NEW t \in Tabs, token'[t] # None
      PROVE  token'[t].user \in Users /\ account[token'[t].user].role # None
  <2>1. token'[t] = token[t] \/ token'[t] = call[c].token
    BY <1>4
  <2> QED
    BY <1>4, <2>1, LiveTokens DEF Tokens
<1>5. ASSUME NEW d \in Calls, NEW u \in Users, NoTrace(u, call[d])
      PROVE  NoTrace(u, call'[d])
  <2>1. call'[d] \in {call[d], Idle}
    BY <1>1 DEF Answered, CallsOK
  <2> QED
    BY <1>5, <2>1, IdleTyped, ConstantFacts DEF NoTrace
<1> QED
  BY <1>2, <1>3, <1>4, <1>5, ClientKeeps

(* A refresh is asked for.                                                 *)
LEMMA RefreshAsked ==
  ASSUME SessionInv, NEW c \in Calls \ Desks, NEW cookie \in Cookie \cup {None},
         Refresh(c, cookie), BrowsersOK',
         \A t \in Tabs : token'[t] \in {token[t], None}
  PROVE  SessionInv'
<1> DEFINE h == RefreshEntry(cookie)
<1>0. /\ AccountsOK /\ CallsOK /\ \A u \in Users : Vacant(u)
      /\ call' = [call EXCEPT ![c] = h]
      /\ UNCHANGED <<account, minted, epoch, missed, raced>>
  BY DEF SessionInv, Refresh
<1>1. /\ h \in Handler /\ HandlerOK(h) /\ h.at \in {"match", "reply"}
      /\ h.token = None
      /\ h.user # None => h.user \in Users
      /\ h.at = "match" => account[h.user].refresh # None
  BY <1>0, RefreshEntryOK
<1> HIDE DEF h
<1>2. CallsOK'
  <2>1. InPlace(c, h)
    BY <1>1 DEF InPlace
  <2> QED
    BY <1>0, <1>1, <2>1 DEF CallsOK
<1>3. raced' \in SUBSET Users
  BY <1>0 DEF AccountsOK
<1>4. ASSUME NEW t \in Tabs, token'[t] # None
      PROVE  token'[t].user \in Users /\ account[token'[t].user].role # None
  BY <1>4, LiveTokens DEF Tokens
<1>5. ASSUME NEW d \in Calls, NEW u \in Users, account[u].role = None,
             NoTrace(u, call[d])
      PROVE  NoTrace(u, call'[d])
  <2>1. account[u].refresh = None
    BY <1>0, <1>5, IdleTyped DEF Vacant
  <2>2. NoTrace(u, h)
    BY <1>1, <2>1 DEF NoTrace
  <2> QED
    BY <1>0, <1>5, <2>2 DEF CallsOK
<1> QED
  BY <1>0, <1>2, <1>3, <1>4, <1>5, ClientKeeps

LEMMA SendsKeeps ==
  ASSUME SessionInv, NEW x \in Requests, NEW r \in Request, Sends(x, r),
         r.kind = "login" => r.user \in Users,
         r.kind # "login" => token[Sender[x]] # None
  PROVE  SessionInv'
<1> DEFINE rs == [req EXCEPT ![x] = r]
           tok == token[Sender[x]]
<1>0. /\ BrowsersOK /\ Dispatch({x}, rs, tok) /\ Strain({})
      /\ UNCHANGED <<account, minted, epoch, missed>>
      /\ UNCHANGED <<home, jar, token, refreshing, keeper>>
      /\ Sender[x] \in Tabs
  BY ConstantFacts DEF SessionInv, Sends, Dispatch
<1>1. rs[x] = r
  BY <1>0 DEF BrowsersOK
<1>2. r.kind # "login" => /\ tok \in Tokens /\ tok # None
                          /\ account[tok.user].role # None
  BY <1>0, LiveTokens
<1> HIDE DEF rs, tok
<1>3. \A y \in {x} : /\ rs[y] \in Request
                     /\ rs[y].kind = "login" => rs[y].user \in Users
                     /\ rs[y].kind # "login" =>
                          /\ tok \in Tokens /\ tok # None
                          /\ account[tok.user].role # None
  BY <1>1, <1>2
<1>4. {x} \in SUBSET Requests
  OBVIOUS
<1>5. /\ CallsOK' /\ raced' \in SUBSET Users
      /\ req' \in [Requests -> Request]
      /\ \A y \in Requests : req'[y].kind = "login" => req'[y].user \in Users
      /\ \A c \in Calls, u \in Users : account[u].role = None =>
           (NoTrace(u, call[c]) => NoTrace(u, call'[c]))
  BY <1>0, <1>3, <1>4, Dispatched
<1>6. BrowsersOK'
  <2>1. strained' \subseteq Users
    BY <1>0 DEF BrowsersOK, Strain
  <2> QED
    BY <1>0, <1>5, <2>1 DEF BrowsersOK
<1>7. \A t \in Tabs : token'[t] # None =>
        token'[t].user \in Users /\ account[token'[t].user].role # None
  BY <1>0, LiveTokens DEF Tokens
<1> QED
  BY <1>0, <1>5, <1>6, <1>7, ClientKeeps

LEMMA RestingTyped ==
  /\ Resting \in Request /\ Resting.kind = "get" /\ Resting.at = "idle"
  /\ ~Resting.retried
BY DEF Resting, Request

LEMMA SendKeeps ==
  ASSUME SessionInv, NEW x \in Requests,
         \/ \E kind \in {"get", "logout"} : Send(x, kind)
         \/ \E u \in Users, right \in BOOLEAN : SignIn(x, u, right)
  PROVE  SessionInv'
<1>1. ASSUME NEW kind \in {"get", "logout"}, Send(x, kind)
      PROVE  SessionInv'
  <2> DEFINE r == [Resting EXCEPT !.kind = kind]
  <2>1. r \in Request /\ r.kind # "login"
    BY DEF Resting, Request
  <2>2. Sends(x, r) /\ token[Sender[x]] # None
    BY <1>1 DEF Send
  <2> HIDE DEF r
  <2> QED
    BY <2>1, <2>2, SendsKeeps
<1>2. ASSUME NEW u \in Users, NEW right \in BOOLEAN, SignIn(x, u, right)
      PROVE  SessionInv'
  <2> DEFINE r == [Resting EXCEPT !.kind = "login", !.user = u, !.right = right]
  <2>1. r \in Request /\ r.kind = "login" /\ r.user = u
    BY DEF Resting, Request
  <2>2. Sends(x, r)
    BY <1>2 DEF SignIn
  <2> HIDE DEF r
  <2> QED
    BY <2>1, <2>2, SendsKeeps
<1> QED
  BY <1>1, <1>2

(* The refresh queue: who waits, for whom.                                 *)
Waits(t) ==
  /\ \A x \in Of(t) :
       /\ req[x].at \in {"sent", "leading"} => call[x].at # "idle"
       /\ req[x].at = "leading" => call[x].op = "refresh"
       /\ req[x].at \in {"queued", "leading"} => refreshing[t]
       /\ req[x].at = "queued" => call[x].at = "idle"
  /\ refreshing[t] => \E x \in Of(t) : req[x].at = "leading"
  /\ \A x, y \in Of(t) : req[x].at = "leading" /\ req[y].at = "leading" => x = y

BrowserInv == SessionInv /\ \A t \in Tabs : Waits(t)

LEMMA RequestFacts ==
  ASSUME SessionInv, NEW x \in Requests
  PROVE  /\ x \in Calls \ Desks /\ Sender[x] \in Tabs /\ x \in Of(Sender[x])
         /\ home[Sender[x]] \in Browsers
         /\ jar[home[Sender[x]]] \in Cookie \cup {None}
         /\ req[x] \in Request /\ call[x] \in Handler /\ HandlerOK(call[x])
BY ConstantFacts DEF SessionInv, BrowsersOK, CallsOK, Of

LEMMA ClientStepKeeps ==
  ASSUME BrowserInv, NEW x \in Requests, Client(x)
  PROVE  SessionInv'
<1> DEFINE t == Sender[x]
<1>0. /\ SessionInv /\ BrowsersOK /\ CallsOK /\ x \in Calls \ Desks
      /\ t \in Tabs /\ home[t] \in Browsers
      /\ jar[home[t]] \in Cookie \cup {None} /\ req[x] \in Request
      /\ call[x] \in Handler /\ HandlerOK(call[x]) /\ Waits(t) /\ x \in Of(t)
      /\ call[x].token \in Tokens \cup {None}
  BY RequestFacts DEF BrowserInv, SessionInv, Handler
<1>1. CASE Settle(x)
  <2>1. /\ jar' \in [Browsers -> Cookie \cup {None}]
        /\ keeper' \in [Users -> Browsers \cup {None}]
    BY <1>0, <1>1, CookieTaken DEF Settle
  <2>2. strained' \subseteq Users
    BY <1>0, <1>1 DEF Settle, Strain, Lost, BrowsersOK
  <2>3. req' \in [Requests -> Request]
        /\ \A y \in Requests : req'[y].kind = "login" => req'[y].user \in Users
    BY <1>0, <1>1, RestingTyped DEF Settle, BrowsersOK
  <2>4. /\ token' \in [Tabs -> Tokens \cup {None}]
        /\ \A s \in Tabs : token'[s] \in {token[s], call[x].token, None}
    BY <1>0, <1>1 DEF Settle, BrowsersOK
  <2>5. BrowsersOK'
    BY <1>0, <1>1, <2>1, <2>2, <2>3, <2>4 DEF Settle, BrowsersOK
  <2>6. Answered(x) /\ UNCHANGED <<account, minted, epoch, missed, raced>>
    BY <1>1 DEF Settle
  <2> QED
    BY <1>0, <2>4, <2>5, <2>6, AnswerTaken
<1>2. CASE Queue(x)
  <2>1. req' \in [Requests -> Request]
        /\ \A y \in Requests : req'[y].kind = "login" => req'[y].user \in Users
    BY <1>0, <1>2 DEF Queue, BrowsersOK, Request
  <2>2. BrowsersOK'
    BY <1>0, <1>2, <2>1 DEF Queue, BrowsersOK
  <2>3. /\ Answered(x) /\ UNCHANGED <<account, minted, epoch, missed, raced>>
        /\ \A s \in Tabs : token'[s] \in {token[s], call[x].token, None}
    BY <1>2 DEF Queue
  <2> QED
    BY <1>0, <2>2, <2>3, AnswerTaken
<1>3. CASE Lead(x)
  <2>1. req' \in [Requests -> Request]
        /\ \A y \in Requests : req'[y].kind = "login" => req'[y].user \in Users
    BY <1>0, <1>3 DEF Lead, BrowsersOK, Request
  <2>2. strained' \subseteq Users
    BY <1>0, <1>3 DEF Lead, Strain, BrowsersOK
  <2>3. BrowsersOK'
    BY <1>0, <1>3, <2>1, <2>2 DEF Lead, BrowsersOK
  <2>4. Refresh(x, jar[home[t]]) /\ \A s \in Tabs : token'[s] \in {token[s], None}
    BY <1>3 DEF Lead
  <2> QED
    BY <1>0, <2>3, <2>4, RefreshAsked
<1>4. CASE LeaderBack(x)
  <2> DEFINE xs == {x} \cup Released(t)
             tok == call[x].token
  <2>1. /\ Dispatch(xs, req, tok) /\ TakeCookie(x, home[t]) /\ Strain({})
        /\ token' = [token EXCEPT ![t] = tok] /\ home' = home
        /\ refreshing' = [refreshing EXCEPT ![t] = FALSE]
        /\ UNCHANGED <<account, minted, epoch, missed>>
    BY <1>4 DEF LeaderBack, Dispatch
  <2>2. tok \in Tokens /\ tok # None /\ account[tok.user].role # None
    <3>1. /\ call[x].op = "refresh" /\ call[x].at = "reply" /\ call[x].result = "ok"
      BY <1>0, <1>4 DEF LeaderBack, Waits
    <3>2. call[x].token # None
      BY <1>0, <3>1 DEF HandlerOK
    <3> QED
      BY <1>0, <3>2, LiveTokens
  <2>3. xs \in SUBSET Requests
    BY DEF Released, Queued, Of
  <2>4. \A y \in xs : /\ req[y] \in Request
                      /\ req[y].kind = "login" => req[y].user \in Users
                      /\ req[y].kind # "login" =>
                           /\ tok \in Tokens /\ tok # None
                           /\ account[tok.user].role # None
    BY <1>0, <2>2, <2>3 DEF BrowsersOK
  <2> HIDE DEF xs, tok, t
  <2>5. /\ CallsOK' /\ raced' \in SUBSET Users
        /\ req' \in [Requests -> Request]
        /\ \A y \in Requests : req'[y].kind = "login" => req'[y].user \in Users
        /\ \A c \in Calls, u \in Users : account[u].role = None =>
             (NoTrace(u, call[c]) => NoTrace(u, call'[c]))
    BY <1>0, <2>1, <2>3, <2>4, Dispatched
  <2>6. /\ jar' \in [Browsers -> Cookie \cup {None}]
        /\ keeper' \in [Users -> Browsers \cup {None}]
    BY <1>0, <2>1, CookieTaken
  <2>7. strained' \subseteq Users
    BY <1>0, <2>1 DEF Strain, BrowsersOK
  <2>8. BrowsersOK'
    BY <1>0, <2>1, <2>2, <2>5, <2>6, <2>7 DEF BrowsersOK
  <2>9. ASSUME NEW s \in Tabs, token'[s] # None
        PROVE  token'[s].user \in Users /\ account[token'[s].user].role # None
    <3>1. token'[s] = token[s] \/ token'[s] = tok
      BY <1>0, <2>1 DEF BrowsersOK
    <3> QED
      BY <1>0, <2>2, <2>9, <3>1, LiveTokens DEF Tokens
  <2> QED
    BY <1>0, <2>1, <2>5, <2>8, <2>9, ClientKeeps
<1>5. CASE LeaderFails(x)
  <2>1. /\ jar' \in [Browsers -> Cookie \cup {None}]
        /\ keeper' \in [Users -> Browsers \cup {None}]
    BY <1>0, <1>5, CookieTaken DEF LeaderFails
  <2>2. strained' \subseteq Users
    BY <1>0, <1>5 DEF LeaderFails, Strain, Lost, BrowsersOK
  <2>3. req' \in [Requests -> Request]
        /\ \A y \in Requests : req'[y].kind = "login" => req'[y].user \in Users
    BY <1>0, <1>5, RestingTyped DEF LeaderFails, BrowsersOK
  <2>4. /\ token' \in [Tabs -> Tokens \cup {None}]
        /\ \A s \in Tabs : token'[s] \in {token[s], call[x].token, None}
    BY <1>0, <1>5 DEF LeaderFails, BrowsersOK
  <2>5. BrowsersOK'
    BY <1>0, <1>5, <2>1, <2>2, <2>3, <2>4 DEF LeaderFails, BrowsersOK
  <2>6. Answered(x) /\ UNCHANGED <<account, minted, epoch, missed, raced>>
    BY <1>5 DEF LeaderFails
  <2> QED
    BY <1>0, <2>4, <2>5, <2>6, AnswerTaken
<1> QED
  BY <1>1, <1>2, <1>3, <1>4, <1>5 DEF Client

LEMMA PageKeeps ==
  ASSUME SessionInv, NEW t \in Tabs, Load(t) \/ Restored(t)
  PROVE  SessionInv'
<1>0. /\ BrowsersOK /\ CallsOK /\ t \in Calls \ Desks /\ home[t] \in Browsers
      /\ jar[home[t]] \in Cookie \cup {None}
      /\ call[t].token \in Tokens \cup {None}
  BY ConstantFacts DEF SessionInv, BrowsersOK, CallsOK, Handler
<1>1. CASE Load(t)
  <2>1. strained' \subseteq Users
    BY <1>0, <1>1 DEF Load, Strain, BrowsersOK
  <2>2. BrowsersOK' /\ \A s \in Tabs : token'[s] \in {token[s], None}
    BY <1>0, <1>1, <2>1 DEF Load, BrowsersOK
  <2>3. Refresh(t, jar[home[t]])
    BY <1>1 DEF Load
  <2> QED
    BY <1>0, <2>2, <2>3, RefreshAsked
<1>2. CASE Restored(t)
  <2>1. /\ jar' \in [Browsers -> Cookie \cup {None}]
        /\ keeper' \in [Users -> Browsers \cup {None}]
    BY <1>0, <1>2, CookieTaken DEF Restored
  <2>2. strained' \subseteq Users
    BY <1>0, <1>2 DEF Restored, Strain, Lost, BrowsersOK
  <2>3. /\ token' \in [Tabs -> Tokens \cup {None}]
        /\ \A s \in Tabs : token'[s] \in {token[s], call[t].token, None}
    BY <1>0, <1>2 DEF Restored, BrowsersOK
  <2>4. BrowsersOK'
    BY <1>0, <1>2, <2>1, <2>2, <2>3 DEF Restored, BrowsersOK
  <2>5. Answered(t) /\ UNCHANGED <<account, minted, epoch, missed, raced>>
    BY <1>2 DEF Restored
  <2> QED
    BY <1>0, <2>3, <2>4, <2>5, AnswerTaken
<1> QED
  BY <1>1, <1>2

(* A step in one slot leaves the others alone; a request that is being     *)
(* served keeps its slot and stays what it is.                             *)
LEMMA OthersStay ==
  ASSUME CallsOK, NEW c \in Calls, Serve(c) \/ Fails(c) \/ AtDesk(c)
  PROVE  \A d \in Calls \ {c} : call'[d] = call[d]
<1>1. call \in [Calls -> Handler]
  BY DEF CallsOK
<1>2. CASE AtDesk(c)
  BY <1>1, <1>2 DEF AtDesk, Begin
<1>3. CASE ReadAlternate(c) \/ Write(c) \/ RefuseLogin(c) \/ AcceptLogin(c)
             \/ StoreRefresh(c)
  BY <1>1, <1>3 DEF ReadAlternate, Write, RefuseLogin, AcceptLogin,
     StoreRefresh, Goto, Reply
<1>4. CASE DropReused(c) \/ Rotate(c) \/ Guard(c) \/ Logout(c) \/ Fails(c)
  BY <1>1, <1>4 DEF DropReused, Rotate, Guard, Logout, Fails, Goto, Reply
<1> QED
  BY <1>2, <1>3, <1>4 DEF Serve

LEMMA AnswerIs ==
  ASSUME CallsOK, NEW c \in Calls, NEW result
  PROVE  /\ Answer(c, result).at = "reply" /\ Answer(c, result).op = call[c].op
         /\ Answer(c, result).user = call[c].user
         /\ Answer(c, result).token = None /\ Answer(c, result).cookie = None
         /\ Answer(c, result).result = result
BY DEF Answer, Idle

LEMMA ServedStays ==
  ASSUME SessionInv, NEW c \in Calls \ Desks, Serve(c) \/ Fails(c)
  PROVE  /\ call'[c].op = call[c].op /\ call'[c].user = call[c].user
         /\ call'[c].at # "idle" /\ call[c].at # "idle"
<1>0. /\ CallsOK /\ call \in [Calls -> Handler] /\ call[c] \in Handler
      /\ HandlerOK(call[c]) /\ InPlace(c, call[c])
  BY DEF SessionInv, CallsOK
<1>1. ~ReadAlternate(c) /\ ~Write(c)
  BY <1>0 DEF InPlace, ReadAlternate, Write
<1>2. ASSUME NEW result, Reply(c, result)
      PROVE  /\ call'[c].op = call[c].op /\ call'[c].user = call[c].user
             /\ call'[c].at # "idle"
  <2>1. call'[c] = Answer(c, result)
    BY <1>0, <1>2 DEF Reply
  <2> QED
    BY <1>0, <2>1, AnswerIs
<1>3. CASE RefuseLogin(c) \/ DropReused(c) \/ Logout(c) \/ Fails(c)
  BY <1>2, <1>3 DEF RefuseLogin, DropReused, Logout, Fails
<1>4. CASE AcceptLogin(c)
  BY <1>0, <1>2, <1>4 DEF AcceptLogin, Handler
<1>5. CASE StoreRefresh(c)
  <2>1. call'[c] = [Answer(c, "ok") EXCEPT !.token = call[c].token, !.cookie = minted']
    BY <1>0, <1>5 DEF StoreRefresh
  <2> QED
    BY <1>5, <2>1 DEF Answer, Idle, StoreRefresh
<1>6. CASE Rotate(c)
  BY <1>0, <1>6 DEF Rotate, Handler
<1>7. CASE Guard(c)
  BY <1>0, <1>2, <1>7 DEF Guard, Goto, Handler
<1> QED
  BY <1>1, <1>3, <1>4, <1>5, <1>6, <1>7 DEF Serve

(* What goes out.                                                          *)
LEMMA Outgoing ==
  ASSUME NEW xs \in SUBSET Requests, NEW rs, NEW tok, Dispatch(xs, rs, tok),
         \A x \in xs : rs[x] \in Request
  PROVE  /\ \A x \in xs :
              /\ req'[x].at = "sent"
              /\ call'[x].at \in {"compare", "reply", "guard"}
              /\ call'[x].token \in {None, tok} /\ call'[x].cookie = None
              /\ call'[x].op = rs[x].kind
              /\ call'[x].user = IF rs[x].kind = "login" THEN rs[x].user
                                 ELSE tok.user
              /\ call'[x].at = "reply" =>
                   call'[x].result \in {"unauthorized", "refused"}
         /\ \A x \in Requests \ xs : req'[x] = req[x]
         /\ \A c \in Calls \ xs : call'[c] = call[c]
<1>0. Requests \subseteq Calls
  BY ConstantFacts
<1>1. ASSUME NEW x \in xs
      PROVE  /\ req'[x].at = "sent"
             /\ call'[x].at \in {"compare", "reply", "guard"}
             /\ call'[x].token \in {None, tok} /\ call'[x].cookie = None
             /\ call'[x].op = rs[x].kind
             /\ call'[x].user = IF rs[x].kind = "login" THEN rs[x].user
                                ELSE tok.user
             /\ call'[x].at = "reply" =>
                  call'[x].result \in {"unauthorized", "refused"}
  <2>1. req'[x].at = "sent"
    BY <1>1 DEF Dispatch, Request
  <2>2. CASE rs[x].kind = "login"
    <3>1. call'[x] = LoginEntry(rs[x].user, rs[x].right)
      BY <1>0, <1>1, <2>2 DEF Dispatch
    <3> QED
      BY <2>1, <2>2, <3>1, ConstantFacts DEF LoginEntry, Idle
  <2>3. CASE rs[x].kind # "login"
    <3>1. call'[x] = GuardedEntry(rs[x].kind, tok)
      BY <1>0, <1>1, <2>3 DEF Dispatch
    <3> QED
      BY <2>1, <2>3, <3>1, ConstantFacts DEF GuardedEntry, Idle
  <2> QED
    BY <2>2, <2>3
<1> QED
  BY <1>1 DEF Dispatch

(* What keeps a tab's queue in order.                                      *)
LEMMA WaitsOn ==
  ASSUME NEW t \in Tabs, Waits(t), refreshing'[t] = refreshing[t],
         \A x \in Of(t) :
           /\ req'[x] = req[x]
           /\ call[x].at # "idle" <=> call'[x].at # "idle"
           /\ call[x].at # "idle" => call'[x].op = call[x].op
  PROVE  Waits(t)'
<1>1. Of(t)' = Of(t)
  BY DEF Of
<1> QED
  BY <1>1 DEF Waits

LEMMA ServerWaits ==
  ASSUME BrowserInv, NEW c \in Calls, NEW t \in Tabs, UNCHANGED browser,
         \/ Serve(c) \/ Fails(c)
         \/ c \in Desks /\ AtDesk(c)
  PROVE  Waits(t)'
<1>0. SessionInv /\ Waits(t) /\ CallsOK
  BY DEF BrowserInv, SessionInv
<1>1. ASSUME NEW x \in Of(t)
      PROVE  /\ call[x].at # "idle" <=> call'[x].at # "idle"
             /\ call[x].at # "idle" => call'[x].op = call[x].op
  <2>1. x \in Calls \ Desks
    BY <1>1, ConstantFacts DEF Of
  <2>2. CASE x = c
    BY <1>0, <2>1, <2>2, ServedStays
  <2>3. CASE x # c
    BY <1>0, <2>1, <2>3, OthersStay
  <2> QED
    BY <2>2, <2>3
<1>2. \A x \in Of(t) : req'[x] = req[x] /\ refreshing'[t] = refreshing[t]
  BY DEF browser
<1>3. refreshing'[t] = refreshing[t]
  BY DEF browser
<1> QED
  BY <1>0, <1>1, <1>2, <1>3, WaitsOn

(* The requests of another tab.                                            *)
LEMMA WaitsElsewhere ==
  ASSUME NEW t \in Tabs, NEW s \in Tabs \ {t}, Waits(s),
         refreshing'[s] = refreshing[s],
         \A x \in Requests \ Of(t) : req'[x] = req[x] /\ call'[x] = call[x]
  PROVE  Waits(s)'
<1>1. \A x \in Of(s) : x \in Requests \ Of(t)
  BY DEF Of
<1> QED
  BY <1>1, WaitsOn

LEMMA SendWaits ==
  ASSUME BrowserInv, NEW x \in Requests, NEW r \in Request, Sends(x, r),
         NEW s \in Tabs
  PROVE  Waits(s)'
<1> DEFINE rs == [req EXCEPT ![x] = r]
           tok == token[Sender[x]]
           xs == {x}
<1>0. /\ Waits(s) /\ Dispatch(xs, rs, tok) /\ req \in [Requests -> Request]
      /\ refreshing' = refreshing /\ req[x].at = "idle" /\ Requests \subseteq Calls
  BY ConstantFacts DEF BrowserInv, SessionInv, BrowsersOK, Sends
<1>1. /\ xs \in SUBSET Requests /\ \A y \in xs : rs[y] \in Request
      /\ x \in xs /\ \A y \in Requests \ {x} : y \in Requests \ xs
  BY <1>0
<1> HIDE DEF rs, tok, xs
<1>2. /\ req'[x].at = "sent" /\ call'[x].at # "idle"
      /\ \A y \in Requests \ {x} : req'[y] = req[y] /\ call'[y] = call[y]
  <2>1. /\ \A y \in xs : req'[y].at = "sent" /\ call'[y].at # "idle"
        /\ \A y \in Requests \ xs : req'[y] = req[y]
        /\ \A c \in Calls \ xs : call'[c] = call[c]
    BY <1>0, <1>1, Outgoing
  <2> QED
    BY <1>0, <1>1, <2>1
<1>3. Of(s)' = Of(s) /\ Of(s) \subseteq Requests
  BY DEF Of
<1> QED
  BY <1>0, <1>2, <1>3 DEF Waits

LEMMA ClientWaits ==
  ASSUME BrowserInv, NEW x \in Requests, Client(x), NEW s \in Tabs
  PROVE  Waits(s)'
<1> DEFINE t == Sender[x]
<1>0. /\ SessionInv /\ Waits(s) /\ Waits(t) /\ t \in Tabs /\ x \in Of(t)
      /\ Requests \subseteq Calls /\ x \in Calls
      /\ req \in [Requests -> Request] /\ refreshing \in [Tabs -> BOOLEAN]
      /\ call \in [Calls -> Handler] /\ AccountsOK
      /\ jar[home[t]] \in Cookie \cup {None}
      /\ Of(t)' = Of(t) /\ Of(t) \subseteq Requests
  BY RequestFacts, ConstantFacts DEF BrowserInv, SessionInv, BrowsersOK, CallsOK, Of
<1> HIDE DEF t
<1>e. ASSUME \A y \in Requests \ Of(t) : req'[y] = req[y] /\ call'[y] = call[y],
             \A q \in Tabs \ {t} : refreshing'[q] = refreshing[q], Waits(t)'
      PROVE  Waits(s)'
  BY <1>0, <1>e, WaitsElsewhere
<1>1. CASE Settle(x)
  <2>1. /\ req[x].at = "sent" /\ req'[x].at = "idle" /\ refreshing' = refreshing
        /\ \A y \in Requests \ {x} : req'[y] = req[y] /\ call'[y] = call[y]
    BY <1>0, <1>1, RestingTyped DEF Settle, Answered
  <2>2. Waits(t)'
    BY <1>0, <2>1 DEF Waits
  <2> QED
    BY <1>0, <1>e, <2>1, <2>2
<1>2. CASE Queue(x)
  <2>1. /\ req[x].at = "sent" /\ req'[x].at = "queued" /\ refreshing' = refreshing
        /\ call'[x].at = "idle"
        /\ \A y \in Requests \ {x} : req'[y] = req[y] /\ call'[y] = call[y]
        /\ refreshing[t]
    BY <1>0, <1>2, IdleTyped DEF Queue, Answered, MustWait, Request, t
  <2>2. Waits(t)'
    BY <1>0, <2>1 DEF Waits
  <2> QED
    BY <1>0, <1>e, <2>1, <2>2
<1>3. CASE Lead(x)
  <2>0. /\ ~refreshing[t] /\ refreshing' = [refreshing EXCEPT ![t] = TRUE]
        /\ call' = [call EXCEPT ![x] = RefreshEntry(jar[home[t]])]
        /\ req' = [req EXCEPT ![x].at = "leading", ![x].retried = TRUE]
    BY <1>3 DEF Lead, MustWait, Refresh, t
  <2>1. /\ RefreshEntry(jar[home[t]]).op = "refresh"
        /\ RefreshEntry(jar[home[t]]).at # "idle"
    BY <1>0, RefreshEntryOK
  <2>2. /\ req'[x].at = "leading" /\ call'[x].op = "refresh" /\ call'[x].at # "idle"
        /\ \A y \in Requests \ {x} : req'[y] = req[y] /\ call'[y] = call[y]
        /\ refreshing'[t] /\ \A q \in Tabs \ {t} : refreshing'[q] = refreshing[q]
    BY <1>0, <2>0, <2>1 DEF Request
  <2>3. Waits(t)'
    BY <1>0, <2>0, <2>2 DEF Waits
  <2> QED
    BY <1>0, <1>e, <2>2, <2>3
<1>4. CASE LeaderBack(x)
  <2> DEFINE xs == {x} \cup Released(t)
             tok == call[x].token
  <2>1. /\ Dispatch(xs, req, tok) /\ req[x].at = "leading"
        /\ refreshing' = [refreshing EXCEPT ![t] = FALSE]
    BY <1>4 DEF LeaderBack, t
  <2>2. /\ xs \in SUBSET Requests /\ xs \subseteq Of(t)
        /\ \A y \in xs : req[y] \in Request
        /\ \A y \in Of(t) \ xs : req[y].at # "queued"
    BY <1>0 DEF Released, Queued
  <2> HIDE DEF xs, tok
  <2>3. /\ \A y \in xs : req'[y].at = "sent" /\ call'[y].at # "idle"
        /\ \A y \in Requests \ xs : req'[y] = req[y] /\ call'[y] = call[y]
    BY <1>0, <2>1, <2>2, Outgoing
  <2>4. \A y \in Of(t) : req'[y].at \notin {"leading", "queued"}
    BY <1>0, <2>1, <2>2, <2>3 DEF Waits, xs
  <2>5. /\ ~refreshing'[t]
        /\ \A y \in Of(t) : req'[y].at = "sent" => call'[y].at # "idle"
    BY <1>0, <2>1, <2>2, <2>3 DEF Waits
  <2>6. Waits(t)'
    BY <1>0, <2>4, <2>5 DEF Waits
  <2> QED
    BY <1>0, <1>e, <2>1, <2>2, <2>3, <2>6
<1>5. CASE LeaderFails(x)
  <2>1. /\ req[x].at = "leading" /\ call' = [call EXCEPT ![x] = Idle]
        /\ refreshing' = [refreshing EXCEPT ![t] = FALSE]
        /\ req' = [y \in Requests |->
                     IF y \in {x} \cup Queued(t) THEN Resting ELSE req[y]]
    BY <1>5 DEF LeaderFails, Answered, t
  <2>2. \A y \in Of(t) : req'[y].at \notin {"leading", "queued"}
    BY <1>0, <2>1, RestingTyped DEF Waits, Queued
  <2>3. \A y \in Of(t) : req'[y].at = "sent" =>
          /\ req[y].at = "sent" /\ y # x /\ call'[y] = call[y]
    BY <1>0, <2>1, RestingTyped
  <2>4. Waits(t)'
    BY <1>0, <2>1, <2>2, <2>3 DEF Waits
  <2>5. \A y \in Requests \ Of(t) : req'[y] = req[y] /\ call'[y] = call[y]
    BY <1>0, <2>1 DEF Queued
  <2> QED
    BY <1>0, <1>e, <2>1, <2>4, <2>5
<1> QED
  BY <1>1, <1>2, <1>3, <1>4, <1>5 DEF Client

LEMMA PageWaits ==
  ASSUME BrowserInv, NEW t \in Tabs, Load(t) \/ Restored(t), NEW s \in Tabs
  PROVE  Waits(s)'
<1>0. /\ Waits(s) /\ call \in [Calls -> Handler] /\ t \notin Requests
      /\ Requests \subseteq Calls /\ Of(s) \subseteq Requests
  BY ConstantFacts DEF BrowserInv, SessionInv, CallsOK, Of
<1>1. refreshing' = refreshing /\ req' = req
  BY DEF Load, Restored
<1>2. \A x \in Requests : call'[x] = call[x]
  BY <1>0 DEF Load, Restored, Refresh, Answered
<1> QED
  BY <1>0, <1>1, <1>2, WaitsOn

-----------------------------------------------------------------------------
LEMMA SessionStarts ==
  ASSUME NEW table, FreshTable(table), SessionInit(table)
  PROVE  BrowserInv
<1>1. /\ account = table /\ call = [c \in Calls |-> Idle] /\ minted = 0
      /\ epoch = [u \in Users |-> 0] /\ missed = [u \in Users |-> 0]
      /\ raced = {}
      /\ token = [t \in Tabs |-> None] /\ req = [x \in Requests |-> Resting]
      /\ refreshing = [t \in Tabs |-> FALSE]
  BY DEF SessionInit, AccountInit
<1>2. AccountsOK
  BY <1>1, ConstantFacts DEF AccountsOK, FreshTable
<1>3. CallsOK
  BY <1>1, IdleTyped DEF CallsOK, InPlace
<1>4. BrowsersOK
  BY <1>1, RestingTyped DEF SessionInit, BrowsersOK
<1>5. ASSUME NEW u \in Users
      PROVE  Vacant(u)
  BY <1>1, IdleTyped, ConstantFacts DEF Vacant, NoTrace, FreshTable
<1>6. ASSUME NEW t \in Tabs
      PROVE  Waits(t)
  BY <1>1, RestingTyped DEF Waits, Of
<1> QED
  BY <1>2, <1>3, <1>4, <1>5, <1>6 DEF BrowserInv, SessionInv

LEMMA SessionSteps ==
  ASSUME BrowserInv, SessionNext
  PROVE  BrowserInv'
<1>0. SessionInv
  BY DEF BrowserInv
<1>1. ASSUME NEW x \in Requests,
             \/ \E kind \in {"get", "logout"} : Send(x, kind)
             \/ \E u \in Users, right \in BOOLEAN : SignIn(x, u, right)
      PROVE  BrowserInv'
  <2>1. SessionInv'
    BY <1>0, <1>1, SendKeeps
  <2>2. \E r \in Request : Sends(x, r)
    BY <1>1 DEF Send, SignIn, Resting, Request
  <2>3. \A t \in Tabs : Waits(t)'
    BY <2>2, SendWaits
  <2> QED
    BY <2>1, <2>3 DEF BrowserInv
<1>2. ASSUME NEW x \in Requests, Client(x)
      PROVE  BrowserInv'
  BY <1>2, ClientStepKeeps, ClientWaits DEF BrowserInv
<1>3. ASSUME NEW t \in Tabs, Load(t) \/ Restored(t)
      PROVE  BrowserInv'
  BY <1>0, <1>3, PageKeeps, PageWaits DEF BrowserInv
<1>4. ASSUME NEW c \in Calls, Offline(Serve(c) \/ Fails(c))
      PROVE  BrowserInv'
  <2>1. /\ UNCHANGED browser
        /\ Serve(c) \/ Fails(c)
    BY <1>4 DEF Offline, browser
  <2> QED
    BY <1>0, <1>4, <2>1, ServeKeeps, ServerWaits DEF BrowserInv
<1>5. ASSUME NEW c \in Desks, Offline(AtDesk(c))
      PROVE  BrowserInv'
  <2>1. UNCHANGED browser /\ AtDesk(c) /\ c \in Calls
    BY <1>5, ConstantFacts DEF Offline, browser
  <2> QED
    BY <1>0, <1>5, <2>1, BeginKeeps, ServerWaits DEF BrowserInv
<1>6. ASSUME NEW u \in Users, Offline(TimePasses(u))
      PROVE  BrowserInv'
  <2>1. /\ \A t \in Tabs : Waits(t) /\ Of(t)' = Of(t)
        /\ UNCHANGED <<call, req, refreshing>>
    BY <1>6 DEF Offline, TimePasses, BrowserInv, Of
  <2>2. \A t \in Tabs : Waits(t)'
    BY <2>1 DEF Waits
  <2> QED
    BY <1>0, <1>6, <2>2, TimeKeeps DEF BrowserInv
<1> QED
  BY <1>1, <1>2, <1>3, <1>4, <1>5, <1>6 DEF SessionNext

(* The invariant under all that follows: what each await leaves in its     *)
(* slot, that sessions are of accounts that are there, and that each tab's *)
(* refresh queue has its leader.                                           *)
THEOREM SessionInductive ==
  ASSUME NEW table, FreshTable(table)
  PROVE  SessionSpec(table) => []BrowserInv
<1>1. SessionInit(table) => BrowserInv
  BY SessionStarts
<1>2. BrowserInv /\ [SessionNext]_sessionVars => BrowserInv'
  <2>1. CASE SessionNext
    BY <2>1, SessionSteps
  <2>2. CASE UNCHANGED sessionVars
    BY <2>2 DEF sessionVars, accountVars, BrowserInv, SessionInv, AccountsOK,
       CallsOK, BrowsersOK, Vacant, Waits, Of
  <2> QED
    BY <2>1, <2>2
<1> QED
  BY <1>1, <1>2, PTL DEF SessionSpec

(* The users table and the handlers keep their types, and nobody is their  *)
(* own alternate, whatever PATCHes overlap.                                *)
THEOREM AccountTypes ==
  ASSUME NEW table, FreshTable(table)
  PROVE  SessionSpec(table) => []AccountTypeOK
<1>1. BrowserInv => AccountTypeOK
  BY DEF BrowserInv, SessionInv, AccountsOK, CallsOK, Handler, AccountTypeOK
<1> QED
  BY <1>1, SessionInductive, PTL

(* A request that waits for its tab's refresh is released or rejected by   *)
(* it: while requests wait, exactly one of the tab's requests leads a      *)
(* refresh that is under way or answered.                                  *)
THEOREM QueueServed ==
  ASSUME NEW table, FreshTable(table)
  PROVE  SessionSpec(table) => []NobodyLeftWaiting
<1>1. ASSUME BrowserInv
      PROVE  NobodyLeftWaiting
  <2> SUFFICES ASSUME NEW t \in Tabs
               PROVE  LET leaders == {x \in Of(t) : req[x].at = "leading"} IN
                      /\ Queued(t) # {} => refreshing[t]
                      /\ Cardinality(leaders) = IF refreshing[t] THEN 1 ELSE 0
                      /\ \A x \in leaders : call[x].op = "refresh"
                      /\ \A x \in Of(t) : req[x].at = "sent" => call[x].at # "idle"
    BY DEF NobodyLeftWaiting
  <2> DEFINE leaders == {x \in Of(t) : req[x].at = "leading"}
  <2>0. Waits(t)
    BY <1>1 DEF BrowserInv
  <2>1. /\ Queued(t) # {} => refreshing[t]
        /\ \A x \in leaders : call[x].op = "refresh"
        /\ \A x \in Of(t) : req[x].at = "sent" => call[x].at # "idle"
    BY <2>0 DEF Waits, Queued
  <2>2. CASE refreshing[t]
    <3>1. PICK x \in Of(t) : leaders = {x}
      BY <2>0, <2>2 DEF Waits
    <3> QED
      BY <2>1, <2>2, <3>1, FS_Singleton
  <2>3. CASE ~refreshing[t]
    <3>1. leaders = {}
      BY <2>0, <2>3 DEF Waits
    <3> QED
      BY <2>1, <2>3, <3>1, FS_EmptySet
  <2> QED
    BY <2>2, <2>3
<1> QED
  BY <1>1, SessionInductive, PTL

-----------------------------------------------------------------------------
(* A claim to version n of u's sessions, read at epoch e, is not ahead of  *)
(* the account, and if it is not behind it, of its present epoch.          *)
Current(u, n, e) ==
  n <= account[u].version /\ (n = account[u].version => e = epoch[u])

(* What the columns of an account, and the handlers and tokens there are   *)
(* of it, say is so, as long as no two handlers that count have met.       *)
Truth(u) ==
  /\ \A c, d \in AtWork(u) : c = d
  /\ \A c \in AtWork(u) : /\ call[c].copy.version = account[u].version
                          /\ call[c].copy.failed = account[u].failed
  /\ account[u].failed = missed[u]
  /\ account[u].locked => missed[u] >= MaxAttempts
  /\ \A t \in Tabs : token[t] # None /\ token[t].user = u =>
       Current(u, token[t].version, token[t].epoch)
  /\ \A c \in Calls : call[c].user = u =>
       /\ call[c].token # None =>
            Current(u, call[c].token.version, call[c].token.epoch)
       /\ call[c].at = "match" => Current(u, call[c].copy.version, call[c].epoch)

Truthful == \A u \in Users \ raced : Truth(u)

(* A step of the server in slot c, which no longer counts after it.        *)
LEMMA ServerTruth ==
  ASSUME BrowserInv, NEW c \in Calls, NEW u \in Users, Truth(u),
         \A d \in Calls \ {c} : call'[d] = call[d], token' = token,
         call'[c].user = u =>
           /\ call'[c].at # "match"
           /\ call'[c].op \in Counting => call'[c].at \notin {"compare", "write"},
         \/ /\ account'[u].version = account[u].version /\ epoch'[u] = epoch[u]
            /\ call'[c].user = u /\ call'[c].token # None =>
                 Current(u, call'[c].token.version, call'[c].token.epoch)
         \/ /\ c \in AtWork(u) /\ account'[u].version = account[u].version + 1
            /\ call'[c].user = u /\ call'[c].token # None =>
                 /\ call'[c].token.version = account'[u].version
                 /\ call'[c].token.epoch = epoch'[u],
         \/ /\ account'[u].failed = account[u].failed /\ missed'[u] = missed[u]
            /\ account'[u].locked = account[u].locked
         \/ /\ c \in AtWork(u) /\ account'[u].failed = missed'[u]
            /\ account'[u].locked => missed'[u] >= MaxAttempts
  PROVE  Truth(u)'
<1>0. /\ account[u] \in Account /\ account[u].version \in Int
      /\ \A d \in Calls : call[d] \in Handler
      /\ \A d \in Calls : /\ call[d].copy.version \in Int
                          /\ call[d].token # None => call[d].token.version \in Int
      /\ \A t \in Tabs : token[t] # None => token[t].version \in Int
  BY ConstantFacts DEF BrowserInv, SessionInv, AccountsOK, CallsOK, BrowsersOK,
     Handler, Account, Tokens
<1>1. AtWork(u)' = AtWork(u) \ {c}
  BY DEF AtWork
<1>2. /\ \A d, e \in AtWork(u)' : d = e
      /\ \A d \in AtWork(u)' : /\ call'[d].copy.version = account'[u].version
                               /\ call'[d].copy.failed = account'[u].failed
  <2>1. c \in AtWork(u) => AtWork(u)' = {}
    BY <1>1 DEF Truth
  <2>2. \A d \in AtWork(u)' : d \in AtWork(u) /\ call'[d] = call[d]
    BY <1>1 DEF AtWork
  <2> QED
    BY <2>1, <2>2 DEF Truth
<1>3. account'[u].failed = missed'[u] /\ (account'[u].locked => missed'[u] >= MaxAttempts)
  BY DEF Truth
<1>4. ASSUME NEW n \in Int, NEW e, Current(u, n, e)
      PROVE  Current(u, n, e)'
  BY <1>0, <1>4 DEF Current
<1>5. ASSUME NEW t \in Tabs, token'[t] # None, token'[t].user = u
      PROVE  Current(u, token[t].version, token[t].epoch)'
  <2>1. token'[t] = token[t] /\ Current(u, token[t].version, token[t].epoch)
    BY <1>5 DEF Truth
  <2> DEFINE n == token[t].version
             e == token[t].epoch
  <2>2. n \in Int /\ Current(u, n, e)
    BY <1>0, <1>5, <2>1
  <2>3. token'[t].version = n /\ token'[t].epoch = e
    BY <2>1
  <2> HIDE DEF n, e
  <2>4. n <= account'[u].version /\ (n = account'[u].version => e = epoch'[u])
    BY <1>0, <2>2 DEF Current
  <2> QED
    BY <2>3, <2>4 DEF Current
<1>6. ASSUME NEW d \in Calls, call'[d].user = u
      PROVE  /\ call'[d].token # None =>
                  Current(u, call[d].token.version, call[d].token.epoch)'
             /\ call'[d].at = "match" =>
                  Current(u, call[d].copy.version, call[d].epoch)'
  <2>1. CASE d # c
    <3>1. call'[d] = call[d] /\ call[d].user = u
      BY <1>6, <2>1
    <3>2. call[d].token # None =>
            /\ call[d].token.version \in Int
            /\ Current(u, call[d].token.version, call[d].token.epoch)
      BY <1>0, <3>1 DEF Truth
    <3>3. call[d].at = "match" =>
            /\ call[d].copy.version \in Int
            /\ Current(u, call[d].copy.version, call[d].epoch)
      BY <1>0, <3>1 DEF Truth
    <3> QED
      BY <1>0, <3>1, <3>2, <3>3 DEF Current
  <2>2. CASE d = c
    BY <1>0, <1>6, <2>2 DEF Current
  <2> QED
    BY <2>1, <2>2
<1> QED
  BY <1>2, <1>3, <1>5, <1>6 DEF Truth

(* A step of a browser or an administrator, who read the account as it is. *)
LEMMA ClientTruth ==
  ASSUME NEW u \in Users, Truth(u), UNCHANGED <<account, epoch, missed>>,
         \A c, d \in AtWork(u)' : c = d,
         \A c \in Calls : call'[c] = call[c] \/
           (call'[c].user = u =>
              /\ c \in AtWork(u)' => call'[c].copy = account[u]
              /\ call'[c].token # None =>
                   Current(u, call'[c].token.version, call'[c].token.epoch)
              /\ call'[c].at = "match" => /\ call'[c].copy = account[u]
                                          /\ call'[c].epoch = epoch[u]
                                          /\ account[u].version \in Int),
         \A t \in Tabs : token'[t] # None /\ token'[t].user = u =>
           Current(u, token'[t].version, token'[t].epoch)
  PROVE  Truth(u)'
<1>1. ASSUME NEW c \in AtWork(u)'
      PROVE  /\ call'[c].copy.version = account'[u].version
             /\ call'[c].copy.failed = account'[u].failed
  BY <1>1 DEF Truth, AtWork
<1>2. ASSUME NEW t \in Tabs, token'[t] # None, token'[t].user = u
      PROVE  Current(u, token[t].version, token[t].epoch)'
  BY <1>2 DEF Current
<1>3. ASSUME NEW c \in Calls, call'[c].user = u
      PROVE  /\ call'[c].token # None =>
                  Current(u, call[c].token.version, call[c].token.epoch)'
             /\ call'[c].at = "match" =>
                  Current(u, call[c].copy.version, call[c].epoch)'
  BY <1>3 DEF Truth, Current
<1>4. account'[u].failed = missed'[u] /\ (account'[u].locked => missed'[u] >= MaxAttempts)
  BY DEF Truth
<1> QED
  BY <1>1, <1>2, <1>3, <1>4 DEF Truth

(* What a step of the server touches, and where it leaves its slot.        *)
LEMMA ServedRow ==
  ASSUME SessionInv, NEW c \in Calls, Serve(c) \/ Fails(c)
  PROVE  /\ \A v \in Users \ {call[c].user} :
              /\ account'[v] = account[v]
              /\ epoch'[v] = epoch[v] /\ missed'[v] = missed[v]
         /\ raced' = raced
         /\ call'[c].user \in {call[c].user, None}
         /\ call'[c].at # "match"
         /\ call'[c].op \in Counting => call'[c].at \notin {"compare", "write"}
<1>0. /\ AccountsOK /\ CallsOK /\ call \in [Calls -> Handler] /\ call[c] \in Handler
      /\ HandlerOK(call[c])
      /\ account \in [Users -> Account] /\ epoch \in [Users -> Nat]
      /\ missed \in [Users -> Nat]
  BY DEF SessionInv, CallsOK, AccountsOK
<1>a. ASSUME NEW result, Reply(c, result)
      PROVE  /\ call'[c].user = call[c].user /\ call'[c].at = "reply"
  <2>1. call'[c] = Answer(c, result)
    BY <1>0, <1>a DEF Reply
  <2> QED
    BY <1>0, <2>1, AnswerIs
<1>1. CASE ReadAlternate(c)
  <2>1. CASE call' = [call EXCEPT ![c] = Idle]
    <3>1. call'[c] = Idle
      BY <1>0, <2>1
    <3> QED
      BY <1>1, <3>1, IdleTyped DEF ReadAlternate
  <2>2. CASE call' = [call EXCEPT ![c].at = "write"]
    <3>1. call[c].op = "update"
      BY <1>0, <1>1 DEF ReadAlternate, HandlerOK
    <3>2. call'[c].user = call[c].user /\ call'[c].op = "update" /\ call'[c].at = "write"
      BY <1>0, <2>2, <3>1 DEF Handler
    <3> QED
      BY <1>1, <3>2 DEF ReadAlternate, Counting
  <2> QED
    BY <1>1, <2>1, <2>2 DEF ReadAlternate, Goto
<1>2. CASE Write(c)
  <2>1. call'[c] = Idle
    BY <1>0, <1>2 DEF Write
  <2>2. \A v \in Users \ {call[c].user} :
          /\ account'[v] = account[v]
          /\ epoch'[v] = epoch[v] /\ missed'[v] = missed[v]
    BY <1>0, <1>2 DEF Write
  <2>3. raced' = raced
    BY <1>2 DEF Write
  <2> QED
    BY <2>1, <2>2, <2>3, IdleTyped
<1>3. CASE RefuseLogin(c)
  BY <1>0, <1>3, <1>a DEF RefuseLogin
<1>4. CASE AcceptLogin(c)
  <2>1. call'[c].user = call[c].user /\ call'[c].at \in {"reply", "store"}
    BY <1>0, <1>4, <1>a DEF AcceptLogin, Handler
  <2>2. /\ \A v \in Users \ {call[c].user} :
             /\ account'[v] = account[v]
             /\ epoch'[v] = epoch[v] /\ missed'[v] = missed[v]
        /\ raced' = raced
    BY <1>0, <1>4 DEF AcceptLogin
  <2> QED
    BY <2>1, <2>2
<1>5. CASE StoreRefresh(c)
  <2>1. call'[c] = [Answer(c, "ok") EXCEPT !.token = call[c].token, !.cookie = minted']
    BY <1>0, <1>5 DEF StoreRefresh
  <2>2. call'[c].user = call[c].user /\ call'[c].at = "reply"
    BY <2>1 DEF Answer, Idle
  <2> QED
    BY <1>0, <1>5, <2>2 DEF StoreRefresh
<1>6. CASE DropReused(c) \/ Logout(c) \/ Fails(c)
  BY <1>0, <1>6, <1>a DEF DropReused, Logout, Fails
<1>7. CASE Rotate(c)
  <2>1. call'[c].user = call[c].user /\ call'[c].at = "store"
    BY <1>0, <1>7 DEF Rotate, Handler
  <2> QED
    BY <1>7, <2>1 DEF Rotate
<1>8. CASE Guard(c)
  <2>1. call'[c].user = call[c].user /\ call'[c].at \in {"drop", "reply"}
    BY <1>0, <1>8, <1>a DEF Guard, Goto, Handler
  <2> QED
    BY <1>8, <2>1 DEF Guard
<1> QED
  BY <1>1, <1>2, <1>3, <1>4, <1>5, <1>6, <1>7, <1>8 DEF Serve

LEMMA WrittenCounts ==
  ASSUME NEW op \in DeskOps, NEW r \in Account, NEW c \in Account,
         NEW x \in DeskWork[op],
         op \in {"reset", "revoke"} => c.version < MaxVersion,
         NEW w, w = Written(op, r, c, x)
  PROVE  /\ op \in {"reset", "unlock", "activate"} => w.failed = 0 /\ ~w.locked
         /\ op \in {"update", "available", "role", "revoke", "deactivate"} =>
              w.failed = r.failed /\ w.locked = r.locked
         /\ op \in {"reset", "revoke"} => w.version = c.version + 1
         /\ op \notin {"create", "reset", "revoke"} => w.version = r.version
BY ZenonT(60), WrittenIs

LEMMA WriteTruth ==
  ASSUME BrowserInv, NEW c \in Calls, Write(c), token' = token,
         NEW u \in Users, u = call[c].user, Truth(u)
  PROVE  Truth(u)'
<1> DEFINE op == call[c].op
           k == call[c].copy
           x == call[c].arg
           w == Written(op, account[u], k, x)
<1>0. /\ SessionInv /\ AccountsOK /\ CallsOK /\ call[c] \in Handler
      /\ HandlerOK(call[c]) /\ call[c].at = "write" /\ Vacant(u)
      /\ account \in [Users -> Account] /\ epoch \in [Users -> Nat]
      /\ missed \in [Users -> Nat] /\ call \in [Calls -> Handler]
  BY DEF BrowserInv, SessionInv, CallsOK, AccountsOK, Write
<1>1. /\ op \in DeskOps /\ x \in DeskWork[op]
      /\ op \in {"reset", "revoke"} => k.version < MaxVersion
      /\ k \in Account /\ account[u] \in Account
  BY <1>0 DEF HandlerOK, Handler
<1>2. /\ call'[c] = Idle /\ \A d \in Calls \ {c} : call'[d] = call[d]
      /\ epoch'[u] = IF op \in {"reset", "revoke"} THEN epoch[u] + 1 ELSE epoch[u]
      /\ missed'[u] = IF op \in {"reset", "unlock", "activate"} THEN 0 ELSE missed[u]
  BY <1>0 DEF Write
<1>3. /\ call'[c].user # u /\ call'[c].at = "idle"
  BY <1>2, IdleTyped, ConstantFacts
<1>4. op \in Counting => c \in AtWork(u)
  BY <1>0 DEF AtWork
<1>5. CASE op = "create"
  <2>1. /\ account'[u].version = account[u].version
        /\ account'[u].failed = account[u].failed
        /\ account'[u].locked = account[u].locked
    <3>1. CASE account[u].role # None
      BY <1>5, <3>1 DEF Write
    <3>2. CASE account[u].role = None
      <4>1. account'[u] = [NoAccount EXCEPT !.role = x, !.active = TRUE]
        BY <1>0, <1>5, <3>2 DEF Write, Written, Created
      <4>2. account[u] = NoAccount
        BY <1>0, <3>2 DEF Vacant
      <4> QED
        BY <4>1, <4>2 DEF NoAccount
    <3> QED
      BY <3>1, <3>2
  <2>2. epoch'[u] = epoch[u] /\ missed'[u] = missed[u]
    BY <1>2, <1>5
  <2> QED
    BY <1>2, <1>3, <2>1, <2>2, ServerTruth
<1>6. CASE op # "create"
  <2>1. account'[u] = w
    BY <1>0, <1>6 DEF Write
  <2> HIDE DEF op, k, x, w
  <2>2. /\ op \in {"reset", "unlock", "activate"} => w.failed = 0 /\ ~w.locked
        /\ op \in {"update", "available", "role", "revoke", "deactivate"} =>
             w.failed = account[u].failed /\ w.locked = account[u].locked
        /\ op \in {"reset", "revoke"} => w.version = k.version + 1
        /\ op \notin {"create", "reset", "revoke"} => w.version = account[u].version
    BY <1>1, WrittenCounts DEF w
  <2>3. c \in AtWork(u) => k.version = account[u].version
    BY DEF Truth, k
  <2>4. CASE op \in {"reset", "revoke"}
    <3>1. /\ c \in AtWork(u) /\ account'[u].version = account[u].version + 1
          /\ epoch'[u] = epoch[u] + 1
      BY <1>2, <1>4, <2>1, <2>2, <2>3, <2>4 DEF Counting
    <3>2. \/ /\ account'[u].failed = account[u].failed /\ missed'[u] = missed[u]
             /\ account'[u].locked = account[u].locked
          \/ /\ account'[u].failed = missed'[u] /\ ~account'[u].locked
      BY <1>2, <2>1, <2>2, <2>4
    <3> QED
      BY <1>2, <1>3, <3>1, <3>2, ServerTruth
  <2>5. CASE op \notin {"reset", "revoke"}
    <3>1. account'[u].version = account[u].version /\ epoch'[u] = epoch[u]
      BY <1>2, <1>6, <2>1, <2>2, <2>5
    <3>2. \/ /\ account'[u].failed = account[u].failed /\ missed'[u] = missed[u]
             /\ account'[u].locked = account[u].locked
          \/ /\ c \in AtWork(u)
             /\ account'[u].failed = missed'[u] /\ ~account'[u].locked
      BY <1>1, <1>2, <1>4, <1>6, <2>1, <2>2, <2>5 DEF Counting, DeskOps
    <3> QED
      BY <1>2, <1>3, <3>1, <3>2, ServerTruth
  <2> QED
    BY <2>4, <2>5
<1> QED
  BY <1>5, <1>6

LEMMA AuthTruth ==
  ASSUME BrowserInv, NEW c \in Calls, Serve(c) \/ Fails(c), ~Write(c),
         token' = token, NEW u \in Users, u = call[c].user, Truth(u)
  PROVE  Truth(u)'
<1>0. /\ SessionInv /\ AccountsOK /\ CallsOK /\ call[c] \in Handler
      /\ HandlerOK(call[c])
      /\ account \in [Users -> Account] /\ epoch \in [Users -> Nat]
      /\ missed \in [Users -> Nat] /\ call \in [Calls -> Handler]
      /\ account[u] \in Account /\ call[c].copy \in Account
  BY DEF BrowserInv, SessionInv, CallsOK, AccountsOK, Handler
<1>1. /\ \A d \in Calls \ {c} : call'[d] = call[d]
      /\ call'[c].at # "match"
      /\ call'[c].op \in Counting => call'[c].at \notin {"compare", "write"}
  BY <1>0, OthersStay, ServedRow
<1>2. call[c].at = "compare" => c \in AtWork(u)
  BY <1>0 DEF AtWork, HandlerOK, Counting
<1>3. c \in AtWork(u) => /\ call[c].copy.version = account[u].version
                         /\ call[c].copy.failed = account[u].failed
  BY DEF Truth
<1>q. ASSUME account'[u].version = account[u].version, epoch'[u] = epoch[u],
             account'[u].failed = account[u].failed, missed'[u] = missed[u],
             account'[u].locked = account[u].locked,
             call'[c].token # None =>
               Current(u, call'[c].token.version, call'[c].token.epoch)
      PROVE  Truth(u)'
  BY <1>1, <1>q, ServerTruth
<1>a. ASSUME NEW result, Reply(c, result)
      PROVE  call'[c].token = None
  <2>1. call'[c] = Answer(c, result)
    BY <1>0, <1>a DEF Reply
  <2> QED
    BY <1>0, <2>1, AnswerIs
<1>4. CASE ReadAlternate(c)
  <2>1. call[c].token = None
    BY <1>0, <1>4 DEF HandlerOK, ReadAlternate
  <2>2. call'[c].token = None
    <3>1. call' \in {[call EXCEPT ![c] = Idle], [call EXCEPT ![c].at = "write"]}
      BY <1>4 DEF ReadAlternate, Goto
    <3> QED
      BY <1>0, <2>1, <3>1, IdleTyped DEF Handler
  <2> QED
    BY <1>4, <1>q, <2>2 DEF ReadAlternate
<1>5. CASE RefuseLogin(c)
  <2> DEFINE k == call[c].copy
             w == Attempt(account[u], k)
  <2>1. account'[u] = w /\ k.failed < MaxFailed /\ k \in Account
    BY <1>0, <1>5 DEF RefuseLogin
  <2> HIDE DEF k, w
  <2>2. /\ w.failed = k.failed + 1 /\ (w.locked <=> k.failed + 1 >= MaxAttempts)
        /\ w.version = account[u].version
    BY <1>0, <2>1, AttemptIs DEF w
  <2>3. c \in AtWork(u) /\ k.failed = account[u].failed
    BY <1>2, <1>3, <1>5 DEF RefuseLogin, k
  <2>4. /\ missed'[u] = missed[u] + 1 /\ epoch'[u] = epoch[u]
        /\ account[u].failed = missed[u]
    BY <1>0, <1>5 DEF RefuseLogin, Truth
  <2>5. call'[c].token = None
    BY <1>5, <1>a DEF RefuseLogin
  <2>6. /\ account'[u].version = account[u].version
        /\ account'[u].failed = missed'[u]
        /\ account'[u].locked => missed'[u] >= MaxAttempts
    BY <2>1, <2>2, <2>3, <2>4
  <2> QED
    BY <1>1, <2>3, <2>4, <2>5, <2>6, ServerTruth
<1>6. CASE AcceptLogin(c) /\ call[c].copy.active
  <2> DEFINE k == call[c].copy
             w == SignedIn(account[u], k)
  <2>1. account'[u] = w /\ k.version < MaxVersion /\ k \in Account
    BY <1>0, <1>6 DEF AcceptLogin
  <2>2. /\ call'[c].token = [user |-> u, version |-> k.version + 1,
                             epoch |-> epoch[u] + 1]
        /\ epoch'[u] = epoch[u] + 1 /\ missed'[u] = 0
    BY <1>0, <1>6 DEF AcceptLogin, Handler
  <2> HIDE DEF k, w
  <2>3. w.failed = 0 /\ ~w.locked /\ w.version = k.version + 1
    BY <1>0, <2>1, SignedInIs DEF w
  <2>4. c \in AtWork(u) /\ k.version = account[u].version
    BY <1>2, <1>3, <1>6 DEF AcceptLogin, k
  <2>5. /\ account'[u].version = account[u].version + 1
        /\ account'[u].failed = missed'[u] /\ ~account'[u].locked
        /\ call'[c].token.version = account'[u].version
        /\ call'[c].token.epoch = epoch'[u]
    BY <2>1, <2>2, <2>3, <2>4
  <2> QED
    BY <1>1, <2>4, <2>5, ServerTruth
<1>7. CASE AcceptLogin(c) /\ ~call[c].copy.active
  BY <1>7, <1>a, <1>q DEF AcceptLogin
<1>8. CASE StoreRefresh(c)
  <2> DEFINE w == Stored(account[u], minted + 1)
  <2>1. account'[u] = w /\ minted + 1 \in 1..MaxTokens
    BY <1>0, <1>8, ConstantFacts DEF StoreRefresh, AccountsOK
  <2> HIDE DEF w
  <2>2. /\ w.version = account[u].version /\ w.failed = account[u].failed
        /\ w.locked = account[u].locked
    BY <1>0, <2>1, StoredIs DEF w
  <2>3. call'[c] = [Answer(c, "ok") EXCEPT !.token = call[c].token, !.cookie = minted']
    BY <1>0, <1>8 DEF StoreRefresh
  <2>4. call'[c].token = call[c].token
    BY <2>3 DEF Answer, Idle
  <2>5. call[c].token # None =>
          Current(u, call[c].token.version, call[c].token.epoch)
    BY DEF Truth
  <2>6. epoch'[u] = epoch[u] /\ missed'[u] = missed[u]
    BY <1>8 DEF StoreRefresh
  <2> QED
    BY <1>q, <2>1, <2>2, <2>4, <2>5, <2>6
<1>9. CASE DropReused(c) \/ Logout(c)
  <2> DEFINE w == Dropped(account[u])
  <2>1. account'[u] = w
    BY <1>0, <1>9 DEF DropReused, Logout
  <2> HIDE DEF w
  <2>2. /\ w.version = account[u].version /\ w.failed = account[u].failed
        /\ w.locked = account[u].locked
    BY <1>0, DroppedIs DEF w
  <2>3. call'[c].token = None
    BY <1>9, <1>a DEF DropReused, Logout
  <2>4. epoch'[u] = epoch[u] /\ missed'[u] = missed[u]
    BY <1>9 DEF DropReused, Logout
  <2> QED
    BY <1>q, <2>1, <2>2, <2>3, <2>4
<1>10. CASE Rotate(c)
  <2>1. call'[c].token = [user |-> u, version |-> call[c].copy.version,
                          epoch |-> call[c].epoch]
    BY <1>0, <1>10 DEF Rotate, Handler
  <2>2. Current(u, call[c].copy.version, call[c].epoch)
    BY <1>10 DEF Rotate, Truth
  <2>3. UNCHANGED <<account, epoch, missed>>
    BY <1>10 DEF Rotate
  <2> QED
    BY <1>q, <2>1, <2>2, <2>3
<1>11. CASE Guard(c)
  <2>1. call'[c].token \in {None, call[c].token}
    BY <1>0, <1>11, <1>a DEF Guard, Goto, Handler
  <2>2. call[c].token # None =>
          Current(u, call[c].token.version, call[c].token.epoch)
    BY DEF Truth
  <2>3. UNCHANGED <<account, epoch, missed>>
    BY <1>11 DEF Guard
  <2> QED
    BY <1>q, <2>1, <2>2, <2>3
<1>12. CASE Fails(c)
  BY <1>12, <1>a, <1>q DEF Fails
<1> QED
  BY <1>4, <1>5, <1>6, <1>7, <1>8, <1>9, <1>10, <1>11, <1>12 DEF Serve

LEMMA ServeTruth ==
  ASSUME BrowserInv, NEW c \in Calls, Offline(Serve(c) \/ Fails(c)),
         NEW u \in Users, Truth(u)
  PROVE  Truth(u)' /\ raced' = raced
<1>0. /\ SessionInv /\ CallsOK /\ token' = token
      /\ Serve(c) \/ Fails(c)
  BY DEF BrowserInv, SessionInv, Offline
<1>1. raced' = raced
  BY <1>0, ServedRow
<1>2. CASE u = call[c].user
  BY <1>0, <1>2, <1>1, WriteTruth, AuthTruth
<1>3. CASE u # call[c].user
  <2>1. /\ account'[u] = account[u]
        /\ epoch'[u] = epoch[u] /\ missed'[u] = missed[u]
        /\ call'[c].user # u
    BY <1>0, <1>3, ServedRow, ConstantFacts
  <2>2. \A d \in Calls \ {c} : call'[d] = call[d]
    BY <1>0, OthersStay
  <2> QED
    BY <1>0, <1>1, <2>1, <2>2, ServerTruth
<1> QED
  BY <1>2, <1>3

(* A token in use, be it a tab's or an answer's, is current.               *)
LEMMA TokensCurrent ==
  ASSUME BrowserInv, NEW u \in Users, Truth(u)
  PROVE  /\ \A t \in Tabs : token[t] # None /\ token[t].user = u =>
              Current(u, token[t].version, token[t].epoch)
         /\ \A c \in Calls : call[c].token # None /\ call[c].token.user = u =>
              Current(u, call[c].token.version, call[c].token.epoch)
<1>1. \A c \in Calls : call[c].token # None => call[c].token.user = call[c].user
  BY LiveTokens DEF BrowserInv
<1> QED
  BY <1>1 DEF Truth

LEMMA DispatchTruth ==
  ASSUME BrowserInv, NEW xs \in SUBSET Requests, NEW rs, NEW tok,
         Dispatch(xs, rs, tok), NEW u \in Users, u \notin raced', Truth(u),
         \A x \in xs : /\ rs[x] \in Request
                       /\ rs[x].kind = "login" => rs[x].user \in Users
                       /\ rs[x].kind # "login" => tok \in Tokens /\ tok # None,
         tok # None /\ tok.user = u => Current(u, tok.version, tok.epoch),
         \A t \in Tabs : token'[t] = token[t] \/ token'[t] = tok
  PROVE  Truth(u)'
<1>0. /\ AccountsOK /\ UNCHANGED <<account, epoch, missed>>
      /\ Requests \subseteq Calls
  BY ConstantFacts DEF BrowserInv, SessionInv, Dispatch
<1>1. \A c, d \in AtWork(u)' : c = d
  BY DEF Dispatch, Meet, Overlap
<1>2. ASSUME NEW c \in Calls, c \in xs, call'[c].user = u
      PROVE  /\ c \in AtWork(u)' => call'[c].copy = account[u]
             /\ call'[c].token # None =>
                  Current(u, call'[c].token.version, call'[c].token.epoch)
             /\ call'[c].at # "match"
  <2>0. rs[c] \in Request
    BY <1>2
  <2>1. CASE rs[c].kind = "login"
    <3>1. call'[c] = LoginEntry(rs[c].user, rs[c].right)
      BY <1>0, <1>2, <2>1 DEF Dispatch
    <3>2. rs[c].user \in Users /\ rs[c].right \in BOOLEAN
      BY <1>2, <2>0, <2>1 DEF Request
    <3>3. /\ call'[c].user = rs[c].user /\ call'[c].token = None
          /\ call'[c].at \in {"compare", "reply"}
          /\ call'[c].at = "compare" => call'[c].copy = account[rs[c].user]
      BY <1>0, <3>1, <3>2, LoginEntryOK
    <3> QED
      BY <1>2, <3>3 DEF AtWork
  <2>2. CASE rs[c].kind # "login"
    <3>1. call'[c] = GuardedEntry(rs[c].kind, tok)
      BY <1>0, <1>2, <2>2 DEF Dispatch
    <3>2. rs[c].kind \in {"get", "logout"} /\ tok \in Tokens /\ tok # None
      BY <1>2, <2>0, <2>2 DEF Request
    <3>3. /\ call'[c].user = tok.user /\ call'[c].token = tok
          /\ call'[c].at = "guard"
      BY <3>1, <3>2, GuardedEntryOK
    <3> QED
      BY <1>2, <3>2, <3>3 DEF AtWork
  <2> QED
    BY <2>1, <2>2
<1>3. \A c \in Calls : c \notin xs => call'[c] = call[c]
  BY DEF Dispatch
<1>4. \A t \in Tabs : token'[t] # None /\ token'[t].user = u =>
        Current(u, token'[t].version, token'[t].epoch)
  BY TokensCurrent
<1> QED
  BY <1>0, <1>1, <1>2, <1>3, <1>4, ClientTruth

LEMMA SendTruth ==
  ASSUME BrowserInv, NEW x \in Requests,
         \/ \E kind \in {"get", "logout"} : Send(x, kind)
         \/ \E u \in Users, right \in BOOLEAN : SignIn(x, u, right),
         NEW u \in Users, u \notin raced', Truth(u)
  PROVE  Truth(u)'
<1>1. PICK r \in Request :
        /\ Sends(x, r)
        /\ r.kind = "login" => r.user \in Users
        /\ r.kind # "login" => token[Sender[x]] # None
  <2>1. ASSUME NEW kind \in {"get", "logout"}, Send(x, kind)
        PROVE  /\ [Resting EXCEPT !.kind = kind] \in Request
               /\ [Resting EXCEPT !.kind = kind].kind # "login"
               /\ Sends(x, [Resting EXCEPT !.kind = kind])
               /\ token[Sender[x]] # None
    BY <2>1 DEF Send, Resting, Request
  <2>2. ASSUME NEW v \in Users, NEW right \in BOOLEAN, SignIn(x, v, right)
        PROVE  \E r \in Request :
                 r.kind = "login" /\ r.user = v /\ Sends(x, r)
    <3> DEFINE r == [Resting EXCEPT !.kind = "login", !.user = v, !.right = right]
    <3>1. r \in Request /\ r.kind = "login" /\ r.user = v
      BY DEF Resting, Request
    <3>2. Sends(x, r)
      BY <2>2 DEF SignIn
    <3> HIDE DEF r
    <3> QED
      BY <3>1, <3>2
  <2> QED
    BY <2>1, <2>2
<1> DEFINE rs == [req EXCEPT ![x] = r]
           tok == token[Sender[x]]
           xs == {x}
<1>2. /\ Dispatch(xs, rs, tok) /\ xs \in SUBSET Requests /\ token' = token
      /\ Sender[x] \in Tabs
  BY <1>1, ConstantFacts DEF Sends
<1>3. \A y \in xs : rs[y] = r
  BY DEF BrowserInv, SessionInv, BrowsersOK
<1>4. /\ tok # None => tok \in Tokens
      /\ tok # None /\ tok.user = u => Current(u, tok.version, tok.epoch)
  BY <1>2, TokensCurrent DEF BrowserInv, SessionInv, BrowsersOK
<1>5. \A y \in xs : /\ rs[y] \in Request
                    /\ rs[y].kind = "login" => rs[y].user \in Users
                    /\ rs[y].kind # "login" => tok \in Tokens /\ tok # None
  BY <1>1, <1>3, <1>4
<1> HIDE DEF rs, tok, xs
<1> QED
  BY <1>2, <1>4, <1>5, DispatchTruth

(* A refresh that starts reads the account as it is.                       *)
LEMMA RefreshTruth ==
  ASSUME BrowserInv, NEW c \in Calls, NEW cookie \in Cookie \cup {None},
         Refresh(c, cookie), NEW u \in Users, Truth(u),
         \A t \in Tabs : token'[t] \in {token[t], None}
  PROVE  Truth(u)'
<1> DEFINE h == RefreshEntry(cookie)
<1>0. /\ AccountsOK /\ UNCHANGED <<account, epoch, missed>>
      /\ call \in [Calls -> Handler] /\ call' = [call EXCEPT ![c] = h]
      /\ account[u].version \in Int
  BY ConstantFacts DEF BrowserInv, SessionInv, CallsOK, Refresh, AccountsOK, Account
<1>1. /\ h.op = "refresh" /\ h.token = None
      /\ h.at = "match" => h.copy = account[h.user] /\ h.epoch = epoch[h.user]
  BY <1>0, RefreshEntryOK
<1> HIDE DEF h
<1>2. c \notin AtWork(u)' /\ \A d \in Calls \ {c} : call'[d] = call[d]
  BY <1>0, <1>1 DEF AtWork, Counting
<1>3. \A d, e \in AtWork(u)' : d = e
  <2>1. \A d \in AtWork(u)' : d \in AtWork(u)
    BY <1>2 DEF AtWork
  <2> QED
    BY <2>1 DEF Truth
<1>4. call'[c] = h
  BY <1>0
<1>5. \A t \in Tabs : token'[t] # None /\ token'[t].user = u =>
        Current(u, token'[t].version, token'[t].epoch)
  BY TokensCurrent
<1> QED
  BY <1>0, <1>1, <1>2, <1>3, <1>4, <1>5, ClientTruth

(* An answer that is taken leaves the accounts alone.                      *)
LEMMA AnswerTruth ==
  ASSUME BrowserInv, NEW c \in Calls, Answered(c),
         UNCHANGED <<account, epoch, missed>>, NEW u \in Users, Truth(u),
         \A t \in Tabs : token'[t] \in {token[t], call[c].token, None}
  PROVE  Truth(u)'
<1>0. call \in [Calls -> Handler] /\ call' = [call EXCEPT ![c] = Idle]
  BY DEF BrowserInv, SessionInv, CallsOK, Answered
<1>1. /\ call'[c].user # u /\ \A d \in Calls \ {c} : call'[d] = call[d]
  BY <1>0, IdleTyped, ConstantFacts
<1>2. \A d, e \in AtWork(u)' : d = e
  <2>1. \A d \in AtWork(u)' : d \in AtWork(u)
    BY <1>1 DEF AtWork
  <2> QED
    BY <2>1 DEF Truth
<1>3. \A t \in Tabs : token'[t] # None /\ token'[t].user = u =>
        Current(u, token'[t].version, token'[t].epoch)
  BY TokensCurrent
<1> QED
  BY <1>1, <1>2, <1>3, ClientTruth

LEMMA BrowserTruth ==
  ASSUME BrowserInv, NEW u \in Users, u \notin raced', Truth(u),
         \/ \E x \in Requests : Client(x)
         \/ \E t \in Tabs : Load(t) \/ Restored(t)
  PROVE  Truth(u)'
<1>0. /\ BrowsersOK /\ CallsOK /\ Requests \cup Tabs \subseteq Calls
      /\ \A x \in Requests : Sender[x] \in Tabs
      /\ \A t \in Tabs : jar[home[t]] \in Cookie \cup {None}
  BY ConstantFacts DEF BrowserInv, SessionInv, BrowsersOK
<1>1. ASSUME NEW x \in Requests, Settle(x) \/ Queue(x) \/ LeaderFails(x)
      PROVE  Truth(u)'
  <2>1. /\ Answered(x) /\ UNCHANGED <<account, epoch, missed>>
        /\ \A t \in Tabs : token'[t] \in {token[t], call[x].token, None}
    BY <1>0, <1>1 DEF Settle, Queue, LeaderFails, BrowsersOK
  <2> QED
    BY <1>0, <2>1, AnswerTruth
<1>2. ASSUME NEW x \in Requests, Lead(x)
      PROVE  Truth(u)'
  <2>1. /\ Refresh(x, jar[home[Sender[x]]])
        /\ \A t \in Tabs : token'[t] \in {token[t], None}
    BY <1>2 DEF Lead
  <2> QED
    BY <1>0, <2>1, RefreshTruth
<1>3. ASSUME NEW x \in Requests, LeaderBack(x)
      PROVE  Truth(u)'
  <2> DEFINE xs == {x} \cup Released(Sender[x])
             tok == call[x].token
  <2>1. /\ Dispatch(xs, req, tok) /\ xs \in SUBSET Requests
        /\ \A t \in Tabs : token'[t] = token[t] \/ token'[t] = tok
    BY <1>0, <1>3 DEF LeaderBack, Released, Queued, Of, BrowsersOK
  <2>2. tok \in Tokens /\ tok # None
    <3>1. /\ call[x].op = "refresh" /\ call[x].at = "reply" /\ call[x].result = "ok"
          /\ HandlerOK(call[x])
      BY <1>0, <1>3 DEF LeaderBack, BrowserInv, Waits, Of, CallsOK
    <3>2. call[x].token # None
      BY <3>1 DEF HandlerOK
    <3> QED
      BY <1>0, <3>2, LiveTokens DEF BrowserInv
  <2>3. tok # None /\ tok.user = u => Current(u, tok.version, tok.epoch)
    BY <1>0, TokensCurrent
  <2>4. \A y \in xs : /\ req[y] \in Request
                      /\ req[y].kind = "login" => req[y].user \in Users
                      /\ req[y].kind # "login" => tok \in Tokens /\ tok # None
    BY <1>0, <2>1, <2>2 DEF BrowsersOK
  <2> HIDE DEF xs, tok
  <2> QED
    BY <2>1, <2>3, <2>4, DispatchTruth
<1>4. ASSUME NEW t \in Tabs, Load(t)
      PROVE  Truth(u)'
  <2>1. /\ Refresh(t, jar[home[t]])
        /\ \A s \in Tabs : token'[s] \in {token[s], None}
    BY <1>0, <1>4 DEF Load, BrowsersOK
  <2> QED
    BY <1>0, <2>1, RefreshTruth
<1>5. ASSUME NEW t \in Tabs, Restored(t)
      PROVE  Truth(u)'
  <2>1. /\ Answered(t) /\ UNCHANGED <<account, epoch, missed>>
        /\ \A s \in Tabs : token'[s] \in {token[s], call[t].token, None}
    BY <1>0, <1>5 DEF Restored, BrowsersOK
  <2> QED
    BY <1>0, <2>1, AnswerTruth
<1> QED
  BY <1>1, <1>2, <1>3, <1>4, <1>5 DEF Client

LEMMA DeskTruth ==
  ASSUME BrowserInv, NEW c \in Desks, Offline(AtDesk(c)),
         NEW u \in Users, u \notin raced', Truth(u)
  PROVE  Truth(u)'
<1>0. /\ call \in [Calls -> Handler] /\ c \in Calls
      /\ UNCHANGED <<account, epoch, missed, token>>
      /\ \A d, e \in AtWork(u)' : d = e
  BY ConstantFacts DEF BrowserInv, SessionInv, CallsOK, Offline, AtDesk, Begin,
     Meet, Overlap
<1>1. PICK op \in DeskOps, v \in Users : \E x \in DeskWork[op] : Begin(c, op, v, x)
  BY DeskOpsAre DEF Offline, AtDesk
<1>2. /\ \A d \in Calls \ {c} : call'[d] = call[d]
      /\ call'[c].user = v /\ call'[c].copy = account[v] /\ call'[c].token = None
      /\ call'[c].at # "match"
  BY <1>0, <1>1 DEF Begin, Idle
<1>3. \A t \in Tabs : token'[t] # None /\ token'[t].user = u =>
        Current(u, token'[t].version, token'[t].epoch)
  BY <1>0, TokensCurrent
<1> QED
  BY <1>0, <1>2, <1>3, ClientTruth

LEMMA TimeTruth ==
  ASSUME BrowserInv, NEW v \in Users, Offline(TimePasses(v)),
         NEW u \in Users, Truth(u)
  PROVE  Truth(u)'
<1>0. /\ account \in [Users -> Account] /\ UNCHANGED <<call, token, epoch, missed>>
  BY DEF BrowserInv, SessionInv, AccountsOK, Offline, TimePasses
<1>1. /\ account'[u].version = account[u].version
      /\ account'[u].failed = account[u].failed
      /\ account'[u].locked => account[u].locked
  BY <1>0 DEF Offline, TimePasses, Account
<1>2. AtWork(u)' = AtWork(u)
  BY <1>0 DEF AtWork
<1>3. \A n, e : Current(u, n, e) => n <= account'[u].version
                 /\ (n = account'[u].version => e = epoch'[u])
  BY <1>0, <1>1 DEF Current
<1> QED
  BY <1>0, <1>1, <1>2, <1>3 DEF Truth, Current

-----------------------------------------------------------------------------
(* The columns and the tokens tell the truth of every account on which no  *)
(* two handlers that count have met.                                       *)
THEOREM TruthInductive ==
  ASSUME NEW table, FreshTable(table)
  PROVE  SessionSpec(table) => []Truthful
<1>1. SessionInit(table) => Truthful
  <2>1. ASSUME SessionInit(table), NEW u \in Users
        PROVE  Truth(u)
    <3>1. /\ account = table /\ call = [c \in Calls |-> Idle]
          /\ missed = [v \in Users |-> 0] /\ token = [t \in Tabs |-> None]
      BY <2>1 DEF SessionInit, AccountInit
    <3>2. AtWork(u) = {} /\ \A c \in Calls : call[c].user # u
      BY <3>1, IdleTyped, ConstantFacts DEF AtWork
    <3> QED
      BY <3>1, <3>2 DEF Truth, FreshTable
  <2> QED
    BY <2>1 DEF Truthful
<1>2. BrowserInv /\ Truthful /\ [SessionNext]_sessionVars => Truthful'
  <2> SUFFICES ASSUME BrowserInv, Truthful, [SessionNext]_sessionVars,
                      NEW u \in Users, u \notin raced'
               PROVE  Truth(u)'
    BY DEF Truthful
  <2>0. raced \subseteq raced'
    <3>1. CASE UNCHANGED sessionVars
      BY <3>1 DEF sessionVars, accountVars
    <3>2. ASSUME NEW c \in Calls, Offline(Serve(c) \/ Fails(c))
          PROVE  raced' = raced
      BY <3>2, ServedRow DEF Offline, BrowserInv
    <3>3. ASSUME NEW x \in Requests, Client(x)
          PROVE  raced \subseteq raced'
      BY <3>3 DEF Client, Settle, Queue, Lead, LeaderBack, LeaderFails, Refresh,
         Dispatch, Meet
    <3>4. ASSUME NEW x \in Requests, NEW r, Sends(x, r)
          PROVE  raced \subseteq raced'
      BY <3>4 DEF Sends, Dispatch, Meet
    <3>5. ASSUME NEW t \in Tabs, Load(t) \/ Restored(t)
          PROVE  raced \subseteq raced'
      BY <3>5 DEF Load, Restored, Refresh
    <3>6. ASSUME NEW c \in Desks, Offline(AtDesk(c))
          PROVE  raced \subseteq raced'
      BY <3>6 DEF Offline, AtDesk, Begin, Meet
    <3>7. ASSUME NEW v \in Users, Offline(TimePasses(v))
          PROVE  raced \subseteq raced'
      BY <3>7 DEF Offline, TimePasses
    <3> QED
      BY <3>1, <3>2, <3>3, <3>4, <3>5, <3>6, <3>7 DEF SessionNext, Send, SignIn
  <2>1. Truth(u)
    BY <2>0 DEF Truthful
  <2>2. CASE UNCHANGED sessionVars
    BY <2>1, <2>2 DEF sessionVars, accountVars, Truth, AtWork, Current
  <2>3. ASSUME NEW c \in Calls, Offline(Serve(c) \/ Fails(c))
        PROVE  Truth(u)'
    BY <2>1, <2>3, ServeTruth
  <2>4. ASSUME NEW x \in Requests,
               \/ \E kind \in {"get", "logout"} : Send(x, kind)
               \/ \E v \in Users, right \in BOOLEAN : SignIn(x, v, right)
        PROVE  Truth(u)'
    BY <2>1, <2>4, SendTruth
  <2>5. ASSUME NEW c \in Desks, Offline(AtDesk(c))
        PROVE  Truth(u)'
    BY <2>1, <2>5, DeskTruth
  <2>6. ASSUME NEW v \in Users, Offline(TimePasses(v))
        PROVE  Truth(u)'
    BY <2>1, <2>6, TimeTruth
  <2>7. ASSUME \/ \E x \in Requests : Client(x)
               \/ \E t \in Tabs : Load(t) \/ Restored(t)
        PROVE  Truth(u)'
    BY <2>1, <2>7, BrowserTruth
  <2> QED
    BY <2>2, <2>3, <2>4, <2>5, <2>6, <2>7 DEF SessionNext
<1> QED
  BY <1>1, <1>2, SessionInductive, PTL DEF SessionSpec

(* The column counts the wrong passwords there have been, and a lock means *)
(* that there were as many as the settings allow, through whatever other   *)
(* work on the account overlaps a sign-in without counting itself.         *)
THEOREM AttemptsSafe ==
  ASSUME NEW table, FreshTable(table)
  PROVE  SessionSpec(table) => []AttemptsCounted
<1>1. Truthful => AttemptsCounted
  BY DEF Truthful, Truth, AttemptsCounted
<1> QED
  BY <1>1, TruthInductive, PTL

(* After a new login, a password reset or a forced sign-out, no token from *)
(* before is taken again.                                                  *)
THEOREM RevocationSafe ==
  ASSUME NEW table, FreshTable(table)
  PROVE  SessionSpec(table) => []RevokedStaysOut
<1>1. BrowserInv /\ Truthful => RevokedStaysOut
  <2> SUFFICES ASSUME BrowserInv, Truthful, NEW t \in Tabs, Accepted(token[t]),
                      token[t].user \notin raced
               PROVE  token[t].epoch = epoch[token[t].user]
    BY DEF RevokedStaysOut
  <2>1. token[t] # None /\ token[t].version = account[token[t].user].version
    BY DEF Accepted
  <2>2. token[t].user \in Users
    BY <2>1 DEF BrowserInv, SessionInv, BrowsersOK, Tokens
  <2> QED
    BY <2>1, <2>2 DEF Truthful, Truth, Current
<1> QED
  BY <1>1, TruthInductive, SessionInductive, PTL

-----------------------------------------------------------------------------
(* The browser that was sent u's last cookie holds what the server expects. *)
Held(u) ==
  keeper[u] # None /\ account[u].refresh # None =>
    jar[keeper[u]] = [user |-> u, id |-> account[u].refresh]

(* While nothing of u's is under way, the cookie is held; an exchange that *)
(* is under way has not touched it yet, brings the new one, or has failed. *)
Kept(u) ==
  /\ \A c, d \in Exchanges(u) : c = d
  /\ Exchanges(u) = {} => Held(u)
  /\ \A c \in Exchanges(u) :
       /\ call[c].cookie # None => account[u].refresh \in {None, call[c].cookie}
       /\ \/ call[c].cookie # None
          \/ call[c].at = "reply" /\ call[c].result = "refused"
          \/ Held(u)
       /\ call[c].op = "logout" /\ call[c].at = "reply" /\ call[c].result = "ok" =>
            account[u].refresh = None

AllKept == \A u \in Users \ strained : Kept(u)

(* A step of browsers that frees or fills the slots xs.                    *)
LEMMA KeptMoves ==
  ASSUME NEW u \in Users, Kept(u), NEW xs \in SUBSET Calls,
         \A c \in Calls \ xs : call'[c] = call[c], account' = account,
         \A c, d \in Exchanges(u)' : c = d,
         \A c \in xs : c \in Exchanges(u)' =>
           /\ call'[c].cookie = None
           /\ call'[c].at = "reply" => call'[c].result # "ok",
         Held(u) => Held(u)',
         (xs \cap Exchanges(u) # {}) => Held(u)'
  PROVE  Kept(u)'
<1>1. \A c \in Calls \ xs : c \in Exchanges(u)' <=> c \in Exchanges(u)
  BY DEF Exchanges
<1>2. Exchanges(u) \subseteq Calls /\ Exchanges(u)' \subseteq Calls
  BY DEF Exchanges
<1>3. CASE Exchanges(u) \subseteq xs
  <2>1. Held(u)'
    BY <1>3 DEF Kept
  <2>2. Exchanges(u)' \subseteq xs
    BY <1>1, <1>2, <1>3
  <2> QED
    BY <2>1, <2>2 DEF Kept
<1>4. ASSUME NEW d \in Exchanges(u), d \notin xs
      PROVE  Kept(u)'
  <2>1. d \in Exchanges(u)' /\ call'[d] = call[d]
    BY <1>1, <1>2, <1>4
  <2>2. \A c \in Exchanges(u)' : c = d
    BY <2>1
  <2>3. /\ call'[d].cookie # None => account'[u].refresh \in {None, call'[d].cookie}
        /\ \/ call'[d].cookie # None
           \/ call'[d].at = "reply" /\ call'[d].result = "refused"
           \/ Held(u)'
        /\ call'[d].op = "logout" /\ call'[d].at = "reply" /\ call'[d].result = "ok" =>
             account'[u].refresh = None
    BY <1>4, <2>1 DEF Kept
  <2> QED
    BY <2>1, <2>2, <2>3 DEF Kept
<1> QED
  BY <1>3, <1>4

(* The cookie that an answer sets or clears.                               *)
LEMMA CookieHeld ==
  ASSUME SessionInv, NEW c \in Calls, NEW b \in Browsers, TakeCookie(c, b),
         call[c].at = "reply", account' = account, NEW u \in Users, Kept(u)
  PROVE  /\ Held(u) => Held(u)'
         /\ c \in Exchanges(u) /\ u \notin Lost(c) => Held(u)'
<1>0. /\ call[c] \in Handler /\ HandlerOK(call[c])
      /\ jar \in [Browsers -> Cookie \cup {None}]
      /\ keeper \in [Users -> Browsers \cup {None}] /\ None \notin Browsers
  BY ConstantFacts DEF SessionInv, CallsOK, BrowsersOK
<1>1. CASE call[c].cookie # None /\ call[c].user = u
  <2>1. c \in Exchanges(u)
    BY <1>0, <1>1 DEF HandlerOK, Exchanges
  <2>2. account[u].refresh \in {None, call[c].cookie}
    BY <1>1, <2>1 DEF Kept
  <2>3. keeper'[u] = b /\ jar'[b] = [user |-> u, id |-> call[c].cookie]
    BY <1>0, <1>1 DEF TakeCookie
  <2> QED
    BY <2>2, <2>3 DEF Held
<1>2. CASE call[c].cookie = None /\ call[c].user = u
  <2>1. keeper'[u] = keeper[u]
    BY <1>2 DEF TakeCookie
  <2>2. CASE call[c].op = "logout" /\ call[c].result = "ok"
    <3>1. c \in Exchanges(u)
      BY <1>2, <2>2 DEF Exchanges
    <3>2. account[u].refresh = None
      BY <2>2, <3>1 DEF Kept
    <3> QED
      BY <3>2 DEF Held
  <2>3. CASE ~(call[c].op = "logout" /\ call[c].result = "ok")
    <3>1. jar' = jar
      BY <1>0, <1>2, <2>3 DEF TakeCookie
    <3>2. Held(u) => Held(u)'
      BY <2>1, <3>1 DEF Held
    <3>3. c \in Exchanges(u) /\ u \notin Lost(c) => call[c].result # "refused"
      BY DEF Exchanges, Lost
    <3> QED
      BY <1>2, <3>2, <3>3 DEF Kept
  <2> QED
    BY <2>2, <2>3
<1>3. CASE call[c].user # u
  <2>1. c \notin Exchanges(u)
    BY <1>3 DEF Exchanges
  <2>2. \/ keeper'[u] = None
        \/ /\ keeper'[u] = keeper[u]
           /\ keeper[u] # None => jar'[keeper[u]] = jar[keeper[u]]
    BY <1>0, <1>3 DEF TakeCookie
  <2> QED
    BY <2>1, <2>2 DEF Held
<1> QED
  BY <1>1, <1>2, <1>3

(* The server's steps.                                                     *)
LEMMA ExchangesStay ==
  ASSUME SessionInv, NEW c \in Calls, NEW u \in Users,
         \/ Serve(c) \/ Fails(c)
         \/ c \in Desks /\ AtDesk(c)
  PROVE  /\ Exchanges(u)' = Exchanges(u)
         /\ c \in Desks => c \notin Exchanges(u)
<1>0. /\ CallsOK /\ call \in [Calls -> Handler] /\ call[c] \in Handler
      /\ HandlerOK(call[c]) /\ InPlace(c, call[c])
      /\ \A d \in Calls \ {c} : call'[d] = call[d]
  BY OthersStay DEF SessionInv, CallsOK
<1>1. CASE c \notin Desks
  <2>1. call'[c].op = call[c].op /\ call'[c].user = call[c].user
    BY <1>1, ServedStays
  <2> QED
    BY <1>0, <1>1, <2>1 DEF Exchanges
<1>2. CASE c \in Desks
  <2>1. call[c].at # "idle" => call[c].op \in DeskOps
    BY <1>0, <1>2 DEF InPlace, HandlerOK
  <2>2. c \notin Exchanges(u)
    BY <1>0, <2>1, ConstantFacts DEF HandlerOK, DeskOps, Exchanges
  <2>3. call'[c] = Idle \/ call'[c].op \in DeskOps
    <3>1. CASE AtDesk(c)
      <4>1. PICK op \in DeskOps, v \in Users :
              \E x \in DeskWork[op] : Begin(c, op, v, x)
        BY <3>1, DeskOpsAre DEF AtDesk
      <4>2. call'[c].op = op
        BY <1>0, <4>1 DEF Begin, Idle
      <4> QED
        BY <4>2
    <3>2. CASE ReadAlternate(c)
      <4>1. CASE call' = [call EXCEPT ![c].at = "write"]
        BY <1>0, <2>1, <3>2, <4>1 DEF Handler, ReadAlternate
      <4>2. CASE call' = [call EXCEPT ![c] = Idle]
        BY <1>0, <4>2
      <4> QED
        BY <3>2, <4>1, <4>2 DEF ReadAlternate, Goto
    <3>3. CASE Write(c)
      BY <1>0, <3>3 DEF Write
    <3>4. ~AtDesk(c) /\ ~ReadAlternate(c) => Write(c)
      BY <1>0, <1>2, <2>1, DeskOpsAre DEF Serve, Fails, InPlace, RefuseLogin,
         AcceptLogin, StoreRefresh, DropReused, Rotate, Guard, Logout
    <3> QED
      BY <3>1, <3>2, <3>3, <3>4
  <2>4. c \notin Exchanges(u)'
    BY <2>3, IdleTyped, ConstantFacts DEF DeskOps, Exchanges
  <2> QED
    BY <1>0, <2>2, <2>4 DEF Exchanges
<1> QED
  BY <1>1, <1>2

(* Who moves the hash of the cookie.                                       *)
LEMMA HashStays ==
  ASSUME SessionInv, NEW c \in Calls, NEW u \in Users, c \notin Exchanges(u),
         \/ Serve(c) \/ Fails(c)
         \/ AtDesk(c)
  PROVE  account'[u].refresh = account[u].refresh
<1>0. /\ CallsOK /\ call[c] \in Handler /\ HandlerOK(call[c]) /\ Vacant(u)
      /\ account \in [Users -> Account] /\ account[u] \in Account
  BY DEF SessionInv, CallsOK, AccountsOK
<1>1. call[c].op \in {"login", "refresh", "logout"} => call[c].user # u
  BY DEF Exchanges
<1>2. CASE RefuseLogin(c) \/ AcceptLogin(c) \/ StoreRefresh(c)
             \/ DropReused(c) \/ Logout(c)
  <2>1. call[c].user # u
    BY <1>0, <1>1, <1>2 DEF RefuseLogin, AcceptLogin, StoreRefresh, DropReused,
       Logout, HandlerOK
  <2> QED
    BY <1>2, <2>1, ServedRow DEF Serve
<1>3. CASE Write(c)
  <2> DEFINE op == call[c].op
             k == call[c].copy
             x == call[c].arg
             v == call[c].user
  <2>1. CASE u # v
    BY <1>3, <2>1, ServedRow DEF Serve
  <2>2. CASE u = v /\ op = "create"
    <3>1. CASE account[u].role # None
      BY <2>2, <3>1, <1>3 DEF Write
    <3>2. CASE account[u].role = None
      <4>1. account'[u] = [NoAccount EXCEPT !.role = x, !.active = TRUE]
        BY <1>0, <1>3, <2>2, <3>2 DEF Write, Written, Created
      <4>2. account[u] = NoAccount
        BY <1>0, <3>2 DEF Vacant
      <4> QED
        BY <4>1, <4>2 DEF NoAccount
    <3> QED
      BY <3>1, <3>2
  <2>3. CASE u = v /\ op # "create"
    <3>1. account'[u] = Written(op, account[u], k, x)
      BY <1>0, <1>3, <2>3 DEF Write
    <3>2. /\ op \in DeskOps /\ x \in DeskWork[op] /\ k \in Account
          /\ op \in {"reset", "revoke"} => k.version < MaxVersion
      BY <1>0, <1>3 DEF Write, HandlerOK, Handler
    <3> HIDE DEF op, k, x, v
    <3>3. Written(op, account[u], k, x).refresh = account[u].refresh
      BY <1>0, <2>3, <3>2, WrittenIs
    <3> QED
      BY <3>1, <3>3
  <2> QED
    BY <2>1, <2>2, <2>3
<1>4. CASE ReadAlternate(c) \/ Rotate(c) \/ Guard(c) \/ Fails(c) \/ AtDesk(c)
  BY <1>4 DEF ReadAlternate, Rotate, Guard, Fails, AtDesk, Begin
<1> QED
  BY <1>2, <1>3, <1>4 DEF Serve

LEMMA ServeKept ==
  ASSUME BrowserInv, NEW c \in Calls, UNCHANGED browser,
         \/ Serve(c) \/ Fails(c)
         \/ c \in Desks /\ AtDesk(c),
         NEW u \in Users, Kept(u)
  PROVE  Kept(u)'
<1>0. /\ SessionInv /\ CallsOK /\ call \in [Calls -> Handler] /\ call[c] \in Handler
      /\ HandlerOK(call[c]) /\ InPlace(c, call[c]) /\ AccountsOK
      /\ account \in [Users -> Account] /\ account[u] \in Account
      /\ \A d \in Calls \ {c} : call'[d] = call[d]
      /\ jar' = jar /\ keeper' = keeper
      /\ Exchanges(u)' = Exchanges(u) /\ Exchanges(u) \subseteq Calls
  BY OthersStay, ExchangesStay DEF BrowserInv, SessionInv, CallsOK, AccountsOK,
     browser, Exchanges
<1>1. account'[u].refresh = account[u].refresh => (Held(u) => Held(u)')
  BY <1>0 DEF Held
<1>2. CASE c \notin Exchanges(u)
  <2>1. account'[u].refresh = account[u].refresh
    BY <1>0, <1>2, HashStays
  <2>2. \A d \in Exchanges(u) : call'[d] = call[d]
    BY <1>0, <1>2
  <2> QED
    BY <1>0, <1>1, <2>1, <2>2 DEF Kept
<1>3. CASE c \in Exchanges(u)
  <2>0. /\ c \notin Desks /\ call[c].user = u
        /\ call[c].op \in {"login", "refresh", "logout"}
        /\ \A d \in Exchanges(u) : d = c
    BY <1>0, <1>3, ExchangesStay DEF Exchanges, Kept
  <2>q. ASSUME call'[c].cookie # None => account'[u].refresh = call'[c].cookie,
               \/ call'[c].cookie # None
               \/ call'[c].at = "reply" /\ call'[c].result = "refused"
               \/ Held(u)',
               call'[c].op = "logout" /\ call'[c].at = "reply"
                 /\ call'[c].result = "ok" => account'[u].refresh = None
        PROVE  Kept(u)'
    BY <1>0, <1>3, <2>0, <2>q DEF Kept
  <2>a. ASSUME NEW result, Reply(c, result)
        PROVE  /\ call'[c].at = "reply" /\ call'[c].result = result
               /\ call'[c].cookie = None /\ call'[c].op = call[c].op
    <3>1. call'[c] = Answer(c, result)
      BY <1>0, <2>a DEF Reply
    <3> QED
      BY <1>0, <3>1, AnswerIs
  <2>b. call[c].at # "reply" => call[c].cookie = None /\ Held(u)
    BY <1>0, <1>3 DEF HandlerOK, Kept
  <2>1. CASE Fails(c)
    <3>1. Reply(c, "refused")
      BY <2>1 DEF Fails
    <3> QED
      BY <2>a, <2>q, <3>1
  <2>2. CASE RefuseLogin(c)
    <3> DEFINE k == call[c].copy
               w == Attempt(account[u], k)
    <3>1. account'[u] = w /\ k.failed < MaxFailed /\ k \in Account
      BY <1>0, <2>0, <2>2 DEF RefuseLogin, Handler
    <3> HIDE DEF k, w
    <3>2. w.refresh = account[u].refresh
      BY <1>0, <3>1, AttemptIs DEF w
    <3>3. Held(u)'
      BY <1>1, <2>2, <2>b, <3>1, <3>2 DEF RefuseLogin
    <3>4. call'[c].cookie = None /\ call'[c].op = "login"
      BY <1>0, <2>2, <2>a DEF RefuseLogin, HandlerOK
    <3> QED
      BY <2>q, <3>3, <3>4
  <2>3. CASE AcceptLogin(c) /\ call[c].copy.active
    <3> DEFINE k == call[c].copy
               w == SignedIn(account[u], k)
    <3>1. account'[u] = w /\ k.version < MaxVersion /\ k \in Account
      BY <1>0, <2>0, <2>3 DEF AcceptLogin, Handler
    <3> HIDE DEF k, w
    <3>2. w.refresh = account[u].refresh
      BY <1>0, <3>1, SignedInIs DEF w
    <3>3. Held(u)'
      BY <1>1, <2>3, <2>b, <3>1, <3>2 DEF AcceptLogin
    <3>4. call'[c].cookie = None /\ call'[c].at = "store"
      BY <1>0, <2>3, <2>b DEF AcceptLogin, Handler
    <3> QED
      BY <2>q, <3>3, <3>4
  <2>4. CASE AcceptLogin(c) /\ ~call[c].copy.active
    <3>1. Reply(c, "refused")
      BY <2>4 DEF AcceptLogin
    <3> QED
      BY <2>a, <2>q, <3>1
  <2>5. CASE StoreRefresh(c)
    <3> DEFINE w == Stored(account[u], minted + 1)
    <3>1. /\ account'[u] = w /\ minted + 1 \in 1..MaxTokens /\ minted' = minted + 1
      BY <1>0, <2>0, <2>5, ConstantFacts DEF StoreRefresh, AccountsOK
    <3> HIDE DEF w
    <3>2. w.refresh = minted + 1
      BY <1>0, <3>1, StoredIs DEF w
    <3>3. call'[c] = [Answer(c, "ok") EXCEPT !.token = call[c].token, !.cookie = minted']
      BY <1>0, <2>5 DEF StoreRefresh
    <3>4. call'[c].cookie = minted' /\ call'[c].op = call[c].op
      BY <3>3 DEF Answer, Idle
    <3>5. call[c].op # "logout" /\ minted' # None
      BY <1>0, <2>5, <3>1, ConstantFacts DEF StoreRefresh, HandlerOK
    <3> QED
      BY <2>q, <3>1, <3>2, <3>4, <3>5
  <2>6. CASE DropReused(c) \/ Logout(c)
    <3> DEFINE w == Dropped(account[u])
    <3>1. account'[u] = w
      BY <1>0, <2>0, <2>6 DEF DropReused, Logout
    <3> HIDE DEF w
    <3>2. w.refresh = None
      BY <1>0, DroppedIs DEF w
    <3>3. Held(u)'
      BY <3>1, <3>2 DEF Held
    <3>4. call'[c].cookie = None
      BY <2>6, <2>a DEF DropReused, Logout
    <3> QED
      BY <2>q, <3>1, <3>2, <3>3, <3>4
  <2>7. CASE Rotate(c)
    <3>1. Held(u)' /\ call'[c].cookie = None /\ call'[c].at = "store"
      BY <1>0, <1>1, <2>7, <2>b DEF Rotate, Handler
    <3> QED
      BY <2>q, <3>1
  <2>8. CASE Guard(c)
    <3>1. Held(u)' /\ call[c].cookie = None
      BY <1>1, <2>8, <2>b DEF Guard
    <3>2. CASE ~Accepted(call[c].token)
      <4>1. Reply(c, "unauthorized")
        BY <2>8, <3>2 DEF Guard
      <4> QED
        BY <2>a, <2>q, <3>1, <4>1
    <3>3. CASE Accepted(call[c].token) /\ call[c].op = "logout"
      <4>1. call'[c].cookie = None /\ call'[c].at = "drop"
        BY <1>0, <2>8, <3>1, <3>3 DEF Guard, Goto, Handler
      <4> QED
        BY <2>q, <3>1, <4>1
    <3>4. Accepted(call[c].token) => call[c].op = "logout"
      BY <1>0, <2>0, <2>8 DEF Guard, HandlerOK
    <3> QED
      BY <3>2, <3>3, <3>4
  <2>9. ~ReadAlternate(c) /\ ~Write(c) /\ ~(c \in Desks /\ AtDesk(c))
    BY <1>0, <2>0 DEF ReadAlternate, Write, InPlace
  <2> QED
    BY <2>1, <2>2, <2>3, <2>4, <2>5, <2>6, <2>7, <2>8, <2>9 DEF Serve
<1> QED
  BY <1>2, <1>3

(* The browsers' steps.                                                    *)
LEMMA AnswerKept ==
  ASSUME SessionInv, NEW c \in Calls, NEW b \in Browsers, TakeCookie(c, b),
         Answered(c), Strain(Lost(c)), call[c].at = "reply", account' = account,
         NEW u \in Users, u \notin strained', Kept(u)
  PROVE  Kept(u)'
<1> DEFINE xs == {c}
<1>0. call' = [call EXCEPT ![c] = Idle] /\ call \in [Calls -> Handler]
  BY DEF SessionInv, CallsOK, Answered
<1>1. u \notin Lost(c) /\ \A d, e \in Exchanges(u)' : d = e
  BY DEF Strain
<1>2. /\ Held(u) => Held(u)'
      /\ c \in Exchanges(u) => Held(u)'
  BY <1>1, CookieHeld
<1>3. /\ xs \in SUBSET Calls /\ \A d \in Calls \ xs : call'[d] = call[d]
      /\ \A d \in xs : d \notin Exchanges(u)'
      /\ (xs \cap Exchanges(u) # {}) => Held(u)'
  BY <1>0, <1>2, IdleTyped, ConstantFacts DEF Exchanges
<1> HIDE DEF xs
<1> QED
  BY <1>1, <1>2, <1>3, KeptMoves

LEMMA RefreshKept ==
  ASSUME SessionInv, NEW c \in Calls, NEW cookie, Refresh(c, cookie), Strain({}),
         UNCHANGED <<jar, keeper>>,
         NEW u \in Users, u \notin strained', Kept(u),
         c \in Exchanges(u) => Held(u)
  PROVE  Kept(u)'
<1> DEFINE xs == {c}
           h == RefreshEntry(cookie)
<1>0. /\ call' = [call EXCEPT ![c] = h] /\ call \in [Calls -> Handler]
      /\ account' = account
  BY DEF SessionInv, CallsOK, Refresh
<1>1. h.cookie = None /\ (h.at = "reply" => h.result = "unauthorized")
  BY DEF RefreshEntry, Idle
<1> HIDE DEF h
<1>2. \A d, e \in Exchanges(u)' : d = e
  BY DEF Strain
<1>3. Held(u) => Held(u)'
  BY <1>0 DEF Held
<1>4. /\ xs \in SUBSET Calls /\ \A d \in Calls \ xs : call'[d] = call[d]
      /\ \A d \in xs : /\ call'[d].cookie = None
                       /\ call'[d].at = "reply" => call'[d].result # "ok"
      /\ (xs \cap Exchanges(u) # {}) => Held(u)'
  BY <1>0, <1>1, <1>3
<1> HIDE DEF xs
<1> QED
  BY <1>0, <1>2, <1>3, <1>4, KeptMoves

LEMMA IdleNoExchange ==
  ASSUME SessionInv, NEW c \in Calls, call[c].at = "idle", NEW u \in Users
  PROVE  c \notin Exchanges(u)
BY ConstantFacts DEF SessionInv, CallsOK, HandlerOK, Exchanges

LEMMA SendsKept ==
  ASSUME BrowserInv, NEW x \in Requests, NEW r \in Request, Sends(x, r),
         NEW u \in Users, u \notin strained', Kept(u)
  PROVE  Kept(u)'
<1> DEFINE rs == [req EXCEPT ![x] = r]
           tok == token[Sender[x]]
           xs == {x}
<1>0. /\ SessionInv /\ Dispatch(xs, rs, tok) /\ req \in [Requests -> Request]
      /\ call[x].at = "idle" /\ x \in Calls /\ Strain({})
      /\ UNCHANGED <<account, jar, keeper>>
  BY ConstantFacts DEF BrowserInv, SessionInv, BrowsersOK, Sends, Dispatch
<1>1. /\ xs \in SUBSET Requests /\ xs \in SUBSET Calls
      /\ \A y \in xs : rs[y] \in Request
  BY <1>0
<1>2. xs \cap Exchanges(u) = {}
  BY <1>0, IdleNoExchange
<1> HIDE DEF rs, tok, xs
<1>3. /\ \A y \in xs : /\ call'[y].cookie = None
                       /\ call'[y].at = "reply" =>
                            call'[y].result \in {"unauthorized", "refused"}
      /\ \A c \in Calls \ xs : call'[c] = call[c]
  BY <1>0, <1>1, Outgoing
<1>4. \A d, e \in Exchanges(u)' : d = e
  BY <1>0 DEF Strain
<1>5. Held(u) => Held(u)'
  BY <1>0 DEF Held
<1> QED
  BY <1>0, <1>1, <1>2, <1>3, <1>4, <1>5, KeptMoves

LEMMA ClientKept ==
  ASSUME BrowserInv, NEW x \in Requests, Client(x),
         NEW u \in Users, u \notin strained', Kept(u)
  PROVE  Kept(u)'
<1> DEFINE t == Sender[x]
<1>0. /\ SessionInv /\ x \in Calls /\ t \in Tabs /\ home[t] \in Browsers
      /\ call \in [Calls -> Handler] /\ HandlerOK(call[x]) /\ Waits(t)
      /\ Requests \subseteq Calls
  BY RequestFacts, ConstantFacts DEF BrowserInv, SessionInv, CallsOK
<1>u. call[x].result = "unauthorized" /\ x \in Exchanges(u) => Held(u)
  BY <1>0 DEF HandlerOK, Kept
<1>1. CASE Settle(x) \/ LeaderFails(x)
  <2>1. /\ TakeCookie(x, home[t]) /\ Answered(x) /\ Strain(Lost(x))
        /\ call[x].at = "reply" /\ account' = account
    BY <1>1 DEF Settle, LeaderFails
  <2> QED
    BY <1>0, <2>1, AnswerKept
<1>2. CASE Queue(x)
  <2> DEFINE xs == {x}
  <2>1. /\ call' = [call EXCEPT ![x] = Idle] /\ UNCHANGED <<account, jar, keeper>>
        /\ call[x].result = "unauthorized"
    BY <1>2 DEF Queue, Answered
  <2>2. Held(u) => Held(u)'
    BY <2>1 DEF Held
  <2>3. /\ xs \in SUBSET Calls /\ \A d \in Calls \ xs : call'[d] = call[d]
        /\ \A d \in xs : d \notin Exchanges(u)'
        /\ (xs \cap Exchanges(u) # {}) => Held(u)'
    BY <1>0, <1>u, <2>1, <2>2, IdleTyped, ConstantFacts DEF Exchanges
  <2>4. \A d, e \in Exchanges(u)' : d = e
    <3>1. \A d \in Exchanges(u)' : d \in Exchanges(u)
      BY <2>3 DEF Exchanges
    <3> QED
      BY <3>1 DEF Kept
  <2> HIDE DEF xs
  <2> QED
    BY <2>1, <2>2, <2>3, <2>4, KeptMoves
<1>3. CASE Lead(x)
  <2>1. /\ Refresh(x, jar[home[t]]) /\ Strain({}) /\ UNCHANGED <<jar, keeper>>
        /\ call[x].result = "unauthorized"
    BY <1>3 DEF Lead
  <2> QED
    BY <1>0, <1>u, <2>1, RefreshKept
<1>4. CASE LeaderBack(x)
  <2> DEFINE xs == {x} \cup Released(t)
             tok == call[x].token
  <2>1. /\ TakeCookie(x, home[t]) /\ Dispatch(xs, req, tok) /\ Strain({})
        /\ call[x].at = "reply" /\ call[x].result = "ok" /\ account' = account
    BY <1>4 DEF LeaderBack, Dispatch
  <2>2. /\ xs \in SUBSET Requests /\ xs \in SUBSET Calls
        /\ \A y \in xs : req[y] \in Request
        /\ \A y \in xs : y # x => y \in Of(t) /\ req[y].at = "queued"
    BY <1>0 DEF Released, Queued, Of, SessionInv, BrowsersOK
  <2> HIDE DEF xs, tok
  <2>3. /\ \A y \in xs : /\ call'[y].cookie = None
                         /\ call'[y].at = "reply" =>
                              call'[y].result \in {"unauthorized", "refused"}
        /\ \A c \in Calls \ xs : call'[c] = call[c]
    BY <2>1, <2>2, Outgoing
  <2>4. u \notin Lost(x)
    BY <2>1 DEF Lost
  <2>5. /\ Held(u) => Held(u)'
        /\ x \in Exchanges(u) => Held(u)'
    BY <1>0, <2>1, <2>4, CookieHeld
  <2>6. \A y \in xs : y # x => y \notin Exchanges(u)
    <3>1. \A y \in xs : y # x => call[y].at = "idle"
      BY <1>0, <2>2 DEF Waits
    <3> QED
      BY <1>0, <2>2, <3>1, IdleNoExchange
  <2>7. \A d, e \in Exchanges(u)' : d = e
    BY <2>1 DEF Strain
  <2>8. (xs \cap Exchanges(u) # {}) => Held(u)'
    BY <2>5, <2>6
  <2> QED
    BY <2>1, <2>2, <2>3, <2>5, <2>7, <2>8, KeptMoves
<1> QED
  BY <1>1, <1>2, <1>3, <1>4 DEF Client

LEMMA PageKept ==
  ASSUME BrowserInv, NEW t \in Tabs, Load(t) \/ Restored(t),
         NEW u \in Users, u \notin strained', Kept(u)
  PROVE  Kept(u)'
<1>0. SessionInv /\ t \in Calls /\ home[t] \in Browsers
  BY ConstantFacts DEF BrowserInv, SessionInv, BrowsersOK
<1>1. CASE Load(t)
  <2>1. /\ Refresh(t, jar[home[t]]) /\ Strain({}) /\ UNCHANGED <<jar, keeper>>
        /\ call[t].at = "idle"
    BY <1>1 DEF Load
  <2> QED
    BY <1>0, <2>1, IdleNoExchange, RefreshKept
<1>2. CASE Restored(t)
  <2>1. /\ TakeCookie(t, home[t]) /\ Answered(t) /\ Strain(Lost(t))
        /\ call[t].at = "reply" /\ account' = account
    BY <1>2 DEF Restored
  <2> QED
    BY <1>0, <2>1, AnswerKept
<1> QED
  BY <1>1, <1>2

-----------------------------------------------------------------------------
(* The cookie of an account whose exchanges follow one another is where    *)
(* the account was last signed in, or on its way there.                    *)
THEOREM CookieInductive ==
  ASSUME NEW table, FreshTable(table)
  PROVE  SessionSpec(table) => []AllKept
<1>1. SessionInit(table) => AllKept
  <2>1. ASSUME SessionInit(table), NEW u \in Users
        PROVE  Kept(u)
    <3>1. account = table /\ call = [c \in Calls |-> Idle]
      BY <2>1 DEF SessionInit, AccountInit
    <3>2. Exchanges(u) = {}
      BY <3>1, IdleTyped, ConstantFacts DEF Exchanges
    <3> QED
      BY <3>1, <3>2 DEF Kept, Held, FreshTable
  <2> QED
    BY <2>1 DEF AllKept
<1>2. BrowserInv /\ AllKept /\ [SessionNext]_sessionVars => AllKept'
  <2> SUFFICES ASSUME BrowserInv, AllKept, [SessionNext]_sessionVars,
                      NEW u \in Users, u \notin strained'
               PROVE  Kept(u)'
    BY DEF AllKept
  <2>0. strained \subseteq strained'
    BY DEF SessionNext, sessionVars, Offline, Send, SignIn, Sends, Client, Settle,
       Queue, Lead, LeaderBack, LeaderFails, Load, Restored, Strain
  <2>1. Kept(u)
    BY <2>0 DEF AllKept
  <2>2. CASE UNCHANGED sessionVars
    BY <2>1, <2>2 DEF sessionVars, accountVars, Kept, Held, Exchanges
  <2>3. ASSUME NEW x \in Requests,
               \/ \E kind \in {"get", "logout"} : Send(x, kind)
               \/ \E v \in Users, right \in BOOLEAN : SignIn(x, v, right)
        PROVE  Kept(u)'
    <3>1. \E r \in Request : Sends(x, r)
      BY <2>3 DEF Send, SignIn, Resting, Request
    <3> QED
      BY <2>1, <3>1, SendsKept
  <2>4. ASSUME NEW x \in Requests, Client(x)
        PROVE  Kept(u)'
    BY <2>1, <2>4, ClientKept
  <2>5. ASSUME NEW t \in Tabs, Load(t) \/ Restored(t)
        PROVE  Kept(u)'
    BY <2>1, <2>5, PageKept
  <2>6. ASSUME NEW c \in Calls,
               \/ Offline(Serve(c) \/ Fails(c))
               \/ c \in Desks /\ Offline(AtDesk(c))
        PROVE  Kept(u)'
    <3>1. /\ UNCHANGED browser
          /\ \/ Serve(c) \/ Fails(c)
             \/ c \in Desks /\ AtDesk(c)
      BY <2>6 DEF Offline, browser
    <3> QED
      BY <2>1, <3>1, ServeKept
  <2>7. ASSUME NEW v \in Users, Offline(TimePasses(v))
        PROVE  Kept(u)'
    <3>1. /\ UNCHANGED <<call, jar, keeper>> /\ account \in [Users -> Account]
      BY <2>7 DEF Offline, TimePasses, BrowserInv, SessionInv, AccountsOK
    <3>2. account'[u].refresh = account[u].refresh
      BY <2>7, <3>1 DEF Offline, TimePasses, Account
    <3> QED
      BY <2>1, <3>1, <3>2 DEF Kept, Held, Exchanges
  <2> QED
    BY <2>2, <2>3, <2>4, <2>5, <2>6, <2>7, ConstantFacts DEF SessionNext
<1> QED
  BY <1>1, <1>2, SessionInductive, PTL DEF SessionSpec

(* The browser that was sent an account's last cookie holds the one the    *)
(* server expects, unless exchanges of the account overlapped, an answer   *)
(* was lost, or somebody else has signed in or out there since.            *)
THEOREM CookieSafe ==
  ASSUME NEW table, FreshTable(table)
  PROVE  SessionSpec(table) => []CookieMatches
<1>1. AllKept => CookieMatches
  BY DEF AllKept, Kept, Held, CookieMatches
<1> QED
  BY <1>1, CookieInductive, PTL

=============================================================================
