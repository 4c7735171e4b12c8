--------------------------- MODULE BrowserSession ---------------------------
(***************************************************************************)
(* The browser's side of a session: the axios client with its interceptor  *)
(* that refreshes an expired token once for all requests of a tab, and     *)
(* AuthProvider, which restores, opens and ends the session.  It runs over *)
(* UserAccounts: a request in flight is a handler in the slot of that name. *)
(* Any user may sign in from any tab, and the tabs of a browser share its  *)
(* cookie, whosever it is.                                                 *)
(***************************************************************************)
EXTENDS UserAccounts, FiniteSets

CONSTANTS
  Tabs,       \* each with the memory of one page
  Browsers,   \* each with one cookie jar
  Requests,   \* requests of the pages
  Desks,      \* slots for the System Administrator's work
  Sender      \* [Requests -> Tabs]

ASSUME SessionAssumption ==
  /\ Calls = Tabs \cup Requests \cup Desks
  /\ Tabs \cap Requests = {}
  /\ (Tabs \cup Requests) \cap Desks = {}
  /\ Sender \in [Requests -> Tabs]
  /\ None \notin Browsers

VARIABLES
  home,       \* [Tabs -> Browsers], fixed
  jar,        \* [Browsers -> the refresh cookie: a token and whose it is]
  token,      \* [Tabs -> the access token in memory]
  refreshing, \* [Tabs -> BOOLEAN]: isRefreshing
  req,        \* [Requests -> the request and where it is]
  keeper,     \* history: the browser last sent an account's cookie, until
              \* another account's takes its place
  strained    \* history: accounts whose exchanges overlapped, or whose
              \* answer was lost

sessionVars ==
  <<accountVars, home, jar, token, refreshing, req, keeper, strained>>

Resting ==
  [kind |-> "get", at |-> "idle", retried |-> FALSE, user |-> None,
   right |-> FALSE]

Of(t) == {x \in Requests : Sender[x] = t}

(* refreshQueue: the callbacks of the tab's requests that wait.            *)
Queued(t) == {x \in Of(t) : req[x].at = "queued"}

(* Exchanges that move the cookie: at the server, or answered and on their *)
(* way back.                                                               *)
Exchanges(u) ==
  {c \in Calls : call[c].op \in {"login", "refresh", "logout"}
                 /\ call[c].user = u}

Lost(c) ==
  {u \in Users : call[c].user = u /\ call[c].result = "refused"
                 /\ call[c].op # "get"}

Strain(lost) ==
  strained' = strained \cup lost
                \cup {u \in Users : \E c, d \in Exchanges(u)' : c # d}

-----------------------------------------------------------------------------
(* The request interceptor attaches the token; the calls go out.           *)
Dispatch(xs, rs, tok) ==
  /\ call' = [c \in Calls |->
               IF c \notin xs THEN call[c]
               ELSE IF rs[c].kind = "login"
               THEN LoginEntry(rs[c].user, rs[c].right)
               ELSE GuardedEntry(rs[c].kind, tok)]
  /\ Meet
  /\ req' = [x \in Requests |->
               IF x \in xs THEN [rs[x] EXCEPT !.at = "sent"] ELSE req[x]]
  /\ UNCHANGED <<account, minted, epoch, missed>>

Sends(x, r) ==
  /\ req[x].at = "idle" /\ call[x].at = "idle"
  /\ Dispatch({x}, [req EXCEPT ![x] = r], token[Sender[x]])
  /\ Strain({})
  /\ UNCHANGED <<home, jar, token, refreshing, keeper>>

(* A page sends a request; pages are shown only once the session is there. *)
Send(x, kind) ==
  LET t == Sender[x] IN
  /\ token[t] # None /\ call[t].at = "idle"
  /\ Sends(x, [Resting EXCEPT !.kind = kind])

(* The login page does; u is whose name is typed.                          *)
SignIn(x, u, right) ==
  /\ token[Sender[x]] = None
  /\ Sends(x, [Resting EXCEPT !.kind = "login", !.user = u, !.right = right])

(* An answer of the auth routes sets or clears the cookie.                 *)
TakeCookie(c, b) ==
  LET sent == call[c].cookie # None
      cleared == call[c].op = "logout" /\ call[c].result = "ok" IN
  /\ jar' = [jar EXCEPT ![b] =
               IF sent THEN [user |-> call[c].user, id |-> call[c].cookie]
               ELSE IF cleared THEN None ELSE @]
  /\ keeper' = [u \in Users |->
                  IF u = call[c].user THEN IF sent THEN b ELSE keeper[u]
                  ELSE IF (sent \/ cleared) /\ keeper[u] = b THEN None
                  ELSE keeper[u]]

Answered(c) == call' = [call EXCEPT ![c] = Idle]

(* The answer to a request itself.  clearSession() ends a logout, however  *)
(* it went.                                                                *)
Settle(x) ==
  LET t == Sender[x]
      ok == call[x].result = "ok" IN
  /\ req[x].at = "sent" /\ call[x].at = "reply"
  /\ ok \/ call[x].result = "refused" \/ req[x].retried
  /\ token' = [token EXCEPT ![t] =
                 IF req[x].kind = "logout" THEN None
                 ELSE IF req[x].kind = "login" /\ ok THEN call[x].token
                 ELSE @]
  /\ TakeCookie(x, home[t])
  /\ Answered(x) /\ Strain(Lost(x))
  /\ req' = [req EXCEPT ![x] = Resting]
  /\ UNCHANGED <<account, minted, epoch, missed, raced, home, refreshing>>

(* A first 401 while the tab refreshes: the request waits.                 *)
MustWait(x) == refreshing[Sender[x]]

Queue(x) ==
  /\ req[x].at = "sent" /\ call[x].at = "reply"
  /\ call[x].result = "unauthorized" /\ ~req[x].retried
  /\ MustWait(x)
  /\ req' = [req EXCEPT ![x].at = "queued"]
  /\ Answered(x)
  /\ UNCHANGED <<account, minted, epoch, missed, raced, home, jar, token,
                 refreshing, keeper, strained>>

(* A first 401 otherwise: the request leads a refresh.                     *)
Lead(x) ==
  LET t == Sender[x] IN
  /\ req[x].at = "sent" /\ call[x].at = "reply"
  /\ call[x].result = "unauthorized" /\ ~req[x].retried
  /\ ~MustWait(x)
  /\ refreshing' = [refreshing EXCEPT ![t] = TRUE]
  /\ req' = [req EXCEPT ![x].at = "leading", ![x].retried = TRUE]
  /\ Refresh(x, jar[home[t]]) /\ Strain({})
  /\ UNCHANGED <<home, jar, token, keeper>>

(* The refresh has succeeded: its leader and those that wait are sent      *)
(* again, with the new token; a sign-in too, whose password was wrong.     *)
ReleasedNone(t) == {}      \* mutant: the queue is emptied, not released

Released(t) == Queued(t)

LeaderBack(x) ==
  LET t == Sender[x] IN
  /\ req[x].at = "leading" /\ call[x].at = "reply" /\ call[x].result = "ok"
  /\ token' = [token EXCEPT ![t] = call[x].token]
  /\ TakeCookie(x, home[t])
  /\ refreshing' = [refreshing EXCEPT ![t] = FALSE]
  /\ Dispatch({x} \cup Released(t), req, call[x].token) /\ Strain({})
  /\ UNCHANGED home

(* The refresh has failed, for whatever reason: all are rejected, and the  *)
(* tab shows the login page.                                               *)
LeaderFails(x) ==
  LET t == Sender[x] IN
  /\ req[x].at = "leading" /\ call[x].at = "reply" /\ call[x].result # "ok"
  /\ token' = [token EXCEPT ![t] = None]
  /\ TakeCookie(x, home[t])
  /\ refreshing' = [refreshing EXCEPT ![t] = FALSE]
  /\ Answered(x) /\ Strain(Lost(x))
  /\ req' = [y \in Requests |->
               IF y \in {x} \cup Queued(t) THEN Resting ELSE req[y]]
  /\ UNCHANGED <<account, minted, epoch, missed, raced, home>>

-----------------------------------------------------------------------------
(* A page is loaded: its memory is gone, and the session is restored from  *)
(* the cookie by a refresh outside the interceptor.                        *)
Load(t) ==
  /\ call[t].at = "idle"
  /\ \A x \in Of(t) : req[x].at = "idle"
  /\ token' = [token EXCEPT ![t] = None]
  /\ Refresh(t, jar[home[t]]) /\ Strain({})
  /\ UNCHANGED <<home, jar, refreshing, req, keeper>>

Restored(t) ==
  /\ call[t].at = "reply"
  /\ token' = [token EXCEPT ![t] = IF call[t].result = "ok" THEN call[t].token
                                   ELSE @]
  /\ TakeCookie(t, home[t])
  /\ Answered(t) /\ Strain(Lost(t))
  /\ UNCHANGED <<account, minted, epoch, missed, raced, home, refreshing, req>>

-----------------------------------------------------------------------------
Offline(A) ==
  A /\ UNCHANGED <<home, jar, token, refreshing, req, keeper, strained>>

SessionInit(table) ==
  /\ AccountInit(table)
  /\ home \in [Tabs -> Browsers]
  /\ jar = [b \in Browsers |-> None]
  /\ token = [t \in Tabs |-> None]
  /\ refreshing = [t \in Tabs |-> FALSE]
  /\ req = [x \in Requests |-> Resting]
  /\ keeper = [u \in Users |-> None]
  /\ strained = {}

Client(x) ==
  \/ Settle(x) \/ Queue(x) \/ Lead(x)
  \/ LeaderBack(x) \/ LeaderFails(x)

AtDesk(c) ==
  \E op \in DOMAIN DeskWork, u \in Users :
    \E x \in DeskWork[op] : Begin(c, op, u, x)

SessionNext ==
  \/ \E x \in Requests :
       \/ \E kind \in {"get", "logout"} : Send(x, kind)
       \/ \E u \in Users, right \in BOOLEAN : SignIn(x, u, right)
       \/ Client(x)
  \/ \E t \in Tabs : Load(t) \/ Restored(t)
  \/ \E c \in Calls : Offline(Serve(c) \/ Fails(c))
  \/ \E c \in Desks : Offline(AtDesk(c))
  \/ \E u \in Users : Offline(TimePasses(u))

SessionSpec(table) == SessionInit(table) /\ [][SessionNext]_sessionVars

-----------------------------------------------------------------------------
(***************************************************************************)
(* A request that waits for a refresh is not left behind: the tab is       *)
(* refreshing, by exactly one of its requests, whose answer releases it.   *)
(***************************************************************************)
NobodyLeftWaiting ==
  \A t \in Tabs :
    LET leaders == {x \in Of(t) : req[x].at = "leading"} IN
    /\ Queued(t) # {} => refreshing[t]
    /\ Cardinality(leaders) = IF refreshing[t] THEN 1 ELSE 0
    /\ \A x \in leaders : call[x].op = "refresh"
    /\ \A x \in Of(t) : req[x].at = "sent" => call[x].at # "idle"

(***************************************************************************)
(* Once an account's sessions are ended, by a new login, a password reset  *)
(* or a forced sign-out, no token from before is taken again, though other *)
(* handlers write the account's row at the same time; two that change the  *)
(* version may, and are left out.                                          *)
(***************************************************************************)
RevokedStaysOut ==
  \A t \in Tabs :
    Accepted(token[t]) /\ token[t].user \notin raced =>
      token[t].epoch = epoch[token[t].user]

(***************************************************************************)
(* The cookie is for single use, and one that does not match ends the      *)
(* session.  The browser that was sent an account's last one holds the one *)
(* the server expects, so that its next refresh is not mistaken for a      *)
(* theft, unless exchanges of the account overlapped, an answer was lost,  *)
(* or somebody else has signed in or out there since.                      *)
(***************************************************************************)
CookieMatches ==
  \A u \in Users \ strained :
    keeper[u] # None /\ Exchanges(u) = {} /\ account[u].refresh # None =>
      jar[keeper[u]] = [user |-> u, id |-> account[u].refresh]
=============================================================================
