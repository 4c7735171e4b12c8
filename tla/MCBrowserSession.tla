-------------------------- MODULE MCBrowserSession --------------------------
(***************************************************************************)
(* Four situations: a user sends two requests from one tab while sessions  *)
(* are revoked; works in two tabs, of one browser or of two; signs in from *)
(* one tab while the System Administrator works on the account; or shares  *)
(* the browser with a colleague.                                           *)
(***************************************************************************)
EXTENDS BrowserSession, TLC

CONSTANTS ana, deputy, t1, t2, x1, x2, x3, b1, b2, d1

VARIABLE situation

vars == <<sessionVars, situation>>

MCSender == [x \in Requests |-> IF x = x3 THEN t2 ELSE t1]

Supervisor == [NoAccount EXCEPT !.role = "supervisor", !.active = TRUE]

MCInit ==
  /\ situation \in {"one tab", "two tabs", "desks", "shared"}
  /\ SessionInit([u \in Users |-> IF u = ana /\ situation = "desks" THEN NoAccount
                                  ELSE Supervisor])
  /\ situation # "two tabs" => \A t \in Tabs : home[t] = b1
  /\ home[t1] = b1

OpenTabs == IF situation = "two tabs" THEN {t1, t2} ELSE {t1}

Open ==
  CASE situation = "one tab"  -> {x1, x2}
    [] situation = "two tabs" -> {x1, x3}
    [] situation = "desks"    -> {x1}
    [] situation = "shared"   -> {x1, x2}

DeskOf(c) ==
  \/ situation = "one tab" /\ c = d1 /\ Begin(c, "revoke", ana, None)
  \/ /\ situation = "desks"
     /\ \/ \E op \in DOMAIN DeskWork \ {"create", "role", "update"} :
             \E x \in DeskWork[op] : Begin(c, op, ana, x)
        \/ \E role \in {"supervisor", "employee"} :
             Begin(c, "create", ana, role) \/ Begin(c, "role", ana, role)
        \/ \E a \in Users :
             Begin(c, "update", ana, [alternate |-> a, away |-> FALSE])

(* Requests of each situation.                                             *)
MCSend(x) ==
  \/ /\ x = x1 /\ situation \in {"one tab", "desks"}
     /\ \E right \in BOOLEAN : SignIn(x, ana, right)
  \/ situation = "one tab" /\ Send(x, "get")
  \/ /\ situation = "two tabs"
     /\ SignIn(x, ana, TRUE) \/ Send(x, "get") \/ Send(x, "logout")
  \/ /\ situation = "shared"
     /\ \/ \E u \in Users : SignIn(x, u, TRUE)
        \/ x = x1 /\ Send(x, "logout")

MCNext ==
  /\ UNCHANGED situation
  /\ \/ \E x \in Open : MCSend(x) \/ Client(x)
     \/ \E t \in OpenTabs : (situation # "desks" /\ Load(t)) \/ Restored(t)
     \/ \E c \in Calls :
          Offline(Serve(c)) \/ (situation = "one tab" /\ Offline(Fails(c)))
     \/ \E c \in Desks : Offline(DeskOf(c))
     \/ situation # "shared" /\ Offline(TimePasses(ana))

MCSpec == MCInit /\ [][MCNext]_vars

=============================================================================
