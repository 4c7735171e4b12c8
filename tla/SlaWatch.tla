------------------------------ MODULE SlaWatch ------------------------------
(***************************************************************************)
(* SchedulerService.hourlyChecks() and the two watchers it runs:           *)
(* checkSlaBreaches() and checkPendingApprovalNudges().  A sweep queries   *)
(* the requisitions it has to alert for, and then works on all of them     *)
(* concurrently (Promise.all), from copies as old as the query.  The       *)
(* hourly job and a System Administrator's run-checks are two sweeps; each *)
(* starts again after it has ended, and nothing keeps them apart.          *)
(***************************************************************************)
EXTENDS RequisitionStore

CONSTANT Sweeps    \* the sweeps that may run at once

VARIABLES
  age,         \* how long each requisition has waited, against its SLA
  phase,       \* [Sweeps -> "idle", "sla" or "nudge"]
  task,        \* [Sweeps -> [Reqs -> stage of the breach handling]]
  nudge,       \* [Sweeps -> [Reqs -> stage of the nudge]]
  copy,        \* [Sweeps -> [Reqs -> row]]: what the query returned
  breachSent,  \* history: breach notices sent for each requisition
  nudgeSent,   \* history: nudges sent
  handOffs     \* history: hand-off notices sent to an alternate

sweepState == <<phase, task, nudge, copy>>
sweepHistory == <<breachSent, nudgeSent, handOffs>>
watchVars == <<age, sweepState, sweepHistory>>

(* Less than half of the SLA window, more than half, past the deadline.    *)
Ages == {"fresh", "half", "overdue"}

TaskEnded == {"off", "done", "failed"}

(* The histories count up to Many: once, or more than once.                *)
Many == 2
Counted(n) == IF n < Many THEN n + 1 ELSE Many

WatchInit ==
  /\ age = [r \in Reqs |-> "fresh"]
  /\ phase = [s \in Sweeps |-> "idle"]
  /\ task = [s \in Sweeps |-> [r \in Reqs |-> "off"]]
  /\ nudge = [s \in Sweeps |-> [r \in Reqs |-> "off"]]
  /\ copy = [s \in Sweeps |-> [r \in Reqs |-> NoRow]]
  /\ breachSent = [r \in Reqs |-> 0]
  /\ nudgeSent = [r \in Reqs |-> 0]
  /\ handOffs = [r \in Reqs |-> 0]

-----------------------------------------------------------------------------
(* Time passes for a submitted requisition.                                *)
GrowOld(r) ==
  /\ r \in Submitted
  /\ \/ age[r] = "fresh" /\ age' = [age EXCEPT ![r] = "half"]
     \/ age[r] = "half" /\ age' = [age EXCEPT ![r] = "overdue"]
  /\ UNCHANGED <<tables, sweepState, sweepHistory>>

BreachedUnstamped(r) ==   \* mutant: the query ignores the stamp
  req[r].status = "pending_supervisor" /\ age[r] = "overdue"

Breached(r) ==
  /\ req[r].status = "pending_supervisor"
  /\ age[r] = "overdue"
  /\ ~req[r].breached

ToNudge(r) ==
  /\ req[r].status = "pending_supervisor"
  /\ age[r] = "half"
  /\ ~req[r].nudged

FoundNotified(queried) ==  \* mutant: the notices are left out
  [r \in Reqs |-> IF r \in queried THEN "notified" ELSE "off"]

FoundQueued(queried) ==    \* mutant: a stage nobody serves
  [r \in Reqs |-> IF r \in queried THEN "queued" ELSE "off"]

Found(queried) == [r \in Reqs |-> IF r \in queried THEN "found" ELSE "off"]

(* The watchers start: checkSlaBreaches() runs its query.                  *)
QueryBreaches(s) ==
  /\ phase[s] = "idle"
  /\ phase' = [phase EXCEPT ![s] = "sla"]
  /\ task' = [task EXCEPT ![s] = Found({r \in Reqs : Breached(r)})]
  /\ copy' = [copy EXCEPT ![s] = [r \in Reqs |-> IF Breached(r) THEN req[r]
                                                 ELSE NoRow]]
  /\ UNCHANGED <<tables, age, nudge, sweepHistory>>

(* Requester, oversight and supervisor are told.                           *)
NotifyBreach(s, r) ==
  /\ task[s][r] = "found"
  /\ task' = [task EXCEPT ![s][r] = "notified"]
  /\ breachSent' = [breachSent EXCEPT ![r] = Counted(@)]
  /\ UNCHANGED <<tables, age, phase, nudge, copy, nudgeSent, handOffs>>

(* The users to hand a requisition off to, by the row the query returned:  *)
(* at most the usable alternate of its supervisor, and only once.          *)
AlternatesAgain(row) ==    \* mutant: a second hop
  IF row.supervisor = None THEN {} ELSE UsableAlternate(row.supervisor)

Alternates(row) ==
  IF row.routed \/ row.supervisor = None THEN {}
  ELSE UsableAlternate(row.supervisor)

ResolveAlternate(s, r) ==
  /\ task[s][r] = "notified"
  /\ task' = [task EXCEPT ![s][r] =
                 IF Alternates(copy[s][r]) = {} THEN "keep" ELSE "hand off"]
  /\ UNCHANGED <<tables, age, phase, nudge, copy, sweepHistory>>

(***************************************************************************)
(* One UPDATE stamps the breach and, if an alternate was found, hands the  *)
(* requisition off, whatever the row's status is by now.                   *)
(***************************************************************************)
HandedOffUnmarked(row, alt) ==   \* mutant: alternateRoutedAt not set
  [row EXCEPT !.breached = TRUE, !.supervisor = alt]

HandedOff(row, alt) ==
  [row EXCEPT !.breached = TRUE, !.supervisor = alt, !.routed = TRUE]

StampBreach(s, r) ==
  /\ task[s][r] \in {"keep", "hand off"}
  /\ \/ /\ task[s][r] = "keep"
        /\ req' = [req EXCEPT ![r].breached = TRUE]
        /\ task' = [task EXCEPT ![s][r] = "done"]
     \/ /\ task[s][r] = "hand off"
        /\ req' = [req EXCEPT ![r] =
                     HandedOff(@, AlternateOf[copy[s][r].supervisor])]
        /\ task' = [task EXCEPT ![s][r] = "routed"]
  /\ UNCHANGED <<itemRows, link, approvals, asset, audit, age, phase, nudge,
                 copy, sweepHistory>>

(* The alternate is told, and the reassignment audited.                    *)
NotifyAlternate(s, r) ==
  /\ task[s][r] = "routed"
  /\ task' = [task EXCEPT ![s][r] = "done"]
  /\ handOffs' = [handOffs EXCEPT ![r] = Counted(@)]
  /\ audit' = audit \cup {[request |-> None, req |-> r, action |-> "reassign"]}
  /\ UNCHANGED <<req, itemRows, link, approvals, asset, age, phase, nudge,
                 copy, breachSent, nudgeSent>>

(* Promise.all() settles when every task has, or as soon as one fails; the *)
(* other tasks run on, and runWatcher() goes to the second watcher.        *)
SettledAllDone(stages) ==        \* mutant: a failed task never settles
  \A r \in Reqs : stages[r] \in {"off", "done"}

Settled(stages) ==
  \/ \A r \in Reqs : stages[r] \in TaskEnded
  \/ \E r \in Reqs : stages[r] = "failed"

QueryNudges(s) ==
  /\ phase[s] = "sla"
  /\ Settled(task[s])
  /\ phase' = [phase EXCEPT ![s] = "nudge"]
  /\ nudge' = [nudge EXCEPT ![s] = Found({r \in Reqs : ToNudge(r)})]
  /\ UNCHANGED <<tables, age, task, copy, sweepHistory>>

SendNudge(s, r) ==
  /\ nudge[s][r] = "found"
  /\ nudge' = [nudge EXCEPT ![s][r] = "notified"]
  /\ nudgeSent' = [nudgeSent EXCEPT ![r] = Counted(@)]
  /\ UNCHANGED <<tables, age, phase, task, copy, breachSent, handOffs>>

StampNudge(s, r) ==
  /\ nudge[s][r] = "notified"
  /\ nudge' = [nudge EXCEPT ![s][r] = "done"]
  /\ req' = [req EXCEPT ![r].nudged = TRUE]
  /\ UNCHANGED <<itemRows, link, approvals, asset, audit, age, phase, task,
                 copy, sweepHistory>>

(* The sweep has returned; a task that outlived a failed sibling is waited *)
(* for here, for the slot to be free again.                                *)
EndSweep(s) ==
  /\ phase[s] = "nudge"
  /\ \A r \in Reqs : task[s][r] \in TaskEnded /\ nudge[s][r] \in TaskEnded
  /\ phase' = [phase EXCEPT ![s] = "idle"]
  /\ task' = [task EXCEPT ![s] = Found({})]
  /\ nudge' = [nudge EXCEPT ![s] = Found({})]
  /\ copy' = [copy EXCEPT ![s] = [r \in Reqs |-> NoRow]]
  /\ UNCHANGED <<tables, age, sweepHistory>>

-----------------------------------------------------------------------------
(* An await of one requisition's handling throws; some of the notices of a *)
(* fan-out may have gone out.                                              *)
BreachFails(s, r) ==
  /\ Faults
  /\ task[s][r] \notin TaskEnded
  /\ task' = [task EXCEPT ![s][r] = "failed"]
  /\ \/ UNCHANGED breachSent
     \/ /\ task[s][r] = "found"
        /\ breachSent' = [breachSent EXCEPT ![r] = Counted(@)]
  /\ UNCHANGED <<tables, age, phase, nudge, copy, nudgeSent, handOffs>>

NudgeFails(s, r) ==
  /\ Faults
  /\ nudge[s][r] \notin TaskEnded
  /\ nudge' = [nudge EXCEPT ![s][r] = "failed"]
  /\ UNCHANGED <<tables, age, phase, task, copy, sweepHistory>>

(* The server restarts in the middle of a sweep.                           *)
SweepDies(s) ==
  /\ Faults
  /\ phase[s] # "idle"
  /\ phase' = [phase EXCEPT ![s] = "idle"]
  /\ task' = [task EXCEPT ![s] = Found({})]
  /\ nudge' = [nudge EXCEPT ![s] = Found({})]
  /\ copy' = [copy EXCEPT ![s] = [r \in Reqs |-> NoRow]]
  /\ UNCHANGED <<tables, age, sweepHistory>>

-----------------------------------------------------------------------------
Serve(s, r) ==
  \/ NotifyBreach(s, r) \/ ResolveAlternate(s, r) \/ StampBreach(s, r)
  \/ NotifyAlternate(s, r)
  \/ SendNudge(s, r) \/ StampNudge(s, r)

Lose(s, r) == BreachFails(s, r) \/ NudgeFails(s, r)

Advance(s) == QueryBreaches(s) \/ QueryNudges(s) \/ EndSweep(s)

WatchNext ==
  \/ \E r \in Reqs : GrowOld(r)
  \/ \E s \in Sweeps :
       \/ Advance(s) \/ SweepDies(s)
       \/ \E r \in Reqs : Serve(s, r) \/ Lose(s, r)

WatchTypeOK ==
  /\ age \in [Reqs -> Ages]
  /\ phase \in [Sweeps -> {"idle", "sla", "nudge"}]
  /\ task \in [Sweeps -> [Reqs -> TaskEnded \cup
                                    {"found", "notified", "keep", "hand off",
                                     "routed"}]]
  /\ nudge \in [Sweeps -> [Reqs -> TaskEnded \cup {"found", "notified"}]]
  /\ copy \in [Sweeps -> [Reqs -> Row]]
  /\ breachSent \in [Reqs -> 0..Many]
  /\ nudgeSent \in [Reqs -> 0..Many]
  /\ handOffs \in [Reqs -> 0..Many]
=============================================================================
