------------------------ MODULE RequisitionDesk_proofs ------------------------
(***************************************************************************)
(* Theorems about RequisitionDesk, for every value of its constants: the   *)
(* requests of Requisitions and any number of hourly sweeps write the same *)
(* rows.                                                                   *)
(***************************************************************************)
EXTENDS RequisitionDesk, Requisitions_proofs

-----------------------------------------------------------------------------
(* What the watchers do to the tables.                                     *)

(* A step of the watchers.                                                 *)
WatchStep == WatchNext /\ UNCHANGED <<locks, duty, handlers, history>>

(* The UPDATEs of a sweep leave these columns of a requisition alone.      *)
SameRequest(old, new) ==
  /\ new.status = old.status /\ new.number = old.number
  /\ new.decision = old.decision /\ new.fulfiller = old.fulfiller

(* The two UPDATEs of a sweep: the breach stamp, with or without a         *)
(* hand-off, and the nudge stamp.                                          *)
Stamps(s, r) == StampBreach(s, r) \/ StampNudge(s, r)

(* A step of the watchers writes at most one requisition, by one of these. *)
LEMMA WatchMoves ==
  ASSUME WatchStep
  PROVE  /\ UNCHANGED <<itemRows, link, approvals, asset, locks, duty,
                        handlers, history>>
         /\ \/ UNCHANGED req
            \/ \E s \in Sweeps, r \in Reqs : Stamps(s, r)
<1>1. CASE \E r \in Reqs : GrowOld(r)
  BY <1>1 DEF GrowOld, tables, WatchStep
<1>2. ASSUME NEW s \in Sweeps, Advance(s) \/ SweepDies(s)
      PROVE  UNCHANGED tables
  BY <1>2 DEF Advance, QueryBreaches, QueryNudges, EndSweep, SweepDies
<1>3. ASSUME NEW s \in Sweeps, NEW r \in Reqs, Serve(s, r) \/ Lose(s, r)
      PROVE  /\ UNCHANGED <<itemRows, link, approvals, asset>>
             /\ UNCHANGED req \/ Stamps(s, r)
  BY <1>3 DEF Serve, Lose, NotifyBreach, ResolveAlternate, StampBreach,
     NotifyAlternate, SendNudge, StampNudge, BreachFails, NudgeFails, tables,
     Stamps
<1> QED
  BY <1>1, <1>2, <1>3 DEF WatchStep, WatchNext, tables

(* What a stamp writes.                                                    *)
LEMMA StampWrites ==
  ASSUME TypeOK, NEW s \in Sweeps, NEW r \in Reqs, Stamps(s, r)
  PROVE  /\ SameRequest(req[r], req'[r])
         /\ \A x \in Reqs : x # r => req'[x] = req[x]
         /\ \/ /\ StampBreach(s, r) /\ req'[r].breached = TRUE
               /\ req'[r].nudged = req[r].nudged
               /\ \/ /\ task[s][r] = "keep"
                     /\ req'[r].supervisor = req[r].supervisor
                     /\ req'[r].routed = req[r].routed
                  \/ /\ task[s][r] = "hand off"
                     /\ req'[r].supervisor = AlternateOf[copy[s][r].supervisor]
                     /\ req'[r].routed = TRUE
            \/ /\ StampNudge(s, r) /\ req'[r].nudged = TRUE
               /\ req'[r].breached = req[r].breached
               /\ req'[r].supervisor = req[r].supervisor
               /\ req'[r].routed = req[r].routed
         /\ \/ req'[r] = [req[r] EXCEPT !.breached = TRUE]
            \/ req'[r] = HandedOff(req[r], AlternateOf[copy[s][r].supervisor])
               /\ task[s][r] = "hand off"
            \/ req'[r] = [req[r] EXCEPT !.nudged = TRUE]
<1>0. req[r] \in Row /\ req \in [Reqs -> Row]
  BY DEF TypeOK
<1>1. CASE StampNudge(s, r)
  <2>1. req' = [req EXCEPT ![r] = [@ EXCEPT !.nudged = TRUE]]
    BY <1>1 DEF StampNudge
  <2>2. req'[r] = [req[r] EXCEPT !.nudged = TRUE]
        /\ \A x \in Reqs : x # r => req'[x] = req[x]
    BY <1>0, <2>1
  <2> QED
    BY <1>0, <1>1, <2>2 DEF SameRequest, Row
<1>2. CASE StampBreach(s, r) /\ task[s][r] = "keep"
  <2>1. req' = [req EXCEPT ![r] = [@ EXCEPT !.breached = TRUE]]
    BY <1>2 DEF StampBreach
  <2>2. req'[r] = [req[r] EXCEPT !.breached = TRUE]
        /\ \A x \in Reqs : x # r => req'[x] = req[x]
    BY <1>0, <2>1
  <2> QED
    BY <1>0, <1>2, <2>2 DEF SameRequest, Row
<1>3. CASE StampBreach(s, r) /\ task[s][r] = "hand off"
  <2> DEFINE alt == AlternateOf[copy[s][r].supervisor]
  <2>1. req'[r] = HandedOff(req[r], alt)
        /\ \A x \in Reqs : x # r => req'[x] = req[x]
    BY <1>0, <1>3 DEF StampBreach
  <2>2. HandedOff(req[r], alt) =
          [req[r] EXCEPT !.breached = TRUE, !.supervisor = alt, !.routed = TRUE]
    BY DEF HandedOff
  <2> QED
    BY ZenonT(60), <1>0, <1>3, <2>1, <2>2 DEF SameRequest, Row
<1> QED
  BY <1>1, <1>2, <1>3 DEF Stamps, StampBreach

-----------------------------------------------------------------------------
(* What a step of the watchers does to the handling of one requisition by  *)
(* one sweep.                                                              *)
Stages == TaskEnded \cup {"found", "notified", "keep", "hand off", "routed"}
Steps == TaskEnded \cup {"found", "notified"}

Queried(s, r) ==
  /\ phase[s] = "idle" /\ Breached(r)
  /\ task'[s][r] = "found" /\ copy'[s][r] = req[r]

Notified(s, r) ==
  /\ task[s][r] = "found" /\ task'[s][r] = "notified" /\ copy' = copy
  /\ breachSent' = [breachSent EXCEPT ![r] = Counted(@)]
  /\ UNCHANGED <<req, nudgeSent, handOffs>>

Resolved(s, r) ==
  /\ task[s][r] = "notified" /\ copy' = copy
  /\ \/ task'[s][r] = "keep"
     \/ task'[s][r] = "hand off" /\ Alternates(copy[s][r]) # {}

Routes(s, r) ==
  /\ StampBreach(s, r)
  /\ task[s][r] = "hand off" /\ task'[s][r] = "routed" /\ copy' = copy

TaskStill(s, r) ==
  task'[s][r] = task[s][r] /\ copy'[s][r] = copy[s][r]

(* The handling of one requisition moves one stage or one step.            *)
LEMMA OneStage ==
  ASSUME NEW t \in Sweeps, NEW x \in Reqs, Serve(t, x) \/ Lose(t, x)
  PROVE  /\ UNCHANGED <<age, phase, copy>>
         /\ \/ UNCHANGED task
            \/ \E stage \in Stages : task' = [task EXCEPT ![t][x] = stage]
         /\ \/ UNCHANGED nudge
            \/ \E step \in Steps : nudge' = [nudge EXCEPT ![t][x] = step]
BY DEF Serve, Lose, NotifyBreach, ResolveAlternate, StampBreach,
   NotifyAlternate, SendNudge, StampNudge, BreachFails, NudgeFails, TaskEnded,
   Stages, Steps

(* A sweep that ends, or is cut short, forgets what it was doing.          *)
LEMMA Forgets ==
  ASSUME NEW t \in Sweeps, EndSweep(t) \/ SweepDies(t)
  PROVE  /\ phase' = [phase EXCEPT ![t] = "idle"]
         /\ task' = [task EXCEPT ![t] = Found({})]
         /\ nudge' = [nudge EXCEPT ![t] = Found({})]
         /\ copy' = [copy EXCEPT ![t] = [r \in Reqs |-> NoRow]]
         /\ UNCHANGED <<tables, age, breachSent, nudgeSent, handOffs>>
BY DEF EndSweep, SweepDies, sweepHistory

LEMMA TaskMoves ==
  ASSUME WatchTypeOK, WatchStep, NEW s \in Sweeps, NEW r \in Reqs
  PROVE  \/ TaskStill(s, r) \/ task'[s][r] \in TaskEnded
         \/ Queried(s, r) \/ Notified(s, r) \/ Resolved(s, r) \/ Routes(s, r)
<1> USE DEF TaskStill
<1>0. /\ task \in [Sweeps -> [Reqs -> Stages]]
      /\ copy \in [Sweeps -> [Reqs -> Row]]
      /\ breachSent \in [Reqs -> 0..Many]
  BY DEF WatchTypeOK, Stages
<1>1. CASE \E x \in Reqs : GrowOld(x)
  BY <1>1 DEF GrowOld, sweepState
<1>2. ASSUME NEW t \in Sweeps, QueryBreaches(t)
      PROVE  \/ TaskStill(s, r) \/ task'[s][r] \in TaskEnded \/ Queried(s, r)
  BY <1>0, <1>2 DEF QueryBreaches, Found, TaskEnded, Queried
<1>3. ASSUME NEW t \in Sweeps, QueryNudges(t)
      PROVE  TaskStill(s, r)
  BY <1>3 DEF QueryNudges
<1>4. ASSUME NEW t \in Sweeps, EndSweep(t) \/ SweepDies(t)
      PROVE  TaskStill(s, r) \/ task'[s][r] \in TaskEnded
  <2>1. Found({})[r] = "off"
    BY DEF Found
  <2>2. CASE s = t
    BY <1>0, <1>4, <2>1, <2>2, Forgets DEF TaskEnded
  <2>3. CASE s # t
    BY <1>0, <1>4, <2>3, Forgets
  <2> QED
    BY <2>2, <2>3
<1>5. ASSUME NEW t \in Sweeps, NEW x \in Reqs, Serve(t, x) \/ Lose(t, x),
             ~(s = t /\ r = x)
      PROVE  TaskStill(s, r)
  <2>1. copy' = copy
    BY <1>5, OneStage
  <2>2. ASSUME NEW stage, task' = [task EXCEPT ![t][x] = stage]
        PROVE  task'[s][r] = task[s][r]
    BY <1>0, <1>5, <2>2
  <2> QED
    BY <1>5, <2>1, <2>2, OneStage
<1>6. ASSUME Serve(s, r)
      PROVE  \/ TaskStill(s, r) \/ task'[s][r] \in TaskEnded
             \/ Notified(s, r) \/ Resolved(s, r) \/ Routes(s, r)
  <2>1. CASE NotifyBreach(s, r)
    BY <1>0, <2>1 DEF NotifyBreach, Notified, tables
  <2>2. CASE ResolveAlternate(s, r)
    BY <1>0, <2>2 DEF ResolveAlternate, Resolved
  <2>3. CASE StampBreach(s, r)
    BY ZenonT(60), <1>0, <2>3 DEF StampBreach, Routes, TaskEnded
  <2>4. CASE NotifyAlternate(s, r)
    BY <1>0, <2>4 DEF NotifyAlternate, TaskEnded
  <2>5. CASE SendNudge(s, r) \/ StampNudge(s, r)
    BY <2>5 DEF SendNudge, StampNudge
  <2> QED
    BY <1>6, <2>1, <2>2, <2>3, <2>4, <2>5 DEF Serve
<1>7. ASSUME Lose(s, r)
      PROVE  TaskStill(s, r) \/ task'[s][r] \in TaskEnded
  <2>1. CASE BreachFails(s, r)
    <3>1. task' = [task EXCEPT ![s][r] = "failed"]
      BY <2>1 DEF BreachFails
    <3>2. task'[s][r] = "failed"
      BY <1>0, <3>1
    <3> QED
      BY <3>2 DEF TaskEnded
  <2>2. CASE NudgeFails(s, r)
    BY <2>2 DEF NudgeFails
  <2> QED
    BY <1>7, <2>1, <2>2 DEF Lose
<1> QED
  BY <1>1, <1>2, <1>3, <1>4, <1>5, <1>6, <1>7 DEF WatchStep, WatchNext, Advance

-----------------------------------------------------------------------------
(* Types.  A sweep that is about to hand a requisition off found a         *)
(* supervisor with an alternate on it, and no earlier hand-off.            *)
HandingAt(s, r) ==
  task[s][r] = "hand off" =>
    /\ ~copy[s][r].routed /\ copy[s][r].supervisor # None
    /\ AlternateOf[copy[s][r].supervisor] # None

WInv == WatchTypeOK /\ \A s \in Sweeps, r \in Reqs : HandingAt(s, r)

(* Every step of the watchers keeps their variables well typed.            *)
LEMMA WatchTyped ==
  ASSUME TypeOK, WatchTypeOK, WatchStep
  PROVE  WatchTypeOK'
<1>0. /\ age \in [Reqs -> Ages]
      /\ phase \in [Sweeps -> {"idle", "sla", "nudge"}]
      /\ task \in [Sweeps -> [Reqs -> Stages]]
      /\ nudge \in [Sweeps -> [Reqs -> Steps]]
      /\ copy \in [Sweeps -> [Reqs -> Row]]
      /\ breachSent \in [Reqs -> 0..Many]
      /\ nudgeSent \in [Reqs -> 0..Many]
      /\ handOffs \in [Reqs -> 0..Many]
      /\ req \in [Reqs -> Row] /\ NoRow \in Row
  BY DEF WatchTypeOK, TypeOK, NoRow, Row, Stages, Steps
<1>1. CASE \E x \in Reqs : GrowOld(x)
  BY <1>0, <1>1 DEF GrowOld, sweepState, sweepHistory, WatchTypeOK, Ages, Stages, Steps
<1>2. ASSUME NEW queried \in SUBSET Reqs
      PROVE  Found(queried) \in [Reqs -> Stages] /\ Found(queried) \in [Reqs -> Steps]
  BY DEF Found, TaskEnded, Stages, Steps
<1>3. ASSUME NEW t \in Sweeps, QueryBreaches(t)
      PROVE  WatchTypeOK'
  <2>1. [r \in Reqs |-> IF Breached(r) THEN req[r] ELSE NoRow] \in [Reqs -> Row]
    BY <1>0
  <2>2. Found({r \in Reqs : Breached(r)}) \in [Reqs -> Stages]
    BY <1>2
  <2> QED
    BY <1>0, <1>3, <2>1, <2>2 DEF QueryBreaches, sweepHistory, WatchTypeOK, Stages,
       Steps
<1>4. ASSUME NEW t \in Sweeps, QueryNudges(t)
      PROVE  WatchTypeOK'
  <2>1. Found({r \in Reqs : ToNudge(r)}) \in [Reqs -> Steps]
    BY <1>2
  <2> QED
    BY <1>0, <1>4, <2>1 DEF QueryNudges, sweepHistory, WatchTypeOK, Stages,
       Steps
<1>5. ASSUME NEW t \in Sweeps, EndSweep(t) \/ SweepDies(t)
      PROVE  WatchTypeOK'
  <2>1. Found({}) \in [Reqs -> Stages] /\ Found({}) \in [Reqs -> Steps]
    BY <1>2
  <2>2. [r \in Reqs |-> NoRow] \in [Reqs -> Row]
    BY <1>0
  <2>3. /\ phase' \in [Sweeps -> {"idle", "sla", "nudge"}]
        /\ task' \in [Sweeps -> [Reqs -> Stages]]
        /\ nudge' \in [Sweeps -> [Reqs -> Steps]]
        /\ copy' \in [Sweeps -> [Reqs -> Row]]
    <3> DEFINE nothing == Found({})
               empty == [r \in Reqs |-> NoRow]
    <3> HIDE DEF nothing, empty
    <3>1. /\ phase' = [phase EXCEPT ![t] = "idle"]
          /\ task' = [task EXCEPT ![t] = nothing]
          /\ nudge' = [nudge EXCEPT ![t] = nothing]
          /\ copy' = [copy EXCEPT ![t] = empty]
      BY <1>5, Forgets DEF nothing, empty
    <3>2. /\ nothing \in [Reqs -> Stages] /\ nothing \in [Reqs -> Steps]
          /\ empty \in [Reqs -> Row]
      BY <2>1, <2>2 DEF nothing, empty
    <3> QED
      BY <1>0, <3>1, <3>2
  <2> QED
    BY <1>0, <1>5, <2>3, Forgets DEF WatchTypeOK, Stages, Steps
<1>6. \A r \in Reqs : /\ Counted(breachSent[r]) \in 0..Many
                      /\ Counted(nudgeSent[r]) \in 0..Many
                      /\ Counted(handOffs[r]) \in 0..Many
  <2>1. ASSUME NEW n \in 0..Many PROVE Counted(n) \in 0..Many
    BY DEF Counted, Many
  <2> QED
    BY <1>0, <2>1
<1>7. ASSUME NEW t \in Sweeps, NEW x \in Reqs, NEW stage \in Stages
      PROVE  [task EXCEPT ![t][x] = stage] \in [Sweeps -> [Reqs -> Stages]]
  <2>1. [task[t] EXCEPT ![x] = stage] \in [Reqs -> Stages]
    BY <1>0
  <2> QED
    BY <1>0, <2>1
<1>8. ASSUME NEW t \in Sweeps, NEW x \in Reqs, NEW step \in Steps
      PROVE  [nudge EXCEPT ![t][x] = step] \in [Sweeps -> [Reqs -> Steps]]
  <2>1. [nudge[t] EXCEPT ![x] = step] \in [Reqs -> Steps]
    BY <1>0
  <2> QED
    BY <1>0, <2>1
<1>9. ASSUME NEW t \in Sweeps, NEW x \in Reqs, Serve(t, x) \/ Lose(t, x)
      PROVE  WatchTypeOK'
  <2>1. \/ UNCHANGED task
        \/ \E stage \in Stages : task' = [task EXCEPT ![t][x] = stage]
    BY <1>9, OneStage
  <2>2. \/ UNCHANGED nudge
        \/ \E step \in Steps : nudge' = [nudge EXCEPT ![t][x] = step]
    BY <1>9, OneStage
  <2>3. /\ UNCHANGED <<age, phase, copy>>
        /\ UNCHANGED breachSent
           \/ breachSent' = [breachSent EXCEPT ![x] = Counted(@)]
        /\ UNCHANGED nudgeSent
           \/ nudgeSent' = [nudgeSent EXCEPT ![x] = Counted(@)]
        /\ UNCHANGED handOffs
           \/ handOffs' = [handOffs EXCEPT ![x] = Counted(@)]
    BY <1>9 DEF Serve, Lose, NotifyBreach, ResolveAlternate, StampBreach,
       NotifyAlternate, SendNudge, StampNudge, BreachFails, NudgeFails,
       sweepHistory
  <2>4. task' \in [Sweeps -> [Reqs -> Stages]]
    <3>1. CASE UNCHANGED task
      BY <1>0, <3>1
    <3>2. CASE \E stage \in Stages : task' = [task EXCEPT ![t][x] = stage]
      BY <1>7, <3>2
    <3> QED
      BY <2>1, <3>1, <3>2
  <2>5. nudge' \in [Sweeps -> [Reqs -> Steps]]
    <3>1. CASE UNCHANGED nudge
      BY <1>0, <3>1
    <3>2. CASE \E step \in Steps : nudge' = [nudge EXCEPT ![t][x] = step]
      BY <1>8, <3>2
    <3> QED
      BY <2>2, <3>1, <3>2
  <2>6. /\ breachSent' \in [Reqs -> 0..Many]
        /\ nudgeSent' \in [Reqs -> 0..Many]
        /\ handOffs' \in [Reqs -> 0..Many]
    BY SMTT(30), <1>0, <1>6, <2>3
  <2> QED
    BY <1>0, <2>3, <2>4, <2>5, <2>6 DEF WatchTypeOK, Stages, Steps
<1> QED
  BY <1>1, <1>3, <1>4, <1>5, <1>9 DEF WatchStep, WatchNext, Advance

LEMMA WatchWInv ==
  ASSUME TypeOK, WInv, WatchStep
  PROVE  WInv'
<1> SUFFICES ASSUME NEW s \in Sweeps, NEW r \in Reqs
             PROVE  HandingAt(s, r)'
  BY WatchTyped DEF WInv
<1>0. WatchTypeOK /\ HandingAt(s, r)
  BY DEF WInv
<1>1. ASSUME Resolved(s, r)
      PROVE  HandingAt(s, r)'
  BY <1>0, <1>1 DEF Resolved, HandingAt, Alternates, UsableAlternate
<1> QED
  BY <1>0, <1>1, TaskMoves
  DEF HandingAt, TaskStill, TaskEnded, Queried, Notified, Routes

-----------------------------------------------------------------------------
(* The invariants of the requests hold in the composed system: a sweep     *)
(* writes none of the columns they are about.                              *)
LEMMA WatchSame ==
  ASSUME TypeOK, WatchStep
  PROVE  /\ \A r \in Reqs : SameRequest(req[r], req'[r])
         /\ Submitted' = Submitted
         /\ UNCHANGED <<itemRows, link, approvals, asset, locks, duty, handlers,
                        history>>
<1>1. UNCHANGED <<itemRows, link, approvals, asset, locks, duty, handlers,
                  history>>
  BY WatchMoves
<1>2. ASSUME NEW r \in Reqs
      PROVE  SameRequest(req[r], req'[r])
  <2>1. CASE UNCHANGED req
    BY <2>1 DEF SameRequest
  <2>2. ASSUME NEW s \in Sweeps, NEW x \in Reqs, Stamps(s, x)
        PROVE  SameRequest(req[r], req'[r])
    BY <2>2, StampWrites DEF SameRequest
  <2> QED
    BY <2>1, <2>2, WatchMoves
<1>3. Submitted' = Submitted
  BY <1>2, Zenon DEF Submitted, SameRequest
<1> QED
  BY <1>1, <1>2, <1>3

(* The row a sweep writes is a row.                                        *)
LEMMA WatchRows ==
  ASSUME TypeOK, WInv, WatchStep
  PROVE  req' \in [Reqs -> Row]
<1>0. req \in [Reqs -> Row] /\ copy \in [Sweeps -> [Reqs -> Row]]
  BY DEF TypeOK, WInv, WatchTypeOK
<1>1. ASSUME NEW s \in Sweeps, NEW r \in Reqs, Stamps(s, r)
      PROVE  req' \in [Reqs -> Row]
  <2>1. req[r] \in Row /\ copy[s][r] \in Row /\ HandingAt(s, r)
    BY <1>0 DEF WInv
  <2>2. task[s][r] = "hand off" =>
          AlternateOf[copy[s][r].supervisor] \in Users \cup {None}
    BY <2>1, StoreAssumption DEF HandingAt, Row
  <2>3. CASE StampNudge(s, r)
    <3>1. [req[r] EXCEPT !.nudged = TRUE] \in Row
      BY <2>1 DEF Row
    <3> QED
      BY <1>0, <2>3, <3>1 DEF StampNudge
  <2>4. CASE StampBreach(s, r) /\ task[s][r] = "keep"
    <3>1. [req[r] EXCEPT !.breached = TRUE] \in Row
      BY <2>1 DEF Row
    <3> QED
      BY <1>0, <2>4, <3>1 DEF StampBreach
  <2>5. CASE StampBreach(s, r) /\ task[s][r] = "hand off"
    <3>1. HandedOff(req[r], AlternateOf[copy[s][r].supervisor]) \in Row
      BY <2>1, <2>2, <2>5 DEF Row, HandedOff
    <3> QED
      BY <1>0, <2>5, <3>1 DEF StampBreach
  <2> QED
    BY <1>1, <2>3, <2>4, <2>5 DEF Stamps, StampBreach
<1> QED
  BY <1>0, <1>1, WatchMoves

(* A sweep audits the hand-offs it has told the alternates of.             *)
LEMMA WatchAudits ==
  ASSUME WatchStep
  PROVE  \/ UNCHANGED audit
         \/ \E s \in Sweeps, r \in Reqs : NotifyAlternate(s, r)
<1>1. ASSUME NEW t \in Sweeps, Advance(t) \/ SweepDies(t)
      PROVE  UNCHANGED audit
  BY <1>1 DEF Advance, QueryBreaches, QueryNudges, EndSweep, SweepDies, tables
<1>2. ASSUME NEW t \in Sweeps, NEW r \in Reqs, Serve(t, r) \/ Lose(t, r)
      PROVE  UNCHANGED audit \/ NotifyAlternate(t, r)
  BY <1>2 DEF Serve, Lose, NotifyBreach, ResolveAlternate, StampBreach,
     SendNudge, StampNudge, BreachFails, NudgeFails, tables
<1>3. ASSUME NEW r \in Reqs, GrowOld(r)
      PROVE  UNCHANGED audit
  BY <1>3 DEF GrowOld, tables
<1> QED
  BY <1>1, <1>2, <1>3 DEF WatchStep, WatchNext

LEMMA WatchTypes ==
  ASSUME TypeOK, WInv, WatchStep
  PROVE  TypeOK'
<1>1. audit' \subseteq [request: Requests \cup {None}, req: Reqs,
                        action: Kinds \cup {"reassign"}]
  <2> DEFINE Entries == [request: Requests \cup {None}, req: Reqs,
                         action: Kinds \cup {"reassign"}]
  <2>1. \/ UNCHANGED audit
        \/ \E r \in Reqs :
             audit' = audit \cup
               {[request |-> None, req |-> r, action |-> "reassign"]}
    BY WatchAudits, Zenon DEF NotifyAlternate
  <2>2. ASSUME NEW r \in Reqs
        PROVE  [request |-> None, req |-> r, action |-> "reassign"] \in Entries
    OBVIOUS
  <2>3. audit \subseteq Entries
    BY DEF TypeOK
  <2> HIDE DEF Entries
  <2>4. audit' \subseteq Entries
    BY <2>1, <2>2, <2>3
  <2> QED
    BY <2>4 DEF Entries
<1> QED
  BY <1>1, WatchRows, WatchSame DEF TypeOK, locks, handlers, history

LEMMA WatchInvariants ==
  ASSUME DInv, Numbered, WInv, WatchStep
  PROVE  DInv' /\ Numbered'
<1>1. /\ TypeOK /\ Control /\ Held /\ DecisionOnRecord /\ Intent /\ Creation
  BY DEF DInv, IInv
<1>2. /\ \A r \in Reqs : /\ req'[r].status = req[r].status
                         /\ req'[r].number = req[r].number
      /\ Submitted' = Submitted
      /\ UNCHANGED <<itemRows, link, approvals, asset, itemLock, keyShare,
                     rowLock, duty, pc, job, mine, base, todo, seen, draw,
                     hooks, primary, issued, lowNotices>>
  BY <1>1, WatchSame DEF SameRequest, locks, handlers, history
<1>3. Control'
  BY <1>1, <1>2 DEF Control, ControlAt, Target
<1>4. Held'
  BY <1>1, <1>2 DEF Held, HeldAt
<1>5. DecisionOnRecord' /\ Intent'
  BY <1>1, <1>2 DEF DecisionOnRecord, HasDecision, Intent, IntentAt, Target
<1>6. Creation'
  <2>1. ASSUME NEW q \in Requests
        PROVE  CreationAt(q)'
    <3>1. CASE pc[q] = "idle"
      BY <1>2, <3>1 DEF CreationAt, InProgress
    <3>2. CASE pc[q] # "idle"
      <4>1. Target(q) \in Reqs /\ CreationAt(q)
        BY <1>1, <3>2 DEF Control, ControlAt, Creation
      <4> QED
        BY <1>2, <4>1 DEF CreationAt, InProgress, Target
    <3> QED
      BY <3>1, <3>2
  <2> QED
    BY <1>1, <1>2, <2>1 DEF Creation, OnceAt, Target
<1>7. Numbered'
  <2>1. NumbersDense'
    BY <1>2 DEF Numbered, NumbersDense, Submitted
  <2>2. ASSUME NEW q \in Requests
        PROVE  NumberAt(q)'
    <3>1. NumberAt(q) /\ ControlAt(q)
      BY <1>1 DEF Numbered, Control
    <3>2. pc[q] \in Reading => Target(q) \in Reqs
      BY <3>1 DEF ControlAt, Reading, Transaction
    <3> QED
      BY <1>2, <3>1, <3>2 DEF NumberAt, Target
  <2> QED
    BY <2>1, <2>2 DEF Numbered
<1> QED
  BY <1>1, <1>3, <1>4, <1>5, <1>6, <1>7, WatchTypes DEF DInv, IInv

DeskInv == DInv /\ Numbered /\ WInv

LEMMA InitDeskInv == DeskInit => DeskInv
<1> SUFFICES ASSUME DeskInit PROVE WInv
  BY InitDInv, InitNumbered DEF DeskInit, DeskInv
<1>1. NoRow \in Row
  BY DEF NoRow, Row
<1>2. WatchTypeOK
  BY <1>1 DEF DeskInit, WatchInit, WatchTypeOK, Ages, TaskEnded, Many
<1> QED
  BY <1>2 DEF DeskInit, WatchInit, WInv, HandingAt

(* A step of the composed system is one of a request or one of a watcher.  *)
LEMMA DeskSteps ==
  ASSUME [DeskNext]_deskVars
  PROVE  ([Next]_vars /\ UNCHANGED watchVars) \/ WatchStep
BY DEF DeskNext, deskVars, WatchStep

LEMMA NextDeskInv ==
  ASSUME DeskInv, [DeskNext]_deskVars
  PROVE  DeskInv'
<1>1. CASE [Next]_vars /\ UNCHANGED watchVars
  <2>1. DInv'
    BY <1>1, NextIInv, NextDecision, NextIntent, NextCreation DEF DInv, DeskInv
  <2>2. Numbered'
    BY <1>1, NextNumbered DEF DeskInv
  <2>3. WInv'
    BY <1>1 DEF DeskInv, WInv, WatchTypeOK, HandingAt, watchVars, sweepState,
       sweepHistory
  <2> QED
    BY <2>1, <2>2, <2>3 DEF DeskInv
<1>2. CASE WatchStep
  BY <1>2, WatchInvariants, WatchWInv DEF DeskInv, DInv, IInv
<1> QED
  BY <1>1, <1>2, DeskSteps

(* The inductive invariant of the composed system: what the requests keep, *)
(* they keep while sweeps write the same rows.                             *)
THEOREM DeskInductive == DeskSpec => []DeskInv
BY InitDeskInv, NextDeskInv, PTL DEF DeskSpec

(***************************************************************************)
(* With the sweeps running, every variable of the requests and of the      *)
(* sweeps keeps its type, a requisition is only where a decision on record *)
(* puts it, and request numbers have no gap.                               *)
(***************************************************************************)
THEOREM DeskSafe ==
  DeskSpec => [](TypeOK /\ WatchTypeOK /\ DecisionOnRecord /\ NumbersDense)
<1>1. DeskInv => TypeOK /\ WatchTypeOK /\ DecisionOnRecord /\ NumbersDense
  BY DEF DeskInv, DInv, IInv, WInv, Numbered
<1> QED
  BY <1>1, DeskInductive, PTL

-----------------------------------------------------------------------------
(* One hop.  The rows in the table, the copies requests will save and the  *)
(* copies sweeps work from all say the same of where a requisition is.     *)
Hop(r, row) ==
  /\ row.supervisor =
       IF row.routed THEN AlternateOf[primary[r]] ELSE primary[r]
  /\ row.supervisor # None

HopInTable == \A r \in Submitted : Hop(r, req[r])

HopInRequest(q) ==
  /\ pc[q] \in Reading \cup {"counted"} => Hop(Target(q), mine[q].row)
  /\ pc[q] \in {"saving", "reloaded"} => Hop(Target(q), base[q].row)

HopInSweep(s, r) ==
  /\ task[s][r] \in {"found", "notified", "keep", "hand off"} =>
       copy[s][r].status # "absent"
  /\ copy[s][r].status # "absent" => r \in Submitted /\ Hop(r, copy[s][r])

Hops == /\ HopInTable
        /\ \A q \in Requests : HopInRequest(q)
        /\ \A s \in Sweeps, r \in Reqs : HopInSweep(s, r)

(* The section's supervisor of a requisition is resolved once.             *)
LEMMA PrimaryStays ==
  ASSUME DInv, [Next]_vars, NEW r \in Reqs,
         \/ r \in Submitted
         \/ \E q \in Requests : job[q].kind = "create" /\ Target(q) = r
  PROVE  primary'[r] = primary[r]
<1>1. ASSUME NEW p \in Requests, NEW x \in Reqs, NEW u \in Users,
             NEW sup \in Users, BeginCreate(p, x, u, sup)
      PROVE  primary'[r] = primary[r]
  <2>1. x # r
    BY <1>1 DEF BeginCreate, Submitted
  <2> QED
    BY <1>1, <2>1 DEF BeginCreate, DInv, IInv, TypeOK
<1>2. CASE Submit
  BY <1>1, <1>2 DEF Submit, RefuseCreate, history
<1>3. CASE Open
  BY <1>3 DEF Open, Read, Refuse, history
<1>4. ASSUME NEW q \in Requests, Proceed(q) \/ Disturb(q)
      PROVE  primary' = primary
  BY <1>4 DEF Proceed, Disturb, InsertRequisition, InsertItems, RecordDecision,
     LoadForSave, Save, SaveFails, UpdateItem, CheckForeignKey, DrawStock,
     CommitFulfill, RunHook, StampAlert, Finish, DeadlockVictim, HookFails,
     Fail, history
<1>5. ASSUME \/ \E u \in Users, d \in {"present", "away", "inactive"} :
                  SetDuty(u, d)
             \/ UNCHANGED vars
      PROVE  primary' = primary
  BY <1>5 DEF SetDuty, vars, history
<1> QED
  BY <1>2, <1>3, <1>4, <1>5 DEF Next, Idle

(* A request in progress on a requisition that is not its own submission   *)
(* works on one that is there.                                             *)
LEMMA ReadingSubmitted ==
  ASSUME DInv, NEW q \in Requests, pc[q] \in Reading
  PROVE  Target(q) \in Submitted /\ job[q].kind # "create"
<1>1. ControlAt(q) /\ CreationAt(q)
  BY DEF DInv, IInv, Control, Creation
<1> QED
  BY <1>1 DEF ControlAt, CreationAt, InProgress, Ended, Reading, Transaction,
     Submitted

(* What save() writes is one hop away when what it compares is.            *)
LEMMA HopSaved ==
  ASSUME NEW r, NEW row \in Row, NEW b \in Row, NEW m \in Row,
         Hop(r, row), Hop(r, b), Hop(r, m)
  PROVE  Hop(r, SavedRow(row, b, m))
<1>1. /\ SavedRow(row, b, m).supervisor =
           IF m.supervisor # b.supervisor THEN m.supervisor ELSE row.supervisor
      /\ SavedRow(row, b, m).routed =
           IF m.routed # b.routed THEN m.routed ELSE row.routed
  BY DEF SavedRow, Columns
<1>2. row.routed \in BOOLEAN /\ b.routed \in BOOLEAN /\ m.routed \in BOOLEAN
  BY DEF Row
<1>3. CASE m.routed = b.routed
  BY <1>1, <1>3 DEF Hop
<1>4. CASE m.routed # b.routed
  BY <1>1, <1>2, <1>4 DEF Hop
<1> QED
  BY <1>3, <1>4

(* A new requisition is with the section's supervisor, or marked as routed *)
(* to their alternate.                                                     *)
LEMMA HopCreated ==
  ASSUME IInv, NEW p \in Requests, NEW r \in Reqs, NEW u \in Users,
         NEW sup \in Users, HasCreated(p, r, u, sup)
  PROVE  Hop(r, mine[p].row)'
<1> DEFINE a == Approver(sup)
<1>1. primary'[r] = sup /\ sup # None
  BY StoreAssumption DEF HasCreated, IInv, TypeOK
<1>2. a # None /\ (a # sup => a = AlternateOf[sup])
  BY <1>1 DEF Approver, UsableAlternate
<1>3. mine'[p].row.supervisor = a /\ mine'[p].row.routed = (a # sup)
  <2> HIDE DEF a
  <2>1. mine'[p].row = [NoRow EXCEPT !.status = "pending_supervisor",
                          !.number = Cardinality(Submitted) + 1,
                          !.supervisor = a, !.routed = (a # sup)]
    BY DEF HasCreated, a
  <2> QED
    BY <2>1 DEF NoRow
<1> QED
  BY <1>1, <1>2, <1>3 DEF Hop

(* Every step of a request preserves Hops.                                 *)
LEMMA NextHops ==
  ASSUME DeskInv, Hops, [Next]_vars, UNCHANGED watchVars
  PROVE  Hops'
<1>0. /\ DInv /\ IInv /\ TypeOK /\ req \in [Reqs -> Row]
      /\ \A q \in Requests : ControlAt(q) /\ HopInRequest(q)
  BY DEF DeskInv, DInv, IInv, TypeOK, Control, Hops
<1>1. ASSUME NEW r \in Submitted
      PROVE  r \in Submitted' /\ primary'[r] = primary[r]
  BY <1>0, SubmittedStays, PrimaryStays DEF Submitted
<1>2. HopInTable'
  <2> SUFFICES ASSUME NEW r \in Submitted'
               PROVE  Hop(r, req[r])'
    BY DEF HopInTable
  <2>1. ASSUME req'[r] = req[r]
        PROVE  Hop(r, req[r])'
    BY <1>1, <2>1 DEF Submitted, Hops, HopInTable, Hop
  <2>2. ASSUME NEW q \in Requests, NEW x \in Reqs, InsertsRow(q, x)
        PROVE  Hop(r, req[r])'
    <3>1. CASE x = r
      <4>1. Hop(r, mine[q].row) /\ job[q].kind = "create"
        BY <1>0, <2>2, <3>1 DEF InsertsRow, HopInRequest, ControlAt
      <4>2. primary'[r] = primary[r]
        BY <1>0, <2>2, <3>1, <4>1, PrimaryStays DEF InsertsRow
      <4>3. req'[r] = mine[q].row
        BY <1>0, <2>2, <3>1 DEF InsertsRow
      <4> QED
        BY <4>1, <4>2, <4>3 DEF Hop
    <3> QED
      BY <1>0, <2>1, <2>2, <3>1 DEF InsertsRow, Submitted
  <2>3. ASSUME NEW q \in Requests, NEW x \in Reqs, SavesRow(q, x)
        PROVE  Hop(r, req[r])'
    <3>1. CASE x = r
      <4>1. pc[q] \in Reading /\ Target(q) = r
        BY <2>3, <3>1 DEF SavesRow, Reading, Transaction
      <4>2. r \in Submitted
        BY <1>0, <4>1, ReadingSubmitted
      <4>3. Hop(r, req[r]) /\ Hop(r, mine[q].row) /\ Hop(r, base[q].row)
        BY <1>0, <2>3, <4>1, <4>2 DEF Hops, HopInTable, HopInRequest, SavesRow
      <4>4. req'[r] = SavedRow(req[r], base[q].row, mine[q].row)
        BY <1>0, <2>3, <3>1 DEF SavesRow
      <4>5. req[r] \in Row /\ mine[q].row \in Row /\ base[q].row \in Row
        BY <1>0, <2>3, <3>1 DEF TypeOK, Copy
      <4>6. Hop(r, req'[r])
        BY <4>3, <4>4, <4>5, HopSaved
      <4> QED
        BY <1>1, <4>2, <4>6 DEF Hop
    <3> QED
      BY <1>0, <2>1, <2>3, <3>1 DEF SavesRow, Submitted
  <2> QED
    BY <1>0, <2>1, <2>2, <2>3, RowMoves
<1>3. ASSUME NEW p \in Requests
      PROVE  HopInRequest(p)'
  <2>1. CASE Creates(p)
    <3>1. PICK r \in Reqs, u \in Users, sup \in Users : HasCreated(p, r, u, sup)
      BY <1>0, <2>1, CreateKnows
    <3>2. Hop(r, mine[p].row)'
      BY <1>0, <3>1, HopCreated
    <3>3. Target(p)' = r /\ pc'[p] = "counted"
      BY <3>1 DEF HasCreated, Target
    <3> QED
      BY <3>2, <3>3 DEF HopInRequest, Hop, Reading, Transaction
  <2>2. CASE Reads(p)
    <3>1. PICK kind \in Kinds, r \in Reqs, u \in Users : HasRead(p, kind, r, u)
      BY <1>0, <2>2, ReadKnows
    <3>2. Hop(r, req[r]) /\ primary' = primary /\ mine'[p].row = req[r]
      BY <3>1 DEF HasRead, Hops, HopInTable, Submitted
    <3>3. Target(p)' = r /\ pc'[p] \notin {"saving", "reloaded"}
      BY <3>1 DEF HasRead, Target, AfterRead
    <3> QED
      BY <3>2, <3>3 DEF HopInRequest, Hop
  <2>3. CASE LoadForSave(p)
    <3>1. /\ Target(p)' = Target(p) /\ primary' = primary
          /\ job[p].kind \in {"approve", "reject", "hold", "fulfill"}
          /\ pc[p] \in Reading /\ mine[p].row \in Row
          /\ mine'[p].row = Outcome(p, mine[p].row)
          /\ base'[p].row = req[Target(p)]
      BY <1>0, <2>3, LoadKnows DEF Target, Reading, Transaction
    <3>2. /\ Outcome(p, mine[p].row).supervisor = mine[p].row.supervisor
          /\ Outcome(p, mine[p].row).routed = mine[p].row.routed
      BY <3>1 DEF Outcome, Row
    <3>3. Hop(Target(p), mine[p].row) /\ Hop(Target(p), req[Target(p)])
      BY <1>0, <3>1, ReadingSubmitted DEF HopInRequest, Hops, HopInTable
    <3> QED
      BY <3>1, <3>2, <3>3 DEF HopInRequest, Hop
  <2>4. CASE Keeps(p)
    <3>1. /\ job'[p] = job[p] /\ mine'[p].row = mine[p].row /\ base'[p] = base[p]
          /\ pc'[p] \in Reading => pc[p] \in Reading
          /\ pc'[p] = "counted" => pc[p] = "counted"
          /\ pc'[p] \in {"saving", "reloaded"} => pc[p] = pc'[p]
      BY <2>4 DEF Keeps, Reading, Transaction
    <3>2. CASE pc'[p] \notin Reading \cup {"counted"}
      BY <3>2 DEF HopInRequest, Reading, Transaction
    <3>3. CASE pc'[p] \in Reading \cup {"counted"}
      <4>1. pc[p] \in Reading \cup {"counted"}
        BY <3>1, <3>3
      <4>2. Target(p) \in Reqs
            /\ (Target(p) \in Submitted \/ job[p].kind = "create")
        BY <1>0, <4>1, ReadingSubmitted DEF ControlAt, Submitted
      <4>3. primary'[Target(p)] = primary[Target(p)]
        BY <1>0, <4>2, PrimaryStays
      <4>4. Target(p)' = Target(p)
        BY <3>1 DEF Target
      <4> QED
        BY <1>0, <3>1, <4>1, <4>3, <4>4 DEF HopInRequest, Hop
    <3> QED
      BY <3>2, <3>3
  <2>5. CASE Written(p) \/ pc'[p] \in Ended
    BY <2>5 DEF Written, InsertsRow, Ended, HopInRequest, Reading, Transaction
  <2> QED
    BY <1>0, <2>1, <2>2, <2>3, <2>4, <2>5, CopyMoves
<1>4. ASSUME NEW s \in Sweeps, NEW r \in Reqs
      PROVE  HopInSweep(s, r)'
  <2>1. HopInSweep(s, r) /\ UNCHANGED <<task, copy>>
    BY DEF Hops, watchVars, sweepState
  <2> QED
    BY <1>1, <2>1 DEF HopInSweep, Hop
<1> QED
  BY <1>2, <1>3, <1>4 DEF Hops

(* Every step of a watcher preserves Hops.                                 *)
LEMMA WatchHops ==
  ASSUME DeskInv, Hops, WatchStep
  PROVE  Hops'
<1>0. /\ TypeOK /\ WatchTypeOK
      /\ \A s \in Sweeps, r \in Reqs : HopInSweep(s, r) /\ HandingAt(s, r)
  BY DEF DeskInv, DInv, IInv, WInv, Hops
<1>1. Submitted' = Submitted /\ UNCHANGED <<pc, job, mine, base, primary>>
  BY <1>0, WatchSame DEF handlers, history
<1>2. HopInTable'
  <2> SUFFICES ASSUME NEW r \in Submitted
               PROVE  Hop(r, req[r])'
    BY <1>1 DEF HopInTable
  <2>0. Hop(r, req[r]) /\ r \in Reqs
    BY DEF Hops, HopInTable, Submitted
  <2>1. ASSUME NEW s \in Sweeps, NEW x \in Reqs, Stamps(s, x)
        PROVE  Hop(r, req[r])'
    <3>1. CASE x # r \/ task[s][r] # "hand off" \/ ~StampBreach(s, r)
      <4>1. /\ req'[r].supervisor = req[r].supervisor
            /\ req'[r].routed = req[r].routed
        BY ZenonT(60), <1>0, <2>0, <2>1, <3>1, StampWrites
      <4> QED
        BY <1>1, <2>0, <4>1 DEF Hop
    <3>2. CASE x = r /\ task[s][r] = "hand off" /\ StampBreach(s, r)
      <4>1. /\ req'[r].supervisor = AlternateOf[copy[s][r].supervisor]
            /\ req'[r].routed = TRUE
        <5> DEFINE alt == AlternateOf[copy[s][r].supervisor]
        <5>1. req'[r] = HandedOff(req[r], alt)
          BY <1>0, <2>0, <3>2 DEF StampBreach, TypeOK
        <5>2. req[r] \in Row
          BY <1>0, <2>0 DEF TypeOK
        <5> HIDE DEF alt
        <5>3. req'[r].supervisor = alt /\ req'[r].routed = TRUE
          BY <5>1, <5>2 DEF HandedOff, Row
        <5> QED
          BY <5>3 DEF alt
      <4>2. Hop(r, copy[s][r]) /\ ~copy[s][r].routed
            /\ AlternateOf[copy[s][r].supervisor] # None
        BY <1>0, <2>0, <3>2 DEF HopInSweep, HandingAt
      <4>3. copy[s][r].supervisor = primary[r]
        BY <4>2 DEF Hop
      <4> QED
        BY <1>1, <4>1, <4>2, <4>3 DEF Hop
    <3> QED
      BY <3>1, <3>2
  <2>2. CASE UNCHANGED req
    BY <1>1, <2>0, <2>2 DEF Hop
  <2> QED
    BY <2>1, <2>2, WatchMoves
<1>3. ASSUME NEW q \in Requests
      PROVE  HopInRequest(q)'
  <2>1. HopInRequest(q)
    BY DEF Hops
  <2> QED
    BY <1>1, <2>1 DEF HopInRequest, Hop, Target
<1>4. ASSUME NEW s \in Sweeps, NEW r \in Reqs
      PROVE  HopInSweep(s, r)'
  <2>1. \/ copy'[s][r] = copy[s][r] \/ copy'[s][r].status = "absent"
        \/ copy'[s][r] = req[r]
    <3>1. ASSUME NEW t \in Sweeps, QueryBreaches(t) \/ EndSweep(t) \/ SweepDies(t)
          PROVE  \/ copy'[s][r] = copy[s][r] \/ copy'[s][r] = NoRow
                 \/ copy'[s][r] = req[r]
      <4> DEFINE answer == [x \in Reqs |-> IF Breached(x) THEN req[x] ELSE NoRow]
                 empty == [x \in Reqs |-> NoRow]
      <4>1. answer[r] \in {req[r], NoRow} /\ empty[r] = NoRow
        OBVIOUS
      <4>2. \/ copy' = [copy EXCEPT ![t] = answer]
            \/ copy' = [copy EXCEPT ![t] = empty]
        BY <3>1, Forgets DEF QueryBreaches
      <4> HIDE DEF answer, empty
      <4> QED
        BY <1>0, <4>1, <4>2 DEF WatchTypeOK
    <3>2. ASSUME NEW t \in Sweeps, NEW x \in Reqs, Serve(t, x) \/ Lose(t, x)
          PROVE  copy' = copy
      BY <3>2, OneStage
    <3>3. ASSUME \/ \E x \in Reqs : GrowOld(x)
                 \/ \E t \in Sweeps : QueryNudges(t)
          PROVE  copy' = copy
      BY <3>3 DEF GrowOld, QueryNudges, sweepState
    <3>4. NoRow.status = "absent"
      BY DEF NoRow
    <3> QED
      BY <3>1, <3>2, <3>3, <3>4 DEF WatchStep, WatchNext, Advance
  <2>2. copy'[s][r].status # "absent" =>
          r \in Submitted /\ Hop(r, copy'[s][r])
    BY <1>0, <2>1 DEF HopInSweep, Hops, HopInTable, Submitted
  <2>3. task'[s][r] \in {"found", "notified", "keep", "hand off"} =>
          copy'[s][r].status # "absent"
    <3>1. ASSUME Queried(s, r)
          PROVE  copy'[s][r].status # "absent"
      BY <3>1 DEF Queried, Breached
    <3>2. ASSUME TaskStill(s, r) \/ Notified(s, r) \/ Resolved(s, r)
          PROVE  /\ copy'[s][r] = copy[s][r]
                 /\ task'[s][r] \in {"found", "notified", "keep", "hand off"}
                    => copy[s][r].status # "absent"
      BY <1>0, <3>2 DEF TaskStill, Notified, Resolved, HopInSweep
    <3> QED
      BY <1>0, <3>1, <3>2, TaskMoves DEF TaskEnded, Routes
  <2> QED
    BY <1>1, <2>2, <2>3 DEF HopInSweep, Hop
<1> QED
  BY <1>2, <1>3, <1>4 DEF Hops

LEMMA InitHops == DeskInit => Hops
<1> SUFFICES ASSUME DeskInit PROVE Hops
  OBVIOUS
<1>1. PICK number \in [Reqs -> 0..Cardinality(Reqs)], sup \in [Reqs -> Users] :
        SeedRows(number, sup)
  BY DEF DeskInit, Init
<1>2. ASSUME NEW r \in Submitted
      PROVE  Hop(r, req[r])
  <2>0. r \in Reqs /\ sup[r] \in Users /\ sup[r] # None
    BY StoreAssumption DEF Submitted
  <2>1. req[r] = SeedRow(r, number[r], sup[r]) /\ req[r].status # "absent"
        /\ primary[r] = IF Seed[r] = "absent" THEN None ELSE sup[r]
    BY <1>1, <2>0 DEF SeedRows, Submitted
  <2>2. Seed[r] # "absent"
    BY <2>1 DEF SeedRow, NoRow
  <2>3. req[r].supervisor = sup[r] /\ req[r].routed = FALSE
    BY <2>1, <2>2 DEF SeedRow, NoRow
  <2> QED
    BY <2>0, <2>1, <2>2, <2>3 DEF Hop
<1>3. \A q \in Requests : HopInRequest(q)
  BY DEF DeskInit, Init, HopInRequest, Reading, Transaction
<1>4. \A s \in Sweeps, r \in Reqs : HopInSweep(s, r)
  BY DEF DeskInit, WatchInit, HopInSweep, NoRow
<1> QED
  BY <1>2, <1>3, <1>4 DEF Hops, HopInTable

THEOREM HopsInductive == DeskSpec => []Hops
<1>1. DeskInv /\ Hops /\ [DeskNext]_deskVars => Hops'
  BY NextHops, WatchHops, DeskSteps
<1> QED
  BY <1>1, InitHops, DeskInductive, PTL DEF DeskSpec

(***************************************************************************)
(* Whatever sweeps overlap and whatever stale copies are saved, a          *)
(* requisition is with the supervisor resolved at submission, or, marked   *)
(* as routed, with that supervisor's own alternate: never one further.     *)
(***************************************************************************)
THEOREM HopSafe == DeskSpec => []OneHop
<1>1. Hops => OneHop
  BY DEF Hops, HopInTable, Hop, OneHop
<1> QED
  BY <1>1, HopsInductive, PTL

-----------------------------------------------------------------------------
(* Who decides.                                                            *)
Nominee(u, r) ==
  \/ u \in {primary[r], AlternateOf[primary[r]]}
  \/ Role[u] = "system_admin"

Nominated ==
  /\ \A a \in approvals : a.req \in Submitted /\ Nominee(a.approver, a.req)
  /\ \A q \in Requests : pc[q] = "checked" => Nominee(job[q].actor, Target(q))

(* A step that adds to the approvals table is the INSERT of one decision.  *)
LEMMA ApprovalsMove ==
  ASSUME [Next]_vars
  PROVE  approvals' = approvals \/ \E q \in Requests : RecordDecision(q)
<1>1. CASE Submit
  BY ZenonT(60), <1>1 DEF Submit, BeginCreate, RefuseCreate, tables
<1>2. CASE Open
  BY <1>2 DEF Open, Read, Refuse, tables
<1>3. ASSUME NEW q \in Requests, Proceed(q) \/ Disturb(q)
      PROVE  approvals' = approvals \/ RecordDecision(q)
  BY <1>3 DEF Proceed, Disturb, InsertRequisition, InsertItems, LoadForSave,
     Save, SaveFails, UpdateItem, CheckForeignKey, DrawStock, CommitFulfill,
     RunHook, StampAlert, Finish, DeadlockVictim, HookFails, Fail, tables
<1>4. ASSUME \/ \E u \in Users, d \in {"present", "away", "inactive"} :
                  SetDuty(u, d)
             \/ UNCHANGED vars
      PROVE  approvals' = approvals
  BY <1>4 DEF SetDuty, vars, tables
<1> QED
  BY <1>1, <1>2, <1>3, <1>4 DEF Next, Idle

(* Every step of a request preserves Nominated.                            *)
LEMMA NextNominated ==
  ASSUME DeskInv, Hops, Nominated, [Next]_vars
  PROVE  Nominated'
<1>0. DInv /\ IInv /\ TypeOK /\ \A q \in Requests : ControlAt(q)
  BY DEF DeskInv, DInv, IInv, Control
<1>1. ASSUME NEW a \in approvals'
      PROVE  (a.req \in Submitted /\ Nominee(a.approver, a.req))'
  <2>1. a.req \in Submitted /\ Nominee(a.approver, a.req)
    <3>1. CASE a \in approvals
      BY <3>1 DEF Nominated
    <3>2. ASSUME NEW q \in Requests, RecordDecision(q), a \notin approvals
          PROVE  a.req \in Submitted /\ Nominee(a.approver, a.req)
      <4>1. a.req = Target(q) /\ a.approver = job[q].actor /\ pc[q] = "checked"
        BY <3>2 DEF RecordDecision
      <4>2. Target(q) \in Submitted
        BY <1>0, <4>1, ReadingSubmitted DEF Reading
      <4> QED
        BY <4>1, <4>2 DEF Nominated
    <3> QED
      BY <3>1, <3>2, ApprovalsMove
  <2>2. a.req \in Submitted' /\ primary'[a.req] = primary[a.req]
    BY <1>0, <2>1, SubmittedStays, PrimaryStays DEF Submitted
  <2> QED
    BY <2>1, <2>2 DEF Nominee
<1>2. ASSUME NEW q \in Requests, pc'[q] = "checked"
      PROVE  Nominee(job[q].actor, Target(q))'
  <2>1. CASE Keeps(q)
    <3>1. pc[q] = "checked" /\ job'[q] = job[q]
      BY <1>2, <2>1 DEF Keeps
    <3>2. Target(q) \in Submitted /\ Nominee(job[q].actor, Target(q))
      BY <1>0, <3>1, ReadingSubmitted DEF Reading, Nominated
    <3>3. primary'[Target(q)] = primary[Target(q)]
      BY <1>0, <3>2, PrimaryStays DEF Submitted
    <3> QED
      BY <3>1, <3>2, <3>3 DEF Nominee, Target
  <2>2. CASE Reads(q)
    <3>1. PICK kind \in Kinds, r \in Reqs, u \in Users : HasRead(q, kind, r, u)
      BY <1>0, <2>2, ReadKnows
    <3>2. /\ Accepts(kind, Loaded(r), u) /\ req[r].status # "absent"
          /\ job'[q] = [kind |-> kind, target |-> r, actor |-> u]
          /\ AfterRead(kind) = "checked" /\ primary' = primary
          /\ kind \in {"approve", "reject", "hold", "fulfill"}
      BY <1>2, <3>1 DEF HasRead
    <3>3. kind \in {"approve", "reject"}
      BY <3>2 DEF AfterRead
    <3>4. Role[u] = "system_admin" \/ req[r].supervisor \in {None, u}
      BY <3>2, <3>3 DEF Accepts, MayDecide, Loaded
    <3>5. Hop(r, req[r])
      BY <3>2 DEF Hops, HopInTable, Submitted
    <3>6. Nominee(u, r)
      BY <3>4, <3>5 DEF Hop, Nominee
    <3> QED
      BY <3>2, <3>6 DEF Nominee, Target
  <2>3. ASSUME Creates(q)
        PROVE  FALSE
    BY <1>0, <1>2, <2>3, CreateKnows DEF HasCreated
  <2>4. ASSUME LoadForSave(q)
        PROVE  FALSE
    BY <1>0, <1>2, <2>4, LoadKnows
  <2>5. ASSUME Written(q) \/ pc'[q] \in Ended
        PROVE  FALSE
    BY <1>2, <2>5 DEF Written, InsertsRow, Ended
  <2> QED
    BY <1>0, <2>1, <2>2, <2>3, <2>4, <2>5, CopyMoves
<1> QED
  BY <1>1, <1>2 DEF Nominated

LEMMA InitNominated == DeskInit => Nominated
<1> SUFFICES ASSUME DeskInit PROVE Nominated
  OBVIOUS
<1>1. PICK number \in [Reqs -> 0..Cardinality(Reqs)], sup \in [Reqs -> Users] :
        SeedRows(number, sup)
  BY DEF DeskInit, Init
<1>2. ASSUME NEW a \in approvals
      PROVE  a.req \in Submitted /\ Nominee(a.approver, a.req)
  <2>1. PICK r \in Reqs : Seed[r] = "pending_fulfillment" /\
               a = [request |-> None, req |-> r, approver |-> sup[r],
                    action |-> "approved"]
    BY <1>1 DEF SeedRows
  <2>2. a.req = r /\ a.approver = sup[r]
    BY <2>1
  <2>3. primary[r] = sup[r]
    BY <1>1, <2>1 DEF SeedRows
  <2>4. req[r] = SeedRow(r, number[r], sup[r])
    BY <1>1 DEF SeedRows
  <2>5. req[r].status # "absent"
    BY <2>1, <2>4 DEF SeedRow, NoRow
  <2> QED
    BY <2>2, <2>3, <2>5 DEF Nominee, Submitted
<1>3. \A q \in Requests : pc[q] # "checked"
  BY DEF DeskInit, Init
<1> QED
  BY <1>2, <1>3 DEF Nominated

THEOREM NominatedInductive == DeskSpec => []Nominated
<1>1. ASSUME DeskInv, Nominated, WatchStep
      PROVE  Nominated'
  <2>1. Submitted' = Submitted /\ UNCHANGED <<approvals, pc, job, primary>>
    BY <1>1, WatchSame DEF DeskInv, DInv, IInv, handlers, history
  <2> QED
    BY <1>1, <2>1 DEF Nominated, Nominee, Target
<1>2. DeskInv /\ Hops /\ Nominated /\ [DeskNext]_deskVars => Nominated'
  BY <1>1, NextNominated, DeskSteps
<1> QED
  BY <1>2, InitNominated, HopsInductive, DeskInductive, PTL DEF DeskSpec

(***************************************************************************)
(* Every row of the approvals table was written by the section's           *)
(* supervisor, that supervisor's alternate or an administrator, though     *)
(* the right to decide was checked on a copy and sweeps hand over in       *)
(* between.                                                                *)
(***************************************************************************)
THEOREM NomineeSafe == DeskSpec => []DecidedByNominee
<1>1. Nominated => DecidedByNominee
  BY DEF Nominated, Nominee, DecidedByNominee
<1> QED
  BY <1>1, NominatedInductive, PTL

-----------------------------------------------------------------------------
(* The audit log.                                                          *)

(* A sweep leaves what a save() compares alone.                            *)
LEMMA WatchBased ==
  ASSUME DeskInv, Based, WatchStep
  PROVE  Based'
<1>0. /\ TypeOK /\ UNCHANGED <<pc, job, base>>
      /\ \A r \in Reqs : req'[r].status = req[r].status
      /\ \A q \in Requests : ControlAt(q) /\ DecidedBase(q)
  <2>1. TypeOK /\ Control
    BY DEF DeskInv, DInv, IInv
  <2> QED
    BY <2>1, WatchSame DEF Control, Based, handlers, SameRequest
<1> SUFFICES ASSUME NEW q \in Requests
             PROVE  DecidedBase(q)'
  BY DEF Based
<1>1. pc[q] \in {"saving", "reloaded"} => Target(q) \in Reqs
  BY <1>0 DEF ControlAt, Transaction
<1>2. Target(q)' = Target(q)
  BY <1>0 DEF Target
<1> QED
  BY <1>0, <1>1, <1>2 DEF DecidedBase

LEMMA BasedInductive == DeskSpec => []Based
<1>1. DeskInv /\ Based /\ [DeskNext]_deskVars => Based'
  BY NextBased, WatchBased, DeskSteps DEF DeskInv
<1>2. DeskInit => Based
  BY InitBased DEF DeskInit
<1> QED
  BY <1>1, <1>2, DeskInductive, PTL DEF DeskSpec

(* A sweep routes what it found submitted.                                 *)
RoutedThere ==
  \A s \in Sweeps, r \in Reqs : task[s][r] = "routed" => r \in Submitted

LEMMA NextRoutedThere ==
  ASSUME DeskInv, Hops, RoutedThere, [DeskNext]_deskVars
  PROVE  RoutedThere'
<1>0. DInv /\ TypeOK /\ WatchTypeOK
  BY DEF DeskInv, DInv, IInv, WInv
<1>1. CASE [Next]_vars /\ UNCHANGED watchVars
  BY <1>0, <1>1, SubmittedStays DEF RoutedThere, watchVars, sweepState
<1>2. CASE WatchStep
  <2> SUFFICES ASSUME NEW s \in Sweeps, NEW r \in Reqs, task'[s][r] = "routed"
               PROVE  r \in Submitted
    BY <1>0, <1>2, WatchSame DEF RoutedThere
  <2>1. CASE Routes(s, r)
    BY <2>1 DEF Routes, Hops, HopInSweep
  <2> QED
    BY <1>0, <1>2, <2>1, TaskMoves
    DEF RoutedThere, TaskStill, TaskEnded, Queried, Notified, Resolved
<1> QED
  BY <1>1, <1>2, DeskSteps

(* Every step of a watcher preserves Reported ...                          *)
LEMMA WatchReported ==
  ASSUME DeskInv, RoutedThere, Reported, WatchStep
  PROVE  Reported'
<1>0. /\ TypeOK /\ Submitted' = Submitted
      /\ UNCHANGED <<pc, job, approvals>>
      /\ \A r \in Reqs : req'[r].status = req[r].status
  <2>1. TypeOK
    BY DEF DeskInv, DInv, IInv
  <2> QED
    BY <2>1, WatchSame DEF handlers, SameRequest
<1>1. ASSUME NEW q \in Requests
      PROVE  ReportAt(q)'
  <2>1. ReportAt(q)
    BY DEF Reported
  <2>2. Target(q)' = Target(q) /\ Ruling(q)' = Ruling(q)
    BY <1>0 DEF Target, Ruling, Decision
  <2>3. pc[q] \in Past \cup {"done"} => Target(q) \in Reqs
    BY <2>1 DEF ReportAt, Submitted
  <2> QED
    BY <1>0, <2>1, <2>2, <2>3 DEF ReportAt, Past
<1>2. ASSUME NEW e, EntryAt(e)
      PROVE  EntryAt(e)'
  BY <1>0, <1>2 DEF EntryAt, Target
<1>3. ASSUME NEW e \in audit' \ audit
      PROVE  EntryAt(e)
  <2>1. PICK s \in Sweeps, r \in Reqs : NotifyAlternate(s, r)
    BY <1>3, WatchAudits
  <2>2. e = [request |-> None, req |-> r, action |-> "reassign"]
        /\ task[s][r] = "routed"
    BY <1>3, <2>1 DEF NotifyAlternate
  <2> QED
    BY <2>2 DEF EntryAt, RoutedThere
<1> QED
  BY <1>1, <1>2, <1>3 DEF Reported

(* ... and ChangesLogged.                                                  *)
LEMMA WatchLogged ==
  ASSUME DeskInv, ChangesLogged, WatchStep
  PROVE  ChangesLogged'
<1>0. /\ UNCHANGED <<pc, job>> /\ audit \subseteq audit'
      /\ \A r \in Reqs : req'[r].status = req[r].status
  <2>1. TypeOK
    BY DEF DeskInv, DInv, IInv
  <2>2. audit \subseteq audit'
    BY WatchAudits DEF NotifyAlternate
  <2> QED
    BY <2>1, <2>2, WatchSame DEF handlers, SameRequest
<1> SUFFICES ASSUME NEW r \in Reqs, req[r].status # Seed[r]
             PROVE  \E q \in Requests : Logs(q, r)'
  BY <1>0, Zenon DEF ChangesLogged, Logs, Past, CutShort
<1>1. PICK q \in Requests : Logs(q, r)
  BY Zenon DEF ChangesLogged, Logs, Past, CutShort
<1>2. CutShort(q)' = CutShort(q)
  BY <1>0, Zenon DEF CutShort
<1> QED
  BY <1>0, <1>1, <1>2 DEF Logs, Target

LEMMA ReportedInductive == DeskSpec => []Reported
<1>1. DeskInv /\ Hops /\ RoutedThere /\ [DeskNext]_deskVars => RoutedThere'
  BY NextRoutedThere
<1>2. DeskInv /\ Based /\ RoutedThere /\ Reported /\ [DeskNext]_deskVars
        => Reported'
  BY NextReported, WatchReported, DeskSteps DEF DeskInv
<1>3. DeskInit => RoutedThere /\ Reported
  BY InitReported DEF DeskInit, WatchInit, RoutedThere
<1> QED
  BY <1>1, <1>2, <1>3, DeskInductive, HopsInductive, BasedInductive, PTL
  DEF DeskSpec

(***************************************************************************)
(* With the sweeps running, who hand requisitions over and audit that, the *)
(* audit log tells the truth and no change goes unlogged but by a failure. *)
(***************************************************************************)
THEOREM DeskAudit == DeskSpec => [](AuditTellsTruth /\ ChangesLogged)
<1>1. DeskInv /\ Reported /\ ChangesLogged /\ [DeskNext]_deskVars
        => ChangesLogged'
  BY NextLogged, WatchLogged, DeskSteps DEF DeskInv
<1>2. DeskInit => ChangesLogged
  BY InitLogged DEF DeskInit
<1> QED
  BY <1>1, <1>2, ReportsTrue, DeskInductive, ReportedInductive, PTL DEF DeskSpec

-----------------------------------------------------------------------------
(* Alerts.  What a step of the watchers does to one nudge ...              *)
NudgeStill(s, r) == nudge'[s][r] = nudge[s][r]

LEMMA NudgeMoves ==
  ASSUME WatchTypeOK, WatchStep, NEW s \in Sweeps, NEW r \in Reqs
  PROVE  \/ NudgeStill(s, r) \/ nudge'[s][r] \in TaskEnded
         \/ /\ QueryNudges(s) /\ ToNudge(r)
            /\ phase[s] = "sla" /\ nudge'[s][r] = "found"
         \/ SendNudge(s, r) /\ nudge'[s][r] = "notified"
<1>0. nudge \in [Sweeps -> [Reqs -> Steps]]
  BY DEF WatchTypeOK, Steps
<1>1. ASSUME NEW t \in Sweeps, QueryNudges(t), t = s
      PROVE  \/ nudge'[s][r] \in TaskEnded
             \/ ToNudge(r) /\ phase[s] = "sla" /\ nudge'[s][r] = "found"
  <2>1. nudge'[s] = Found({x \in Reqs : ToNudge(x)}) /\ phase[s] = "sla"
    BY <1>0, <1>1 DEF QueryNudges
  <2> QED
    BY <2>1 DEF Found, TaskEnded
<1>2. ASSUME NEW t \in Sweeps, QueryNudges(t), t # s
      PROVE  NudgeStill(s, r)
  BY <1>0, <1>2 DEF QueryNudges, NudgeStill
<1>3. ASSUME NEW t \in Sweeps, EndSweep(t) \/ SweepDies(t)
      PROVE  NudgeStill(s, r) \/ nudge'[s][r] \in TaskEnded
  <2>1. Found({})[r] = "off"
    BY DEF Found
  <2>2. CASE s = t
    BY <1>0, <1>3, <2>1, <2>2, Forgets DEF TaskEnded
  <2>3. CASE s # t
    BY <1>0, <1>3, <2>3, Forgets DEF NudgeStill
  <2> QED
    BY <2>2, <2>3
<1>4. ASSUME NEW t \in Sweeps, NEW x \in Reqs, Serve(t, x) \/ Lose(t, x),
             ~(s = t /\ r = x)
      PROVE  NudgeStill(s, r)
  <2>1. ASSUME NEW step, nudge' = [nudge EXCEPT ![t][x] = step]
        PROVE  nudge'[s][r] = nudge[s][r]
    BY <1>0, <1>4, <2>1
  <2> QED
    BY <1>4, <2>1, OneStage DEF NudgeStill
<1>5. ASSUME Serve(s, r) \/ Lose(s, r)
      PROVE  \/ NudgeStill(s, r) \/ nudge'[s][r] \in TaskEnded
             \/ SendNudge(s, r) /\ nudge'[s][r] = "notified"
  <2>1. CASE SendNudge(s, r)
    BY <1>0, <2>1 DEF SendNudge
  <2>2. CASE StampNudge(s, r) \/ NudgeFails(s, r)
    <3>1. \/ nudge' = [nudge EXCEPT ![s][r] = "done"]
          \/ nudge' = [nudge EXCEPT ![s][r] = "failed"]
      BY <2>2 DEF StampNudge, NudgeFails
    <3>2. nudge'[s][r] \in {"done", "failed"}
      BY <1>0, <3>1
    <3> QED
      BY <3>2 DEF TaskEnded
  <2> QED
    BY <1>5, <2>1, <2>2 DEF Serve, Lose, NotifyBreach, ResolveAlternate,
       StampBreach, NotifyAlternate, BreachFails, NudgeStill
<1>6. ASSUME \/ \E x \in Reqs : GrowOld(x)
             \/ \E t \in Sweeps : QueryBreaches(t)
      PROVE  NudgeStill(s, r)
  BY <1>6 DEF GrowOld, QueryBreaches, NudgeStill, sweepState
<1> QED
  BY <1>1, <1>2, <1>3, <1>4, <1>5, <1>6 DEF WatchStep, WatchNext, Advance

(* ... and to what has been sent.                                          *)
BreachCounted(r) ==
  /\ breachSent'[r] = Counted(breachSent[r])
  /\ \E s \in Sweeps : /\ task[s][r] = "found"
                       /\ Faults \/ task'[s][r] = "notified"

NudgeCounted(r) ==
  /\ nudgeSent'[r] = Counted(nudgeSent[r])
  /\ \E s \in Sweeps : nudge[s][r] = "found" /\ nudge'[s][r] = "notified"

HandOffCounted(r) ==
  /\ handOffs'[r] = Counted(handOffs[r])
  /\ \E s \in Sweeps : task[s][r] = "routed" /\ task'[s][r] = "done"

LEMMA SentMoves ==
  ASSUME WatchTypeOK, WatchStep, NEW r \in Reqs
  PROVE  /\ breachSent'[r] = breachSent[r] \/ BreachCounted(r)
         /\ nudgeSent'[r] = nudgeSent[r] \/ NudgeCounted(r)
         /\ handOffs'[r] = handOffs[r] \/ HandOffCounted(r)
<1>0. /\ task \in [Sweeps -> [Reqs -> Stages]]
      /\ nudge \in [Sweeps -> [Reqs -> Steps]]
      /\ breachSent \in [Reqs -> 0..Many]
      /\ nudgeSent \in [Reqs -> 0..Many]
      /\ handOffs \in [Reqs -> 0..Many]
  BY DEF WatchTypeOK, Stages, Steps
<1>1. ASSUME \/ \E x \in Reqs : GrowOld(x)
             \/ \E t \in Sweeps : Advance(t) \/ SweepDies(t)
      PROVE  UNCHANGED <<breachSent, nudgeSent, handOffs>>
  BY <1>1 DEF GrowOld, Advance, QueryBreaches, QueryNudges, EndSweep, SweepDies,
     sweepHistory
<1>2. ASSUME NEW s \in Sweeps, NEW x \in Reqs, Serve(s, x) \/ Lose(s, x)
      PROVE  /\ breachSent'[r] = breachSent[r] \/ BreachCounted(r)
             /\ nudgeSent'[r] = nudgeSent[r] \/ NudgeCounted(r)
             /\ handOffs'[r] = handOffs[r] \/ HandOffCounted(r)
  <2>1. CASE NotifyBreach(s, x)
    <3>1. breachSent'[r] = breachSent[r] \/ BreachCounted(r)
      BY <1>0, <2>1 DEF NotifyBreach, BreachCounted
    <3> QED
      BY <2>1, <3>1 DEF NotifyBreach
  <2>2. CASE NotifyAlternate(s, x)
    <3>1. handOffs'[r] = handOffs[r] \/ HandOffCounted(r)
      BY <1>0, <2>2 DEF NotifyAlternate, HandOffCounted
    <3> QED
      BY <2>2, <3>1 DEF NotifyAlternate
  <2>3. CASE SendNudge(s, x)
    <3>1. nudgeSent'[r] = nudgeSent[r] \/ NudgeCounted(r)
      BY <1>0, <2>3 DEF SendNudge, NudgeCounted
    <3> QED
      BY <2>3, <3>1 DEF SendNudge
  <2>4. CASE BreachFails(s, x)
    <3>1. /\ Faults
          /\ \/ UNCHANGED breachSent
             \/ /\ task[s][x] = "found"
                /\ breachSent' = [breachSent EXCEPT ![x] = Counted(@)]
          /\ UNCHANGED <<nudgeSent, handOffs>>
      BY <2>4 DEF BreachFails
    <3>2. breachSent'[r] = breachSent[r] \/ BreachCounted(r)
      BY <1>0, <3>1 DEF BreachCounted
    <3> QED
      BY <3>1, <3>2
  <2>5. CASE ResolveAlternate(s, x) \/ StampBreach(s, x) \/ StampNudge(s, x)
             \/ NudgeFails(s, x)
    BY <2>5 DEF ResolveAlternate, StampBreach, StampNudge, NudgeFails,
       sweepHistory
  <2> QED
    BY <1>2, <2>1, <2>2, <2>3, <2>4, <2>5 DEF Serve, Lose
<1> QED
  BY <1>1, <1>2 DEF WatchStep, WatchNext

(* A notice that has been counted stays counted.                           *)
LEMMA CountedStays ==
  ASSUME NEW n \in 0..Many
  PROVE  Counted(n) > 0 /\ (n = 0 => Counted(n) = 1)
BY DEF Counted, Many

-----------------------------------------------------------------------------
(* The stamps: whoever holds a stamp, or is about to write one, the alert  *)
(* has been sent.                                                          *)
Earned(r, row) ==
  /\ row.breached => breachSent[r] > 0
  /\ row.nudged => nudgeSent[r] > 0

EarnedInRequest(q) ==
  pc[q] \in Reading \cup {"counted"} => Earned(Target(q), mine[q].row)

EarnedInSweep(s, r) ==
  /\ task[s][r] \in {"notified", "keep", "hand off", "routed"} =>
       breachSent[r] > 0
  /\ nudge[s][r] = "notified" => nudgeSent[r] > 0

StampsEarned ==
  /\ \A r \in Reqs : Earned(r, req[r])
  /\ \A q \in Requests : EarnedInRequest(q)
  /\ \A s \in Sweeps, r \in Reqs : EarnedInSweep(s, r)

LEMMA EarnedSaved ==
  ASSUME NEW r, NEW row \in Row, NEW b \in Row, NEW m \in Row,
         Earned(r, row), Earned(r, m)
  PROVE  Earned(r, SavedRow(row, b, m))
<1>1. /\ SavedRow(row, b, m).breached \in {row.breached, m.breached}
      /\ SavedRow(row, b, m).nudged \in {row.nudged, m.nudged}
  BY DEF SavedRow, Columns
<1> QED
  BY <1>1 DEF Earned

(* Every step of a request preserves StampsEarned.                         *)
LEMMA NextEarned ==
  ASSUME DInv, StampsEarned, [Next]_vars, UNCHANGED watchVars
  PROVE  StampsEarned'
<1>0. /\ IInv /\ TypeOK /\ req \in [Reqs -> Row]
      /\ \A q \in Requests : /\ ControlAt(q) /\ EarnedInRequest(q)
                             /\ mine[q].row \in Row /\ base[q].row \in Row
      /\ UNCHANGED <<task, nudge, breachSent, nudgeSent>>
  BY DEF DInv, IInv, TypeOK, Copy, Control, StampsEarned, watchVars, sweepState,
     sweepHistory
<1>1. ASSUME NEW r \in Reqs
      PROVE  Earned(r, req[r])'
  <2>0. Earned(r, req[r])
    BY DEF StampsEarned
  <2>1. ASSUME NEW q \in Requests, NEW x \in Reqs, InsertsRow(q, x)
        PROVE  Earned(r, req'[r])
    BY <1>0, <2>0, <2>1 DEF InsertsRow, EarnedInRequest
  <2>2. ASSUME NEW q \in Requests, NEW x \in Reqs, SavesRow(q, x)
        PROVE  Earned(r, req'[r])
    <3>1. CASE x = r
      <4>1. Earned(r, mine[q].row)
        BY <1>0, <2>2, <3>1
        DEF SavesRow, EarnedInRequest, Reading, Transaction
      <4>2. req'[r] = SavedRow(req[r], base[q].row, mine[q].row)
        BY <1>0, <2>2, <3>1 DEF SavesRow
      <4> QED
        BY <1>0, <2>0, <4>1, <4>2, EarnedSaved
    <3> QED
      BY <1>0, <2>0, <2>2, <3>1 DEF SavesRow
  <2>3. Earned(r, req'[r])
    BY <1>0, <2>0, <2>1, <2>2, RowMoves
  <2> QED
    BY <1>0, <2>3 DEF Earned
<1>2. ASSUME NEW p \in Requests
      PROVE  EarnedInRequest(p)'
  <2>1. CASE Creates(p)
    <3>1. PICK r \in Reqs, u \in Users, sup \in Users : HasCreated(p, r, u, sup)
      BY <1>0, <2>1, CreateKnows
    <3>2. mine'[p].row.breached = FALSE /\ mine'[p].row.nudged = FALSE
      BY <3>1 DEF HasCreated, NoRow
    <3> QED
      BY <3>2 DEF EarnedInRequest, Earned
  <2>2. CASE Reads(p)
    <3>1. PICK kind \in Kinds, r \in Reqs, u \in Users : HasRead(p, kind, r, u)
      BY <1>0, <2>2, ReadKnows
    <3>2. Earned(r, req[r]) /\ mine'[p].row = req[r] /\ Target(p)' = r
      BY <3>1 DEF HasRead, StampsEarned, Target
    <3> QED
      BY <1>0, <3>2 DEF EarnedInRequest, Earned
  <2>3. CASE LoadForSave(p)
    <3>1. /\ Target(p)' = Target(p) /\ pc[p] \in Reading
          /\ job[p].kind \in {"approve", "reject", "hold", "fulfill"}
          /\ mine'[p].row = Outcome(p, mine[p].row)
      BY <1>0, <2>3, LoadKnows DEF Target, Reading, Transaction
    <3>2. /\ Outcome(p, mine[p].row).breached = mine[p].row.breached
          /\ Outcome(p, mine[p].row).nudged = mine[p].row.nudged
      BY <1>0, <3>1 DEF Outcome, Row
    <3>3. Earned(Target(p), mine[p].row)
      BY <1>0, <3>1 DEF EarnedInRequest
    <3> QED
      BY <1>0, <3>1, <3>2, <3>3 DEF EarnedInRequest, Earned
  <2>4. CASE Keeps(p)
    <3>1. /\ Target(p)' = Target(p) /\ mine'[p].row = mine[p].row
          /\ pc'[p] \in Reading \cup {"counted"} =>
               pc[p] \in Reading \cup {"counted"}
      BY <2>4 DEF Keeps, Reading, Transaction, Target
    <3> QED
      BY <1>0, <3>1 DEF EarnedInRequest, Earned
  <2>5. CASE Written(p) \/ pc'[p] \in Ended
    BY <2>5 DEF Written, InsertsRow, Ended, EarnedInRequest, Reading, Transaction
  <2> QED
    BY <1>0, <2>1, <2>2, <2>3, <2>4, <2>5, CopyMoves
<1>3. \A s \in Sweeps, r \in Reqs : EarnedInSweep(s, r)'
  BY <1>0 DEF StampsEarned, EarnedInSweep
<1> QED
  BY <1>1, <1>2, <1>3 DEF StampsEarned

(* Every step of a watcher preserves StampsEarned.                         *)
LEMMA WatchEarned ==
  ASSUME DeskInv, StampsEarned, WatchStep
  PROVE  StampsEarned'
<1>0. /\ TypeOK /\ WatchTypeOK /\ \A q \in Requests : ControlAt(q)
      /\ breachSent \in [Reqs -> 0..Many] /\ nudgeSent \in [Reqs -> 0..Many]
  BY DEF DeskInv, DInv, IInv, WInv, WatchTypeOK, Control
<1>1. ASSUME NEW r \in Reqs
      PROVE  /\ breachSent[r] > 0 => breachSent'[r] > 0
             /\ nudgeSent[r] > 0 => nudgeSent'[r] > 0
  <2>1. breachSent[r] \in 0..Many /\ nudgeSent[r] \in 0..Many
    BY <1>0
  <2>2. Counted(breachSent[r]) > 0 /\ Counted(nudgeSent[r]) > 0
    BY <2>1, CountedStays
  <2> QED
    BY <1>0, <2>2, SentMoves DEF BreachCounted, NudgeCounted
<1>2. ASSUME NEW s \in Sweeps, NEW r \in Reqs
      PROVE  EarnedInSweep(s, r)'
  <2>0. EarnedInSweep(s, r)
    BY DEF StampsEarned
  <2>1. breachSent[r] \in 0..Many /\ nudgeSent[r] \in 0..Many
    BY <1>0
  <2>2. ASSUME task'[s][r] \in {"notified", "keep", "hand off", "routed"}
        PROVE  breachSent'[r] > 0
    <3>1. CASE Notified(s, r)
      <4>1. breachSent'[r] = Counted(breachSent[r])
        BY <1>0, <3>1 DEF Notified
      <4> QED
        BY <2>1, <4>1, CountedStays
    <3>2. CASE TaskStill(s, r) \/ Resolved(s, r) \/ Routes(s, r)
      <4>1. task[s][r] \in {"notified", "keep", "hand off", "routed"}
        BY <2>2, <3>2 DEF TaskStill, Resolved, Routes
      <4> QED
        BY <1>1, <2>0, <4>1 DEF EarnedInSweep
    <3> QED
      BY <1>0, <2>2, <3>1, <3>2, TaskMoves DEF TaskEnded, Queried
  <2>3. ASSUME nudge'[s][r] = "notified"
        PROVE  nudgeSent'[r] > 0
    <3>1. CASE SendNudge(s, r)
      <4>1. nudgeSent'[r] = Counted(nudgeSent[r])
        BY <1>0, <3>1 DEF SendNudge
      <4> QED
        BY <2>1, <4>1, CountedStays
    <3>2. CASE NudgeStill(s, r)
      BY <1>1, <2>0, <2>3, <3>2 DEF NudgeStill, EarnedInSweep
    <3> QED
      BY <1>0, <2>3, <3>1, <3>2, NudgeMoves DEF TaskEnded
  <2> QED
    BY <2>2, <2>3 DEF EarnedInSweep
<1>3. ASSUME NEW r \in Reqs
      PROVE  Earned(r, req[r])'
  <2>0. Earned(r, req[r])
    BY DEF StampsEarned
  <2>1. ASSUME NEW s \in Sweeps, NEW x \in Reqs, Stamps(s, x)
        PROVE  Earned(r, req[r])'
    <3>1. CASE x # r
      BY <1>0, <1>1, <2>0, <2>1, <3>1, StampWrites DEF Earned
    <3>2. CASE x = r /\ StampBreach(s, r) /\ req'[r].nudged = req[r].nudged
      <4>1. breachSent[r] > 0
        BY <3>2 DEF StampBreach, StampsEarned, EarnedInSweep
      <4> QED
        BY <1>1, <2>0, <3>2, <4>1 DEF Earned
    <3>3. CASE x = r /\ StampNudge(s, r) /\ req'[r].breached = req[r].breached
      <4>1. nudgeSent[r] > 0
        BY <3>3 DEF StampNudge, StampsEarned, EarnedInSweep
      <4> QED
        BY <1>1, <2>0, <3>3, <4>1 DEF Earned
    <3> QED
      BY <1>0, <2>1, <3>1, <3>2, <3>3, StampWrites
  <2>2. CASE UNCHANGED req
    BY <1>1, <2>0, <2>2 DEF Earned
  <2> QED
    BY <2>1, <2>2, WatchMoves
<1>4. ASSUME NEW q \in Requests
      PROVE  EarnedInRequest(q)'
  <2>1. EarnedInRequest(q) /\ UNCHANGED <<pc, job, mine>>
    BY <1>0, WatchSame DEF StampsEarned, handlers
  <2>2. pc[q] \in Reading \cup {"counted"} => Target(q) \in Reqs
    BY <1>0 DEF ControlAt, Reading, Transaction
  <2> QED
    BY <1>1, <2>1, <2>2 DEF EarnedInRequest, Earned, Target
<1> QED
  BY <1>2, <1>3, <1>4 DEF StampsEarned

LEMMA InitEarned == DeskInit => StampsEarned
<1> SUFFICES ASSUME DeskInit PROVE StampsEarned
  OBVIOUS
<1>1. PICK number \in [Reqs -> 0..Cardinality(Reqs)], sup \in [Reqs -> Users] :
        SeedRows(number, sup)
  BY DEF DeskInit, Init
<1>2. ASSUME NEW r \in Reqs
      PROVE  req[r].breached = FALSE /\ req[r].nudged = FALSE
  <2>1. req[r] = SeedRow(r, number[r], sup[r])
    BY <1>1 DEF SeedRows
  <2> QED
    BY <2>1 DEF SeedRow, NoRow
<1>3. \A q \in Requests : EarnedInRequest(q)
  BY DEF DeskInit, Init, EarnedInRequest, Reading, Transaction
<1>4. \A s \in Sweeps, r \in Reqs : EarnedInSweep(s, r)
  BY DEF DeskInit, WatchInit, EarnedInSweep
<1> QED
  BY <1>2, <1>3, <1>4 DEF StampsEarned, Earned

THEOREM EarnedInductive == DeskSpec => []StampsEarned
<1>1. DeskInv /\ StampsEarned /\ [DeskNext]_deskVars => StampsEarned'
  BY NextEarned, WatchEarned, DeskSteps DEF DeskInv
<1> QED
  BY <1>1, InitEarned, DeskInductive, PTL DEF DeskSpec

(***************************************************************************)
(* The stamp that keeps a requisition out of later sweeps is only there    *)
(* when its notice went out: a crash, a failed notice or a stale save may  *)
(* repeat an alert and never lose it.                                      *)
(***************************************************************************)
THEOREM StampsSafe == DeskSpec => []StampMeansNotified
<1>1. StampsEarned => StampMeansNotified
  BY DEF StampsEarned, Earned, StampMeansNotified
<1> QED
  BY <1>1, EarnedInductive, PTL

-----------------------------------------------------------------------------
(* Alerted once: one sweep at a time, and no await throws.                 *)
Alone == ~Faults /\ \A s, t \in Sweeps : s = t

(* A notice that was sent and is not yet stamped is in a sweep's hands,    *)
(* and one that is still to be sent has not been sent.                     *)
BreachOnce(r) ==
  /\ req[r].status = "absent" => breachSent[r] = 0
  /\ req[r].status = "pending_supervisor" /\ ~req[r].breached
     /\ breachSent[r] > 0 =>
       \E s \in Sweeps : task[s][r] \in {"notified", "keep", "hand off"}
  /\ \A s \in Sweeps : task[s][r] = "found" => breachSent[r] = 0
  /\ breachSent[r] < Many

HandOffOnce(r) ==
  /\ handOffs[r] > 0 => breachSent[r] > 0
  /\ \A s \in Sweeps :
       task[s][r] \in {"found", "notified", "keep", "hand off", "routed"} =>
         handOffs[r] = 0
  /\ handOffs[r] < Many

NudgeOnce(r) ==
  /\ req[r].status = "absent" => nudgeSent[r] = 0
  /\ req[r].status = "pending_supervisor" /\ ~req[r].nudged
     /\ nudgeSent[r] > 0 =>
       \E s \in Sweeps : nudge[s][r] = "notified"
  /\ \A s \in Sweeps : nudge[s][r] = "found" =>
                         nudgeSent[r] = 0 /\ r \in Submitted
  /\ nudgeSent[r] < Many

PhaseAt(s, r) ==
  /\ phase[s] = "idle" => task[s][r] = "off"
  /\ phase[s] \in {"idle", "sla"} => nudge[s][r] = "off"

Once ==
  /\ \A r \in Reqs : BreachOnce(r) /\ HandOffOnce(r) /\ NudgeOnce(r)
  /\ \A s \in Sweeps, r \in Reqs : PhaseAt(s, r)

(* Every step of a request preserves Once.                                 *)
LEMMA NextOnce ==
  ASSUME DInv, Based, Once, [Next]_vars, UNCHANGED watchVars
  PROVE  Once'
<1>0. UNCHANGED <<phase, task, nudge, breachSent, nudgeSent, handOffs>>
  BY DEF watchVars, sweepState, sweepHistory
<1>1. ASSUME NEW r \in Reqs
      PROVE  \/ req'[r] = req[r]
             \/ req[r].status = "absent" /\ req'[r].status # "absent"
             \/ req'[r].status \notin Undecided
  BY RowSteps
<1>2. ASSUME NEW r \in Reqs
      PROVE  BreachOnce(r)' /\ HandOffOnce(r)' /\ NudgeOnce(r)'
  <2>0. BreachOnce(r) /\ HandOffOnce(r) /\ NudgeOnce(r)
    BY DEF Once
  <2>1. HandOffOnce(r)'
    BY <1>0, <2>0 DEF HandOffOnce
  <2>2. r \in Submitted => r \in Submitted'
    BY SubmittedStays
  <2>3. CASE req'[r] = req[r]
    BY <1>0, <2>0, <2>1, <2>2, <2>3 DEF BreachOnce, NudgeOnce
  <2>4. CASE req[r].status = "absent" /\ req'[r].status # "absent"
    <3>1. breachSent[r] = 0 /\ nudgeSent[r] = 0
      BY <2>0, <2>4 DEF BreachOnce, NudgeOnce
    <3> QED
      BY <1>0, <2>0, <2>1, <2>2, <2>4, <3>1 DEF BreachOnce, NudgeOnce
  <2>5. CASE req'[r].status \notin Undecided
    BY <1>0, <2>0, <2>1, <2>2, <2>5 DEF BreachOnce, NudgeOnce, Undecided
  <2> QED
    BY <1>1, <2>3, <2>4, <2>5
<1>3. \A s \in Sweeps, r \in Reqs : PhaseAt(s, r)'
  BY <1>0 DEF Once, PhaseAt
<1> QED
  BY <1>2, <1>3 DEF Once

(* What nobody started stays as it is.                                     *)
LEMMA OffStays ==
  ASSUME WatchTypeOK, NEW s \in Sweeps, NEW r \in Reqs,
         NEW t \in Sweeps, NEW x \in Reqs, Serve(t, x) \/ Lose(t, x)
  PROVE  /\ task[s][r] = "off" => task'[s][r] = "off"
         /\ nudge[s][r] = "off" => nudge'[s][r] = "off"
<1>0. task \in [Sweeps -> [Reqs -> Stages]] /\ nudge \in [Sweeps -> [Reqs -> Steps]]
  BY DEF WatchTypeOK, Stages, Steps
<1>1. ASSUME NEW stage, task' = [task EXCEPT ![t][x] = stage], ~(s = t /\ r = x)
      PROVE  task'[s][r] = task[s][r]
  BY <1>0, <1>1
<1>2. ASSUME NEW step, nudge' = [nudge EXCEPT ![t][x] = step], ~(s = t /\ r = x)
      PROVE  nudge'[s][r] = nudge[s][r]
  BY <1>0, <1>2
<1>3. ASSUME s = t, r = x, task[s][r] = "off"
      PROVE  task' = task
  BY <1>3 DEF Serve, Lose, NotifyBreach, ResolveAlternate, StampBreach,
     NotifyAlternate, SendNudge, StampNudge, BreachFails, NudgeFails, TaskEnded
<1>4. ASSUME s = t, r = x, nudge[s][r] = "off"
      PROVE  nudge' = nudge
  BY <1>4 DEF Serve, Lose, NotifyBreach, ResolveAlternate, StampBreach,
     NotifyAlternate, SendNudge, StampNudge, BreachFails, NudgeFails, TaskEnded
<1> QED
  BY <1>1, <1>2, <1>3, <1>4, OneStage

(* An uninterrupted sweep carries what it started from stage to stage.     *)
LEMMA TaskCarried ==
  ASSUME ~Faults, WatchTypeOK, WatchStep, NEW s \in Sweeps, NEW r \in Reqs,
         PhaseAt(s, r), task[s][r] \notin TaskEnded
  PROVE  \/ TaskStill(s, r) \/ Notified(s, r) \/ Resolved(s, r)
         \/ StampBreach(s, r) \/ NotifyAlternate(s, r)
<1>0. /\ task \in [Sweeps -> [Reqs -> Stages]]
      /\ copy \in [Sweeps -> [Reqs -> Row]]
      /\ phase[s] # "idle"
  BY DEF WatchTypeOK, Stages, PhaseAt, TaskEnded
<1>1. ASSUME NEW t \in Sweeps, QueryBreaches(t) \/ EndSweep(t)
      PROVE  TaskStill(s, r)
  <2>1. t # s
    BY <1>0, <1>1 DEF QueryBreaches, EndSweep
  <2> DEFINE found == Found({x \in Reqs : Breached(x)})
             nothing == Found({})
             answer == [x \in Reqs |-> IF Breached(x) THEN req[x] ELSE NoRow]
             empty == [x \in Reqs |-> NoRow]
  <2>2. /\ \/ task' = [task EXCEPT ![t] = found]
           \/ task' = [task EXCEPT ![t] = nothing]
        /\ \/ copy' = [copy EXCEPT ![t] = answer]
           \/ copy' = [copy EXCEPT ![t] = empty]
    BY <1>1, Forgets DEF QueryBreaches
  <2> HIDE DEF found, nothing, answer, empty
  <2> QED
    BY <1>0, <2>1, <2>2 DEF TaskStill
<1>2. ASSUME \/ \E x \in Reqs : GrowOld(x)
             \/ \E t \in Sweeps : QueryNudges(t)
      PROVE  TaskStill(s, r)
  BY <1>2 DEF GrowOld, QueryNudges, TaskStill, sweepState
<1>3. ASSUME NEW t \in Sweeps, NEW x \in Reqs, Serve(t, x) \/ Lose(t, x),
             ~(s = t /\ r = x)
      PROVE  TaskStill(s, r)
  <2>1. ASSUME NEW stage, task' = [task EXCEPT ![t][x] = stage]
        PROVE  task'[s][r] = task[s][r]
    BY <1>0, <1>3, <2>1
  <2> QED
    BY <1>3, <2>1, OneStage DEF TaskStill
<1>4. ASSUME Serve(s, r) \/ Lose(s, r)
      PROVE  \/ TaskStill(s, r) \/ Notified(s, r) \/ Resolved(s, r)
             \/ StampBreach(s, r) \/ NotifyAlternate(s, r)
  <2>1. CASE NotifyBreach(s, r)
    BY <1>0, <2>1 DEF NotifyBreach, Notified, tables
  <2>2. CASE ResolveAlternate(s, r)
    BY <1>0, <2>2 DEF ResolveAlternate, Resolved
  <2> QED
    BY <1>4, <2>1, <2>2 DEF Serve, Lose, SendNudge, StampNudge, BreachFails,
       NudgeFails, TaskStill
<1>5. ASSUME NEW t \in Sweeps PROVE ~SweepDies(t)
  BY DEF SweepDies
<1> QED
  BY <1>1, <1>2, <1>3, <1>4, <1>5 DEF WatchStep, WatchNext, Advance

LEMMA NudgeCarried ==
  ASSUME ~Faults, WatchTypeOK, WatchStep, NEW s \in Sweeps, NEW r \in Reqs,
         PhaseAt(s, r), nudge[s][r] = "notified"
  PROVE  NudgeStill(s, r) \/ StampNudge(s, r)
<1>0. /\ nudge \in [Sweeps -> [Reqs -> Steps]]
      /\ phase[s] \notin {"idle", "sla"}
  BY DEF WatchTypeOK, Steps, PhaseAt
<1>1. ASSUME NEW t \in Sweeps, QueryNudges(t) \/ EndSweep(t)
      PROVE  NudgeStill(s, r)
  <2>1. t # s
    BY <1>0, <1>1 DEF QueryNudges, EndSweep, TaskEnded
  <2> DEFINE found == Found({x \in Reqs : ToNudge(x)})
             nothing == Found({})
  <2>2. \/ nudge' = [nudge EXCEPT ![t] = found]
        \/ nudge' = [nudge EXCEPT ![t] = nothing]
    BY <1>1, Forgets DEF QueryNudges
  <2> HIDE DEF found, nothing
  <2> QED
    BY <1>0, <2>1, <2>2 DEF NudgeStill
<1>2. ASSUME \/ \E x \in Reqs : GrowOld(x)
             \/ \E t \in Sweeps : QueryBreaches(t)
      PROVE  NudgeStill(s, r)
  BY <1>2 DEF GrowOld, QueryBreaches, NudgeStill, sweepState
<1>3. ASSUME NEW t \in Sweeps, NEW x \in Reqs, Serve(t, x) \/ Lose(t, x),
             ~(s = t /\ r = x)
      PROVE  NudgeStill(s, r)
  <2>1. ASSUME NEW step, nudge' = [nudge EXCEPT ![t][x] = step]
        PROVE  nudge'[s][r] = nudge[s][r]
    BY <1>0, <1>3, <2>1
  <2> QED
    BY <1>3, <2>1, OneStage DEF NudgeStill
<1>4. ASSUME Serve(s, r) \/ Lose(s, r)
      PROVE  NudgeStill(s, r) \/ StampNudge(s, r)
  BY <1>4 DEF Serve, Lose, NotifyBreach, ResolveAlternate, StampBreach,
     NotifyAlternate, SendNudge, BreachFails, NudgeFails, NudgeStill
<1>5. ASSUME NEW t \in Sweeps PROVE ~SweepDies(t)
  BY DEF SweepDies
<1> QED
  BY <1>1, <1>2, <1>3, <1>4, <1>5 DEF WatchStep, WatchNext, Advance

(* An uninterrupted sweep keeps its phases apart.                          *)
LEMMA WatchPhases ==
  ASSUME ~Faults, WatchTypeOK, WatchStep, NEW s \in Sweeps, NEW r \in Reqs,
         PhaseAt(s, r)
  PROVE  PhaseAt(s, r)'
<1>0. /\ phase \in [Sweeps -> {"idle", "sla", "nudge"}]
      /\ task \in [Sweeps -> [Reqs -> Stages]]
      /\ nudge \in [Sweeps -> [Reqs -> Steps]]
  BY DEF WatchTypeOK, Stages, Steps
<1>1. ASSUME NEW t \in Sweeps, QueryBreaches(t)
      PROVE  PhaseAt(s, r)'
  <2> DEFINE found == Found({x \in Reqs : Breached(x)})
  <2>1. /\ phase' = [phase EXCEPT ![t] = "sla"] /\ phase[t] = "idle"
        /\ task' = [task EXCEPT ![t] = found] /\ UNCHANGED nudge
    BY <1>1 DEF QueryBreaches
  <2> HIDE DEF found
  <2> QED
    BY <1>0, <2>1 DEF PhaseAt
<1>2. ASSUME NEW t \in Sweeps, QueryNudges(t)
      PROVE  PhaseAt(s, r)'
  <2> DEFINE found == Found({x \in Reqs : ToNudge(x)})
  <2>1. /\ phase' = [phase EXCEPT ![t] = "nudge"]
        /\ nudge' = [nudge EXCEPT ![t] = found] /\ UNCHANGED task
    BY <1>2 DEF QueryNudges
  <2> HIDE DEF found
  <2> QED
    BY <1>0, <2>1 DEF PhaseAt
<1>3. ASSUME NEW t \in Sweeps, EndSweep(t)
      PROVE  PhaseAt(s, r)'
  <2> DEFINE nothing == Found({})
  <2>1. /\ phase' = [phase EXCEPT ![t] = "idle"]
        /\ task' = [task EXCEPT ![t] = nothing]
        /\ nudge' = [nudge EXCEPT ![t] = nothing]
    BY <1>3, Forgets
  <2>2. nothing[r] = "off"
    BY DEF Found
  <2> HIDE DEF nothing
  <2> QED
    BY <1>0, <2>1, <2>2 DEF PhaseAt
<1>4. ASSUME NEW t \in Sweeps, NEW x \in Reqs, Serve(t, x) \/ Lose(t, x)
      PROVE  PhaseAt(s, r)'
  BY <1>4, OneStage, OffStays DEF PhaseAt
<1>5. ASSUME NEW t \in Sweeps PROVE ~SweepDies(t)
  BY DEF SweepDies
<1>6. CASE \E x \in Reqs : GrowOld(x)
  BY <1>6 DEF GrowOld, sweepState, PhaseAt
<1> QED
  BY <1>1, <1>2, <1>3, <1>4, <1>5, <1>6 DEF WatchStep, WatchNext, Advance

(* A stamp is not taken back.                                              *)
LEMMA StampsStay ==
  ASSUME TypeOK, WatchStep, NEW r \in Reqs
  PROVE  /\ req[r].breached => req'[r].breached
         /\ req[r].nudged => req'[r].nudged
         /\ \A s \in Sweeps : /\ StampBreach(s, r) => req'[r].breached
                              /\ StampNudge(s, r) => req'[r].nudged
<1>0. req \in [Reqs -> Row] /\ req[r] \in Row
  BY DEF TypeOK
<1>1. ASSUME NEW s \in Sweeps, NEW x \in Reqs, Stamps(s, x)
      PROVE  /\ req[r].breached => req'[r].breached
             /\ req[r].nudged => req'[r].nudged
  <2>1. CASE x = r
    BY <1>1, <2>1, StampWrites
  <2>2. CASE x # r
    BY <1>1, <2>2, StampWrites
  <2> QED
    BY <2>1, <2>2
<1>2. ASSUME NEW s \in Sweeps, StampNudge(s, r)
      PROVE  req'[r].nudged
  BY <1>0, <1>2 DEF StampNudge, Row
<1>3. ASSUME NEW s \in Sweeps, StampBreach(s, r)
      PROVE  req'[r].breached
  <2> DEFINE alt == AlternateOf[copy[s][r].supervisor]
  <2>1. \/ req' = [req EXCEPT ![r] = [@ EXCEPT !.breached = TRUE]]
        \/ req' = [req EXCEPT ![r] = HandedOff(@, alt)]
    BY <1>3 DEF StampBreach
  <2> HIDE DEF alt
  <2> QED
    BY <1>0, <2>1 DEF HandedOff, Row
<1> QED
  BY <1>1, <1>2, <1>3, WatchMoves

(* Every step of an uninterrupted sweep preserves Once.                    *)
LEMMA WatchOnce ==
  ASSUME Alone, DeskInv, Hops, StampsEarned, Once, WatchStep
  PROVE  Once'
<1>0. /\ TypeOK /\ WatchTypeOK /\ ~Faults
      /\ Submitted' = Submitted /\ UNCHANGED <<pc, job, base>>
      /\ \A r \in Reqs : req'[r].status = req[r].status
      /\ \A r \in Reqs : BreachOnce(r) /\ HandOffOnce(r) /\ NudgeOnce(r)
      /\ \A s \in Sweeps, r \in Reqs : PhaseAt(s, r)
  <2>1. TypeOK /\ WatchTypeOK /\ Control
    BY DEF DeskInv, DInv, IInv, WInv
  <2> QED
    BY <2>1, WatchSame DEF Alone, Control, Once, handlers, SameRequest
<1>2. ASSUME NEW s \in Sweeps, NEW r \in Reqs
      PROVE  PhaseAt(s, r)'
  BY <1>0, WatchPhases
<1>3. ASSUME NEW r \in Reqs
      PROVE  /\ breachSent[r] \in 0..Many /\ nudgeSent[r] \in 0..Many
             /\ handOffs[r] \in 0..Many
  BY <1>0 DEF WatchTypeOK
<1>4. ASSUME NEW r \in Reqs, BreachCounted(r)
      PROVE  /\ req[r].status # "absent" /\ breachSent[r] = 0
             /\ breachSent'[r] = 1
             /\ \E s \in Sweeps : /\ task[s][r] = "found"
                                  /\ task'[s][r] = "notified"
  <2>1. PICK s \in Sweeps : task[s][r] = "found" /\ task'[s][r] = "notified"
    BY <1>0, <1>4 DEF BreachCounted
  <2>2. r \in Submitted
    BY <2>1 DEF Hops, HopInSweep
  <2>3. breachSent[r] = 0
    BY <1>0, <2>1 DEF BreachOnce
  <2> QED
    BY <1>3, <1>4, <2>1, <2>2, <2>3, CountedStays DEF BreachCounted, Submitted
<1>5. ASSUME NEW s \in Sweeps, NEW r \in Reqs, Queried(s, r)
      PROVE  breachSent[r] = 0 /\ task[s][r] = "off"
  <2>1. task[s][r] = "off" /\ req[r].status = "pending_supervisor"
        /\ ~req[r].breached
    BY <1>0, <1>5 DEF Queried, Breached, PhaseAt
  <2>2. ~\E t \in Sweeps : task[t][r] \in {"notified", "keep", "hand off"}
    BY <2>1 DEF Alone
  <2>3. BreachOnce(r) /\ breachSent[r] \in 0..Many
    BY <1>0, <1>3
  <2>4. ~(breachSent[r] > 0)
    BY <2>1, <2>2, <2>3, Zenon DEF BreachOnce
  <2> QED
    BY <2>1, <2>3, <2>4 DEF Many
<1>6. ASSUME NEW r \in Reqs
      PROVE  BreachOnce(r)'
  <2>0. /\ BreachOnce(r) /\ breachSent[r] \in 0..Many
        /\ breachSent'[r] = breachSent[r] \/ BreachCounted(r)
    BY <1>0, <1>3, SentMoves
  <2>1. req'[r].status = "absent" => breachSent'[r] = 0
    BY <1>0, <1>4, <2>0 DEF BreachOnce
  <2>2. ASSUME req'[r].status = "pending_supervisor", ~req'[r].breached,
               breachSent'[r] > 0
        PROVE  \E s \in Sweeps : task'[s][r] \in {"notified", "keep", "hand off"}
    <3>1. CASE BreachCounted(r)
      BY <1>4, <3>1
    <3>2. CASE breachSent'[r] = breachSent[r]
      <4>1. ~req[r].breached
        BY <1>0, <2>2, StampsStay
      <4>2. PICK s \in Sweeps : task[s][r] \in {"notified", "keep", "hand off"}
        BY <1>0, <2>0, <2>2, <3>2, <4>1 DEF BreachOnce
      <4>3. \/ TaskStill(s, r) \/ Notified(s, r) \/ Resolved(s, r)
            \/ StampBreach(s, r) \/ NotifyAlternate(s, r)
        BY <1>0, <4>2, TaskCarried DEF TaskEnded
      <4>4. ~StampBreach(s, r)
        BY <1>0, <2>2, StampsStay
      <4>5. ~NotifyAlternate(s, r)
        BY <4>2 DEF NotifyAlternate
      <4>6. task'[s][r] \in {"notified", "keep", "hand off"}
        BY <4>2, <4>3, <4>4, <4>5 DEF TaskStill, Notified, Resolved
      <4> QED
        BY <4>6
    <3> QED
      BY <2>0, <3>1, <3>2
  <2>3. ASSUME NEW s \in Sweeps, task'[s][r] = "found"
        PROVE  breachSent'[r] = 0
    <3>1. ~BreachCounted(r)
      <4>1. ASSUME BreachCounted(r) PROVE FALSE
        <5>1. PICK t \in Sweeps : task'[t][r] = "notified"
          BY <1>4, <4>1
        <5>2. t = s
          BY DEF Alone
        <5> QED
          BY <2>3, <5>1, <5>2
      <4> QED
        BY <4>1
    <3>2. breachSent[r] = 0
      <4>1. TaskStill(s, r) \/ Queried(s, r)
        BY <1>0, <2>3, TaskMoves DEF TaskEnded, Notified, Resolved, Routes
      <4>2. CASE TaskStill(s, r)
        BY <2>0, <2>3, <4>2 DEF TaskStill, BreachOnce
      <4>3. CASE Queried(s, r)
        BY <1>5, <4>3
      <4> QED
        BY <4>1, <4>2, <4>3
    <3> QED
      BY <2>0, <3>1, <3>2
  <2>4. breachSent'[r] < Many
    <3>1. CASE BreachCounted(r)
      <4>1. breachSent'[r] = 1
        BY <1>4, <3>1
      <4> QED
        BY <4>1 DEF Many
    <3>2. CASE breachSent'[r] = breachSent[r]
      BY <2>0, <3>2 DEF BreachOnce
    <3> QED
      BY <2>0, <3>1, <3>2
  <2> QED
    BY <2>1, <2>2, <2>3, <2>4 DEF BreachOnce
<1>7. ASSUME NEW r \in Reqs
      PROVE  HandOffOnce(r)'
  <2> DEFINE Under == {"found", "notified", "keep", "hand off", "routed"}
  <2>0. /\ HandOffOnce(r) /\ handOffs[r] \in 0..Many /\ breachSent[r] \in 0..Many
        /\ handOffs'[r] = handOffs[r] \/ HandOffCounted(r)
        /\ breachSent'[r] = breachSent[r] \/ BreachCounted(r)
    BY <1>0, <1>3, SentMoves
  <2>1. ASSUME HandOffCounted(r)
        PROVE  /\ breachSent[r] > 0 /\ handOffs[r] = 0 /\ handOffs'[r] = 1
               /\ \E s \in Sweeps : task[s][r] = "routed" /\ task'[s][r] = "done"
    <3>1. PICK s \in Sweeps : task[s][r] = "routed" /\ task'[s][r] = "done"
      BY <2>1 DEF HandOffCounted
    <3>2. breachSent[r] > 0 /\ handOffs[r] = 0
      BY <2>0, <3>1 DEF StampsEarned, EarnedInSweep, HandOffOnce
    <3> QED
      BY <2>0, <2>1, <3>1, <3>2, CountedStays DEF HandOffCounted
  <2>2. handOffs'[r] > 0 => breachSent'[r] > 0
    <3>1. CASE BreachCounted(r)
      BY <1>4, <3>1
    <3>2. CASE breachSent'[r] = breachSent[r]
      BY <2>0, <2>1, <3>2 DEF HandOffOnce
    <3> QED
      BY <2>0, <3>1, <3>2
  <2>3. ASSUME NEW s \in Sweeps, task'[s][r] \in Under
        PROVE  handOffs'[r] = 0
    <3>1. ASSUME HandOffCounted(r) PROVE FALSE
      <4>1. PICK t \in Sweeps : task'[t][r] = "done"
        BY <2>1, <3>1
      <4>2. t = s
        BY DEF Alone
      <4> QED
        BY <2>3, <4>1, <4>2
    <3>2. handOffs[r] = 0
      <4>1. CASE TaskStill(s, r) \/ Notified(s, r) \/ Resolved(s, r) \/ Routes(s, r)
        <5>1. task[s][r] \in Under
          BY <2>3, <4>1 DEF TaskStill, Notified, Resolved, Routes
        <5> QED
          BY <2>0, <5>1 DEF HandOffOnce
      <4>2. CASE Queried(s, r)
        <5>1. breachSent[r] = 0
          BY <1>5, <4>2
        <5>2. ~(breachSent[r] > 0)
          BY <5>1
        <5>3. ~(handOffs[r] > 0)
          BY <2>0, <5>2, Zenon DEF HandOffOnce
        <5>4. handOffs[r] \in 0..Many
          BY <2>0
        <5> QED
          BY <5>3, <5>4 DEF Many
      <4> QED
        BY <1>0, <2>3, <4>1, <4>2, TaskMoves DEF TaskEnded
    <3> QED
      BY <2>0, <3>1, <3>2
  <2>4. handOffs'[r] < Many
    <3>1. CASE HandOffCounted(r)
      <4>1. handOffs'[r] = 1
        BY <2>1, <3>1
      <4> QED
        BY <4>1 DEF Many
    <3>2. CASE handOffs'[r] = handOffs[r]
      BY <2>0, <3>2 DEF HandOffOnce
    <3> QED
      BY <2>0, <3>1, <3>2
  <2> QED
    BY <2>2, <2>3, <2>4 DEF HandOffOnce
<1>8. ASSUME NEW r \in Reqs
      PROVE  NudgeOnce(r)'
  <2>0. /\ NudgeOnce(r) /\ nudgeSent[r] \in 0..Many
        /\ nudgeSent'[r] = nudgeSent[r] \/ NudgeCounted(r)
    BY <1>0, <1>3, SentMoves
  <2>1. ASSUME NudgeCounted(r)
        PROVE  /\ r \in Submitted /\ nudgeSent[r] = 0 /\ nudgeSent'[r] = 1
               /\ \E s \in Sweeps : nudge'[s][r] = "notified"
    <3>1. PICK s \in Sweeps : nudge[s][r] = "found" /\ nudge'[s][r] = "notified"
      BY <2>1 DEF NudgeCounted
    <3>2. r \in Submitted /\ nudgeSent[r] = 0
      BY <2>0, <3>1 DEF NudgeOnce
    <3> QED
      BY <2>0, <2>1, <3>1, <3>2, CountedStays DEF NudgeCounted
  <2>2. req'[r].status = "absent" => nudgeSent'[r] = 0
    BY <1>0, <2>0, <2>1 DEF NudgeOnce, Submitted
  <2>3. ASSUME req'[r].status = "pending_supervisor", ~req'[r].nudged,
               nudgeSent'[r] > 0
        PROVE  \E s \in Sweeps : nudge'[s][r] = "notified"
    <3>1. CASE NudgeCounted(r)
      BY <2>1, <3>1
    <3>2. CASE nudgeSent'[r] = nudgeSent[r]
      <4>1. ~req[r].nudged
        BY <1>0, <2>3, StampsStay
      <4>2. PICK s \in Sweeps : nudge[s][r] = "notified"
        BY <1>0, <2>0, <2>3, <3>2, <4>1 DEF NudgeOnce
      <4>3. NudgeStill(s, r) \/ StampNudge(s, r)
        BY <1>0, <4>2, NudgeCarried
      <4>4. ~StampNudge(s, r)
        BY <1>0, <2>3, StampsStay
      <4> QED
        BY <4>2, <4>3, <4>4 DEF NudgeStill
    <3> QED
      BY <2>0, <3>1, <3>2
  <2>4. ASSUME NEW s \in Sweeps, nudge'[s][r] = "found"
        PROVE  nudgeSent'[r] = 0 /\ r \in Submitted'
    <3>1. ASSUME NudgeCounted(r) PROVE FALSE
      <4>1. PICK t \in Sweeps : nudge'[t][r] = "notified"
        BY <2>1, <3>1
      <4>2. t = s
        BY DEF Alone
      <4> QED
        BY <2>4, <4>1, <4>2
    <3>2. nudgeSent[r] = 0 /\ r \in Submitted
      <4>1. CASE NudgeStill(s, r)
        BY <2>0, <2>4, <4>1 DEF NudgeStill, NudgeOnce
      <4>2. CASE ToNudge(r) /\ phase[s] = "sla"
        <5>1. nudge[s][r] = "off"
          BY <1>0, <4>2 DEF PhaseAt
        <5>2. ~\E t \in Sweeps : nudge[t][r] = "notified"
          BY <5>1 DEF Alone
        <5> QED
          BY <2>0, <4>2, <5>2 DEF ToNudge, NudgeOnce, Submitted
      <4> QED
        BY <1>0, <2>4, <4>1, <4>2, NudgeMoves DEF TaskEnded
    <3> QED
      BY <1>0, <2>0, <3>1, <3>2
  <2>5. nudgeSent'[r] < Many
    BY <2>0, <2>1 DEF NudgeOnce, Many
  <2> QED
    BY <2>2, <2>3, <2>4, <2>5 DEF NudgeOnce
<1> QED
  BY <1>2, <1>6, <1>7, <1>8 DEF Once

(***************************************************************************)
(* One sweep at a time, and no await that throws, alerts once: no          *)
(* requisition gets a second breach notice, nudge or hand-off notice,      *)
(* though requests save copies that predate the stamps.                    *)
(***************************************************************************)
THEOREM AlertsOnce ==
  ASSUME Alone
  PROVE  DeskSpec => []AlertedOnce
<1>1. DeskInit => Once
  <2> SUFFICES ASSUME DeskInit PROVE Once
    OBVIOUS
  <2>1. \A r \in Reqs : BreachOnce(r) /\ HandOffOnce(r) /\ NudgeOnce(r)
    BY DEF DeskInit, WatchInit, BreachOnce, HandOffOnce, NudgeOnce, Many
  <2>2. \A s \in Sweeps, r \in Reqs : PhaseAt(s, r)
    BY DEF DeskInit, WatchInit, PhaseAt
  <2> QED
    BY <2>1, <2>2 DEF Once
<1>2. DeskInv /\ Hops /\ StampsEarned /\ Based /\ Once
        /\ [DeskNext]_deskVars => Once'
  BY NextOnce, WatchOnce, DeskSteps DEF DeskInv
<1>3. Once => AlertedOnce
  BY DEF Once, BreachOnce, HandOffOnce, NudgeOnce, AlertedOnce
<1> QED
  BY <1>1, <1>2, <1>3, HopsInductive, DeskInductive, EarnedInductive,
     BasedInductive, PTL DEF DeskSpec

-----------------------------------------------------------------------------
(* The alternate is told.  The sweeps' phases, whatever is alerted.        *)
Phased == \A s \in Sweeps, r \in Reqs : PhaseAt(s, r)

(* A request that draws no stock leaves no hook to run.                    *)
UnhookedAt(q) ==
  pc[q] = "idle" \/ job[q].kind # "fulfill" => hooks[q] = <<>>

Unhooked == \A q \in Requests : UnhookedAt(q)

(* What a step does to the hooks of a request.                             *)
LEMMA HooksMove ==
  ASSUME IInv, [Next]_vars, NEW p \in Requests
  PROVE  \/ hooks'[p] = hooks[p] \/ hooks'[p] = <<>>
         \/ hooks[p] # <<>> \/ DrawStock(p)
<1>0. TypeOK
  BY DEF IInv
<1>1. ASSUME NEW q \in Requests, NEW label, End(q, label)
      PROVE  hooks'[p] = hooks[p] \/ hooks'[p] = <<>>
  BY <1>0, <1>1 DEF End, TypeOK
<1>2. CASE Submit
  BY <1>1, <1>2 DEF Submit, BeginCreate, RefuseCreate
<1>3. CASE Open
  BY <1>1, <1>3 DEF Open, Read, Refuse
<1>4. ASSUME NEW q \in Requests, PopHook(q), hooks[q] # <<>>
      PROVE  hooks'[p] = hooks[p] \/ hooks[p] # <<>>
  BY <1>0, <1>4 DEF PopHook, TypeOK
<1>5. ASSUME NEW q \in Requests,
             RunHook(q) \/ StampAlert(q) \/ HookFails(q)
      PROVE  hooks'[p] = hooks[p] \/ hooks[p] # <<>>
  <2>1. UNCHANGED hooks \/ PopHook(q)
    BY <1>5 DEF RunHook, StampAlert, HookFails
  <2>2. CASE StampAlert(q)
    <3>1. PopHook(q) /\ pc[q] = "alerted"
      BY <2>2 DEF StampAlert
    <3> QED
      BY <1>4, <3>1 DEF IInv, Control, ControlAt
  <2> QED
    BY <1>4, <1>5, <2>1, <2>2 DEF RunHook, HookFails
<1>6. ASSUME NEW q \in Requests, DrawStock(q)
      PROVE  hooks'[p] = hooks[p] \/ hooks'[p] = <<>> \/ DrawStock(p)
  <2>1. CASE p # q
    BY <1>0, <1>1, <1>6, <2>1 DEF DrawStock, TypeOK
  <2> QED
    BY <1>6, <2>1
<1>7. ASSUME NEW q \in Requests, Proceed(q) \/ Disturb(q),
             ~RunHook(q), ~StampAlert(q), ~HookFails(q), ~DrawStock(q)
      PROVE  hooks'[p] = hooks[p] \/ hooks'[p] = <<>>
  BY <1>1, <1>7 DEF Proceed, Disturb, InsertRequisition, InsertItems,
     RecordDecision, LoadForSave, Save, SaveFails, UpdateItem, CheckForeignKey,
     CommitFulfill, Finish, DeadlockVictim, Fail
<1>8. ASSUME \/ \E u \in Users, d \in {"present", "away", "inactive"} :
                  SetDuty(u, d)
             \/ UNCHANGED vars
      PROVE  hooks' = hooks
  BY <1>8 DEF SetDuty, vars, handlers
<1> QED
  BY <1>2, <1>3, <1>5, <1>6, <1>7, <1>8 DEF Next, Idle

LEMMA NextUnhooked ==
  ASSUME IInv, Unhooked, [Next]_vars
  PROVE  Unhooked'
<1> SUFFICES ASSUME NEW p \in Requests,
                    pc'[p] = "idle" \/ job'[p].kind # "fulfill"
             PROVE  hooks'[p] = <<>>
  BY DEF Unhooked, UnhookedAt
<1>1. UnhookedAt(p) /\ ControlAt(p)
  BY DEF Unhooked, IInv, Control
<1>2. pc[p] = "idle" \/ job[p].kind # "fulfill"
  <2>1. CASE Opens(p)
    <3>1. ASSUME NEW kind, NEW r, NEW u, Arrives(p, kind, r, u)
          PROVE  pc[p] = "idle"
      BY <3>1 DEF Arrives
    <3> QED
      BY <2>1, <3>1, Zenon DEF Opens, BeginCreate, RefuseCreate, Refuse, Read
  <2>2. CASE Still(p)
    BY <2>2 DEF Still
  <2>3. CASE Leaves(p) \/ Works(p) \/ RecordDecision(p) \/ LoadForSave(p)
    <3>1. job'[p] = job[p] /\ pc'[p] # "idle"
      BY <2>3 DEF Leaves, Works, RecordDecision, LoadForSave, Goto, IInv, TypeOK,
         Ended
    <3> QED
      BY <3>1
  <2> QED
    BY <2>1, <2>2, <2>3, OneMoves
<1>3. hooks[p] = <<>>
  BY <1>1, <1>2 DEF UnhookedAt
<1>4. ~DrawStock(p)
  BY <1>1, <1>2 DEF DrawStock, ControlAt, Transaction
<1> QED
  BY <1>3, <1>4, HooksMove

(* The submission that routed r has inserted the row, or has audited it.   *)
RoutesNew(q, r) ==
  /\ Target(q) = r /\ job[q].kind = "create" /\ pc[q] # "idle"
  /\ \/ pc[q] \in {"inserted", "saved"} /\ mine[q].row.routed
     \/ [request |-> q, req |-> r, action |-> "reassign"] \in audit

Told(r) ==
  \/ handOffs[r] > 0
  \/ \E s \in Sweeps : task[s][r] = "routed"
  \/ \E q \in Requests : RoutesNew(q, r)

ToldInRequest(q) ==
  pc[q] \in Reading /\ mine[q].row.routed => Told(Target(q))

Telling ==
  /\ \A r \in Reqs : req[r].routed => Told(r)
  /\ \A q \in Requests : ToldInRequest(q)

(* A request leaves whoever is told, or about to be, as they are.          *)
LEMMA NextTold ==
  ASSUME ~Faults, DeskInv, Reported, Unhooked, [Next]_vars, UNCHANGED watchVars,
         NEW r \in Reqs, Told(r)
  PROVE  Told(r)'
<1>0. IInv /\ TypeOK /\ UNCHANGED <<task, handOffs>>
  BY DEF DeskInv, DInv, IInv, watchVars, sweepState, sweepHistory
<1>1. CASE handOffs[r] > 0 \/ \E s \in Sweeps : task[s][r] = "routed"
  BY <1>0, <1>1 DEF Told
<1>2. ASSUME NEW q \in Requests, RoutesNew(q, r)
      PROVE  RoutesNew(q, r)'
  <2>1. CASE [request |-> q, req |-> r, action |-> "reassign"] \in audit
    <3>1. ~Opens(q)
      <4>1. ASSUME NEW kind, NEW x, NEW u, Arrives(q, kind, x, u)
            PROVE  pc[q] = "idle"
        BY <4>1 DEF Arrives
      <4> QED
        BY <1>2, <4>1, Zenon DEF Opens, BeginCreate, RefuseCreate, Refuse, Read,
           RoutesNew
    <3>2. job'[q] = job[q] /\ pc'[q] # "idle"
      <4>1. pc' \in [Requests -> Pcs]
        BY <1>0, NextIInv DEF IInv, TypeOK
      <4> QED
        BY <1>0, <1>2, <3>1, <4>1, OneMoves DEF Still, Leaves, Works, Goto,
           RecordDecision, LoadForSave, RoutesNew, IInv, TypeOK, Ended
    <3> QED
      BY <1>0, <1>2, <2>1, <3>2, AuditGrows DEF RoutesNew, Target
  <2>2. CASE pc[q] \in {"inserted", "saved"} /\ mine[q].row.routed
    <3>1. /\ job'[q] = job[q] /\ Target(q)' = Target(q)
          /\ pc'[q] \in Past \/ Finish(q)
      BY <1>0, <2>2, PastEnds DEF Past, CutShort, Target
    <3>2. CASE Finish(q)
      <4>1. [request |-> q, req |-> Target(q), action |-> "reassign"] \in audit'
        BY <1>2, <2>2, <3>2 DEF Finish, Audited, RoutesNew
      <4>2. pc'[q] = "done"
        BY <1>0, <3>2, FinishKnows
      <4> QED
        BY <1>2, <3>1, <4>1, <4>2 DEF RoutesNew
    <3>3. CASE pc'[q] \in Past
      <4>1. UnhookedAt(q)' /\ ControlAt(q)'
        BY <1>0, NextIInv, NextUnhooked DEF IInv, Control, Unhooked
      <4>2. pc'[q] # "alerted"
        BY <1>2, <3>1, <4>1 DEF UnhookedAt, ControlAt, RoutesNew
      <4>3. mine'[q].row = mine[q].row
        <5>1. ~Creates(q) /\ ~Reads(q) /\ ~LoadForSave(q)
          BY <2>2 DEF Creates, Reads, BeginCreate, Read, Arrives, LoadForSave
        <5> QED
          BY <1>0, <3>3, <5>1, CopyMoves DEF Keeps, Written, Past, Ended
      <4> QED
        BY <1>2, <2>2, <3>1, <3>3, <4>2, <4>3 DEF RoutesNew, Past
    <3> QED
      BY <3>1, <3>2, <3>3
  <2> QED
    BY <1>2, <2>1, <2>2 DEF RoutesNew
<1> QED
  BY <1>1, <1>2 DEF Told

(* A save leaves the column as it is, or as the copy has it.               *)
LEMMA RoutedSaved ==
  ASSUME NEW old, NEW b, NEW m, SavedRow(old, b, m).routed
  PROVE  old.routed \/ m.routed
BY DEF SavedRow, Columns

(* Every step of the requests preserves Telling.                           *)
LEMMA NextTelling ==
  ASSUME ~Faults, DeskInv, Reported, Unhooked, Telling, [Next]_vars,
         UNCHANGED watchVars
  PROVE  Telling'
<1>0. /\ IInv /\ DInv /\ TypeOK /\ req \in [Reqs -> Row]
      /\ \A q \in Requests : /\ ControlAt(q) /\ ToldInRequest(q)
                             /\ mine[q].row \in Row /\ base[q].row \in Row
  BY DEF DeskInv, DInv, IInv, TypeOK, Copy, Control, Telling
<1>1. ASSUME NEW r \in Reqs, Told(r)
      PROVE  Told(r)'
  BY <1>1, NextTold
<1>2. ASSUME NEW r \in Reqs, req'[r].routed
      PROVE  Told(r)'
  <2>0. req[r].routed => Told(r)
    BY DEF Telling
  <2>1. ASSUME NEW q \in Requests, NEW x \in Reqs, InsertsRow(q, x), x = r,
               mine[q].row.routed
        PROVE  Told(r)'
    <3>1. pc'[q] \in Past \cup {"done"} /\ pc'[q] = "inserted" /\ Target(q) = r
          /\ job[q].kind = "create"
      BY <1>0, <2>1 DEF InsertsRow, Past, ControlAt
    <3>2. job'[q] = job[q]
      BY <1>0, <3>1, PastMoves
    <3>3. mine'[q].row = mine[q].row
      <4>1. ~Creates(q) /\ ~Reads(q) /\ ~LoadForSave(q)
        BY <2>1 DEF Creates, Reads, BeginCreate, Read, Arrives, LoadForSave,
           InsertsRow
      <4> QED
        BY <1>0, <3>1, <4>1, CopyMoves DEF Keeps, Written, Ended
    <3>4. RoutesNew(q, r)'
      BY <2>1, <3>1, <3>2, <3>3 DEF RoutesNew, Target
    <3> QED
      BY <3>4 DEF Told
  <2>2. ASSUME NEW q \in Requests, NEW x \in Reqs, SavesRow(q, x), x = r
        PROVE  Told(r)'
    <3>1. req'[r] = SavedRow(req[r], base[q].row, mine[q].row)
      BY <1>0, <2>2 DEF SavesRow
    <3>2. mine[q].row.routed => Told(r)
      BY <1>0, <2>2 DEF SavesRow, ToldInRequest, Reading, Transaction
    <3>3. Told(r)
      BY <1>2, <2>0, <3>1, <3>2, RoutedSaved
    <3> QED
      BY <1>1, <3>3
  <2>3. CASE req'[r] = req[r]
    BY <1>1, <1>2, <2>0, <2>3
  <2>4. ASSUME NEW q \in Requests, NEW x \in Reqs, InsertsRow(q, x), x = r
        PROVE  req'[r] = mine[q].row
    BY <1>0, <2>4 DEF InsertsRow
  <2>5. ASSUME NEW q \in Requests, NEW x \in Reqs,
               InsertsRow(q, x) \/ SavesRow(q, x), x # r
        PROVE  req'[r] = req[r]
    BY <1>0, <2>5 DEF InsertsRow, SavesRow
  <2> QED
    BY <1>0, <1>2, <2>1, <2>2, <2>3, <2>4, <2>5, RowMoves
<1>3. ASSUME NEW p \in Requests
      PROVE  ToldInRequest(p)'
  <2>1. CASE Creates(p)
    <3>1. PICK r \in Reqs, u \in Users, sup \in Users : HasCreated(p, r, u, sup)
      BY <1>0, <2>1, CreateKnows
    <3> QED
      BY <3>1 DEF HasCreated, ToldInRequest, Reading, Transaction
  <2>2. CASE Reads(p)
    <3>1. PICK kind \in Kinds, r \in Reqs, u \in Users : HasRead(p, kind, r, u)
      BY <1>0, <2>2, ReadKnows
    <3>2. mine'[p].row = req[r] /\ Target(p)' = r /\ (req[r].routed => Told(r))
      BY <3>1 DEF HasRead, Telling, Target
    <3> QED
      BY <1>1, <3>2 DEF ToldInRequest
  <2>3. CASE LoadForSave(p)
    <3>1. /\ Target(p)' = Target(p) /\ pc[p] \in Reading /\ Target(p) \in Reqs
          /\ job[p].kind \in {"approve", "reject", "hold", "fulfill"}
          /\ mine'[p].row = Outcome(p, mine[p].row)
      BY <1>0, <2>3, LoadKnows DEF Target, Reading, Transaction
    <3>2. Outcome(p, mine[p].row).routed = mine[p].row.routed
      BY <1>0, <3>1 DEF Outcome, Row
    <3>3. mine[p].row.routed => Told(Target(p))
      BY <1>0, <3>1 DEF ToldInRequest
    <3> QED
      BY <1>1, <3>1, <3>2, <3>3 DEF ToldInRequest
  <2>4. CASE Keeps(p)
    <3>1. /\ Target(p)' = Target(p) /\ mine'[p].row = mine[p].row
          /\ pc'[p] \in Reading => pc[p] \in Reading
      BY <2>4 DEF Keeps, Reading, Transaction, Target
    <3>2. pc[p] \in Reading => Target(p) \in Reqs
      BY <1>0 DEF ControlAt, Reading, Transaction
    <3> QED
      BY <1>0, <1>1, <3>1, <3>2 DEF ToldInRequest
  <2>5. CASE Written(p) \/ pc'[p] \in Ended
    BY <2>5 DEF Written, InsertsRow, Ended, ToldInRequest, Reading, Transaction
  <2> QED
    BY <1>0, <2>1, <2>2, <2>3, <2>4, <2>5, CopyMoves
<1> QED
  BY <1>2, <1>3 DEF Telling

(* Nor does a sweep forget somebody it is about to tell.                   *)
LEMMA WatchTelling ==
  ASSUME ~Faults, DeskInv, Phased, Telling, WatchStep
  PROVE  Telling'
<1>0. /\ TypeOK /\ WatchTypeOK
      /\ UNCHANGED <<pc, job, mine>>
      /\ \A q \in Requests : ControlAt(q) /\ ToldInRequest(q)
      /\ \A r \in Reqs : handOffs[r] \in 0..Many
  BY WatchSame DEF DeskInv, DInv, IInv, WInv, WatchTypeOK, handlers, Control,
     Telling
<1>1. ASSUME NEW r \in Reqs, Told(r)
      PROVE  Told(r)'
  <2>1. CASE handOffs[r] > 0
    <3>1. handOffs'[r] > 0
      BY <1>0, <2>1, SentMoves, CountedStays DEF HandOffCounted
    <3> QED
      BY <3>1 DEF Told
  <2>2. ASSUME NEW s \in Sweeps, task[s][r] = "routed"
        PROVE  Told(r)'
    <3>1. TaskStill(s, r) \/ NotifyAlternate(s, r)
      BY <1>0, <2>2, TaskCarried DEF TaskEnded, Notified, Resolved, StampBreach,
         Phased
    <3>2. CASE TaskStill(s, r)
      BY <2>2, <3>2 DEF TaskStill, Told
    <3>3. CASE NotifyAlternate(s, r)
      <4>1. handOffs'[r] = Counted(handOffs[r])
        BY <1>0, <3>3 DEF NotifyAlternate, WatchTypeOK
      <4> QED
        BY <1>0, <4>1, CountedStays DEF Told
    <3> QED
      BY <3>1, <3>2, <3>3
  <2>3. ASSUME NEW q \in Requests, RoutesNew(q, r)
        PROVE  Told(r)'
    <3>1. audit \subseteq audit'
      BY WatchAudits DEF NotifyAlternate
    <3>2. RoutesNew(q, r)'
      BY <1>0, <2>3, <3>1 DEF RoutesNew, Target
    <3> QED
      BY <3>2 DEF Told
  <2> QED
    BY <1>1, <2>1, <2>2, <2>3 DEF Told
<1>2. ASSUME NEW r \in Reqs, req'[r].routed
      PROVE  Told(r)'
  <2>1. CASE req'[r].routed = req[r].routed
    BY <1>1, <1>2, <2>1 DEF Telling
  <2>2. ASSUME NEW s \in Sweeps, Stamps(s, r), task[s][r] = "hand off",
               StampBreach(s, r)
        PROVE  Told(r)'
    <3>1. task' = [task EXCEPT ![s][r] = "routed"]
      BY <2>2 DEF StampBreach
    <3>2. task'[s][r] = "routed"
      BY <1>0, <3>1 DEF WatchTypeOK
    <3> QED
      BY <3>2 DEF Told
  <2>3. ASSUME NEW s \in Sweeps, NEW x \in Reqs, Stamps(s, x)
        PROVE  Told(r)'
    <3>1. CASE x = r
      BY <1>0, <2>1, <2>2, <2>3, <3>1, StampWrites
    <3>2. CASE x # r
      BY <1>0, <2>1, <2>3, <3>2, StampWrites
    <3> QED
      BY <3>1, <3>2
  <2> QED
    BY <2>1, <2>3, WatchMoves
<1>3. ASSUME NEW q \in Requests
      PROVE  ToldInRequest(q)'
  <2>1. pc[q] \in Reading => Target(q) \in Reqs
    BY <1>0 DEF ControlAt, Reading, Transaction
  <2> QED
    BY <1>0, <1>1, <2>1 DEF ToldInRequest, Target
<1> QED
  BY <1>2, <1>3 DEF Telling

LEMMA InitTelling == DeskInit => Unhooked /\ Phased /\ Telling
<1> SUFFICES ASSUME DeskInit PROVE Unhooked /\ Phased /\ Telling
  OBVIOUS
<1>1. PICK number \in [Reqs -> 0..Cardinality(Reqs)], sup \in [Reqs -> Users] :
        SeedRows(number, sup)
  BY DEF DeskInit, Init
<1>2. ASSUME NEW r \in Reqs
      PROVE  req[r].routed = FALSE
  <2>1. req[r] = SeedRow(r, number[r], sup[r])
    BY <1>1 DEF SeedRows
  <2> QED
    BY <2>1 DEF SeedRow, NoRow
<1>3. \A q \in Requests : pc[q] = "idle" /\ hooks[q] = <<>>
  BY DEF DeskInit, Init
<1>4. Unhooked
  BY <1>3 DEF Unhooked, UnhookedAt
<1>5. Phased
  BY DEF DeskInit, WatchInit, Phased, PhaseAt
<1>6. \A q \in Requests : ToldInRequest(q)
  BY <1>3 DEF ToldInRequest, Reading, Transaction
<1> QED
  BY <1>2, <1>4, <1>5, <1>6 DEF Telling

(***************************************************************************)
(* Unless an await throws, an alternate who was handed a requisition has   *)
(* been told, or somebody is about to tell them, though requests save      *)
(* copies that predate the hand-off and however many sweeps overlap.       *)
(***************************************************************************)
THEOREM AlternateAlwaysTold == DeskSpec => []AlternateTold
<1> DEFINE Uncut == Faults \/ (Unhooked /\ Phased /\ Telling)
<1>1. Telling => AlternateTold
  BY DEF Telling, Told, RoutesNew, AlternateTold
<1>2. CASE Faults
  <2>1. AlternateTold
    BY <1>2, Zenon DEF AlternateTold
  <2> QED
    BY <2>1, PTL
<1>3. CASE ~Faults
  <2>1. DeskInv /\ Reported /\ Unhooked /\ Phased /\ Telling
          /\ [DeskNext]_deskVars => (Unhooked /\ Phased /\ Telling)'
    <3>1. ASSUME DeskInv, Reported, Unhooked, Phased, Telling,
                 [Next]_vars, UNCHANGED watchVars
          PROVE  (Unhooked /\ Phased /\ Telling)'
      <4>1. Unhooked' /\ Telling'
        BY <1>3, <3>1, NextUnhooked, NextTelling DEF DeskInv, DInv
      <4>2. Phased'
        BY <3>1 DEF Phased, PhaseAt, watchVars, sweepState
      <4> QED
        BY <4>1, <4>2
    <3>2. ASSUME DeskInv, Reported, Unhooked, Phased, Telling, WatchStep
          PROVE  (Unhooked /\ Phased /\ Telling)'
      <4>1. Telling'
        BY <1>3, <3>2, WatchTelling
      <4>2. Phased'
        BY <1>3, <3>2, WatchPhases DEF Phased, DeskInv, WInv
      <4>3. Unhooked'
        BY <3>2, WatchSame DEF DeskInv, DInv, IInv, Unhooked, UnhookedAt, handlers
      <4> QED
        BY <4>1, <4>2, <4>3
    <3> QED
      BY <3>1, <3>2, DeskSteps
  <2> QED
    BY <1>1, <2>1, InitTelling, DeskInductive, ReportedInductive, PTL DEF DeskSpec
<1> QED
  BY <1>2, <1>3

-----------------------------------------------------------------------------
(* The composed system keeps the ledger.  Whoever a submission was routed  *)
(* by, or decides, is somebody.                                            *)
KnownAt(q) ==
  /\ pc[q] = "counted" => primary[Target(q)] \in Users
  /\ pc[q] = "checked" => job[q].actor \in Users

(* The statuses the service writes: never "draft" or "cancelled".          *)
StatusesUsed == {"absent", "pending_supervisor", "pending_fulfillment", "on_hold",
                 "fulfilled", "rejected"}

Known == /\ \A r \in Submitted : primary[r] \in Users
         /\ \A r \in Reqs : req[r].status \in StatusesUsed
         /\ \A q \in Requests : KnownAt(q)

LEMMA NextKnown ==
  ASSUME DInv, Known, [Next]_vars
  PROVE  Known'
<1>0. /\ IInv /\ TypeOK /\ req \in [Reqs -> Row]
      /\ \A q \in Requests : ControlAt(q) /\ IntentAt(q) /\ KnownAt(q)
  BY DEF DInv, IInv, TypeOK, Control, Intent, Known
<1>1. ASSUME NEW r \in Submitted'
      PROVE  primary'[r] \in Users
  <2>1. CASE r \in Submitted
    BY <2>1, PrimaryStays DEF Known, Submitted
  <2>2. ASSUME NEW q \in Requests, NEW x \in Reqs, InsertsRow(q, x), x = r
        PROVE  primary'[r] \in Users
    <3>1. primary[r] \in Users /\ job[q].kind = "create" /\ Target(q) = r
      BY <1>0, <2>2 DEF InsertsRow, KnownAt, ControlAt
    <3> QED
      BY <3>1, PrimaryStays DEF Submitted
  <2>3. ASSUME NEW q \in Requests, NEW x \in Reqs, SavesRow(q, x), x = r
        PROVE  r \in Submitted
    <3>1. pc[q] \in Reading /\ Target(q) = r
      BY <2>3 DEF SavesRow, Reading, Transaction
    <3> QED
      BY <3>1, ReadingSubmitted
  <2>4. ASSUME NEW q \in Requests, NEW x \in Reqs,
               InsertsRow(q, x) \/ SavesRow(q, x), x # r
        PROVE  r \in Submitted
    BY <1>0, <2>4 DEF InsertsRow, SavesRow, Submitted
  <2>5. UNCHANGED req => r \in Submitted
    BY DEF Submitted
  <2> QED
    BY <1>0, <2>1, <2>2, <2>3, <2>4, <2>5, RowMoves
<1>2. ASSUME NEW p \in Requests
      PROVE  KnownAt(p)'
  <2>1. CASE Creates(p)
    <3>1. PICK r \in Reqs, u \in Users, sup \in Users : HasCreated(p, r, u, sup)
      BY <1>0, <2>1, CreateKnows
    <3>2. primary'[r] = sup /\ Target(p)' = r /\ pc'[p] = "counted"
      BY <1>0, <3>1 DEF HasCreated, Target, TypeOK
    <3> QED
      BY <3>2 DEF KnownAt
  <2>2. CASE Reads(p)
    <3>1. PICK kind \in Kinds, r \in Reqs, u \in Users : HasRead(p, kind, r, u)
      BY <1>0, <2>2, ReadKnows
    <3>2. job'[p].actor = u /\ pc'[p] # "counted"
      BY <3>1 DEF HasRead, AfterRead
    <3> QED
      BY <3>2 DEF KnownAt
  <2>3. CASE Keeps(p)
    <3>1. /\ job'[p] = job[p] /\ Target(p)' = Target(p)
          /\ pc'[p] \in {"counted", "checked"} => pc'[p] = pc[p]
      BY <2>3 DEF Keeps, Target
    <3>2. pc[p] = "counted" => primary'[Target(p)] = primary[Target(p)]
      BY <1>0, PrimaryStays DEF ControlAt
    <3> QED
      BY <1>0, <3>1, <3>2 DEF KnownAt
  <2>4. CASE LoadForSave(p) \/ Written(p) \/ pc'[p] \in Ended
    <3>1. pc'[p] \notin {"counted", "checked"}
      BY <1>0, <2>4, LoadKnows DEF Written, InsertsRow, Ended
    <3> QED
      BY <3>1 DEF KnownAt
  <2> QED
    BY <1>0, <2>1, <2>2, <2>3, <2>4, CopyMoves
<1>3. ASSUME NEW r \in Reqs
      PROVE  req'[r].status \in StatusesUsed
  <2>1. ASSUME NEW q \in Requests, Inserts(q, r) \/ Saves(q, r)
        PROVE  req'[r].status \in StatusesUsed
    BY <1>0, <2>1 DEF Inserts, Saves, ControlAt, IntentAt, StatusAfter,
       Transaction, StatusesUsed
  <2> QED
    BY <1>0, <2>1, StatusSteps DEF Known
<1> QED
  BY <1>1, <1>2, <1>3 DEF Known

LEMMA KnownInductive == DeskSpec => []Known
<1>1. ASSUME DeskInv, Known, WatchStep
      PROVE  Known'
  <2>1. Submitted' = Submitted /\ UNCHANGED <<pc, job, primary>>
    BY <1>1, WatchSame DEF DeskInv, DInv, IInv, handlers, history
  <2> QED
    BY <1>1, <2>1, WatchSame DEF Known, KnownAt, Target, DeskInv, DInv, IInv,
       SameRequest
<1>2. DeskInv /\ Known /\ [DeskNext]_deskVars => Known'
  BY <1>1, NextKnown, DeskSteps DEF DeskInv
<1>3. DeskInit => Known
  <2> SUFFICES ASSUME DeskInit PROVE Known
    OBVIOUS
  <2>1. PICK number \in [Reqs -> 0..Cardinality(Reqs)], sup \in [Reqs -> Users] :
          SeedRows(number, sup)
    BY DEF DeskInit, Init
  <2>2. ASSUME NEW r \in Submitted
        PROVE  primary[r] \in Users
    <3>1. req[r] = SeedRow(r, number[r], sup[r]) /\ req[r].status # "absent"
      BY <2>1 DEF SeedRows, Submitted
    <3>2. Seed[r] # "absent"
      BY <3>1 DEF SeedRow, NoRow
    <3> QED
      BY <2>1, <3>2 DEF SeedRows, Submitted
  <2>3. \A q \in Requests : KnownAt(q)
    BY DEF DeskInit, Init, KnownAt
  <2>4. ASSUME NEW r \in Reqs
        PROVE  req[r].status \in StatusesUsed
    <3>1. req[r] = SeedRow(r, number[r], sup[r])
      BY <2>1 DEF SeedRows
    <3> QED
      BY <3>1, RequestAssumption DEF SeedRow, NoRow, StatusesUsed
  <2> QED
    BY <2>2, <2>3, <2>4 DEF Known
<1> QED
  BY <1>2, <1>3, DeskInductive, PTL DEF DeskSpec


(* What the ledger sees of the tables.                                     *)
Verdicts ==
  {[req |-> a.req, by |-> a.approver, action |-> a.action] : a \in approvals}
Holders == [r \in Reqs |-> req[r].supervisor]
Firsts == [r \in Reqs |-> IF req[r].status = "absent" THEN None ELSE primary[r]]
Administrators == {u \in Users : Role[u] = "system_admin"}

(* A decision on record is a verdict of the ledger.                        *)
LEMMA OnLedger ==
  ASSUME NEW r, NEW d, HasDecision(r, d)
  PROVE  Ledger!On(r, d)
<1>1. PICK a \in approvals : a.req = r /\ a.action = d
  BY DEF HasDecision
<1>2. [req |-> a.req, by |-> a.approver, action |-> a.action] \in Verdicts
  BY DEF Verdicts
<1> QED
  BY <1>1, <1>2 DEF Ledger!On, Verdicts

(* A supervisor one hop away is on the ledger's route.                     *)
LEMMA HopRoute ==
  ASSUME NEW r, NEW row, Hop(r, row)
  PROVE  row.supervisor \in Ledger!Route(primary[r])
BY DEF Hop, Ledger!Route

(* A step that writes no row and no decision is none of the ledger's.      *)
LEMMA QuietLedger ==
  ASSUME DeskInv, [Next]_vars, Quiet, approvals' = approvals
  PROVE  UNCHANGED Ledger!vars
<1>1. \A r \in Reqs : req[r].status # "absent" => primary'[r] = primary[r]
  BY PrimaryStays DEF DeskInv, Submitted
<1>2. /\ Statuses' = Statuses /\ Verdicts' = Verdicts /\ Holders' = Holders
      /\ Firsts' = Firsts /\ Quantities' = Quantities
  BY <1>1 DEF Quiet, Statuses, Verdicts, Holders, Firsts, Quantities
<1> QED
  BY <1>2, Zenon DEF Ledger!vars, Statuses, Verdicts, Holders, Firsts, Quantities

(* The INSERT of a requisition is its submission.                          *)
LEMMA SubmitLedger ==
  ASSUME DeskInv, Hops, Known, [Next]_vars, NEW q \in Requests, Submits(q),
         approvals' = approvals
  PROVE  Ledger!Next
<1>0. /\ DInv /\ TypeOK /\ req \in [Reqs -> Row]
      /\ ControlAt(q) /\ CreationAt(q) /\ HopInRequest(q) /\ KnownAt(q)
      /\ pc[q] = "counted"
  BY DEF DeskInv, DInv, IInv, Control, Creation, Hops, Known, Submits, TypeOK
<1>1. PICK r \in Reqs : r = Target(q)
  BY <1>0 DEF ControlAt
<1>2. /\ req[r].status = "absent" /\ job[q].kind = "create"
      /\ mine[q].row.status = "pending_supervisor"
      /\ primary[r] \in Users /\ Hop(r, mine[q].row)
  BY <1>0, <1>1 DEF ControlAt, CreationAt, KnownAt, HopInRequest
<1>3. req'[r] = mine[q].row /\ \A x \in Reqs : x # r => req'[x] = req[x]
  BY <1>0, <1>1 DEF Submits
<1>4. \A x \in Reqs : req[x].status # "absent" \/ x = r => primary'[x] = primary[x]
  BY <1>0, <1>1, <1>2, PrimaryStays DEF Submitted
<1> DEFINE u == primary[r]
           h == mine[q].row.supervisor
<1>5. h \in Ledger!Route(u)
  BY <1>2, HopRoute
<1>6. /\ Statuses[r] = "absent"
      /\ Statuses' = [Statuses EXCEPT ![r] = "pending_supervisor"]
      /\ Holders' = [Holders EXCEPT ![r] = h]
      /\ Firsts' = [Firsts EXCEPT ![r] = u]
      /\ Verdicts' = Verdicts /\ Quantities' = Quantities
  <2>1. Statuses[r] = "absent" /\ Verdicts' = Verdicts /\ Quantities' = Quantities
    BY <1>2 DEF Statuses, Verdicts, Quantities, Submits
  <2>2. Statuses' = [Statuses EXCEPT ![r] = "pending_supervisor"]
    BY <1>2, <1>3 DEF Statuses
  <2>3. Holders' = [Holders EXCEPT ![r] = h]
    BY <1>3 DEF Holders
  <2>4. Firsts' = [Firsts EXCEPT ![r] = u]
    BY <1>2, <1>3, <1>4 DEF Firsts
  <2> QED
    BY <2>1, <2>2, <2>3, <2>4
<1>7. Ledger!Submit(r)
  <2> HIDE DEF u, h
  <2>1. u \in Users
    BY <1>2 DEF u
  <2> QED
    BY <1>5, <1>6, <2>1, Zenon
    DEF Ledger!Submit, Statuses, Verdicts, Holders, Firsts, Quantities
<1> QED
  BY <1>7 DEF Ledger!Next

(* A row of the approvals table is a verdict of somebody nominated.        *)
LEMMA RecordLedger ==
  ASSUME DeskInv, Nominated, Known, [Next]_vars, NEW q \in Requests,
         RecordDecision(q)
  PROVE  Ledger!Next
<1>0. /\ DInv /\ TypeOK /\ ControlAt(q) /\ KnownAt(q) /\ pc[q] = "checked"
  BY DEF DeskInv, DInv, IInv, Control, Known, RecordDecision
<1>1. PICK r \in Reqs : r = Target(q)
  BY <1>0 DEF ControlAt
<1>2. r \in Submitted /\ req[r].status # "absent"
  BY <1>0, <1>1, ReadingSubmitted DEF Reading, Submitted
<1>3. PICK u \in Users : u = job[q].actor
  BY <1>0 DEF KnownAt
<1>4. PICK d \in {"approved", "rejected"} : d = Decision(q)
  BY DEF Decision
<1>5. u \in Ledger!Route(Firsts[r]) \cup Administrators
  <2>1. Nominee(u, r)
    BY <1>0, <1>1, <1>3 DEF Nominated
  <2>2. Firsts[r] = primary[r] /\ u # None
    BY <1>2, StoreAssumption DEF Firsts
  <2> QED
    BY <2>1, <2>2 DEF Nominee, Ledger!Route, Administrators
<1>6. Verdicts' = Verdicts \cup {[req |-> r, by |-> u, action |-> d]}
  <2> DEFINE new == [request |-> q, req |-> r, approver |-> u, action |-> d]
             Seen(a) == [req |-> a.req, by |-> a.approver, action |-> a.action]
  <2>1. approvals' = approvals \cup {new}
    BY <1>1, <1>3, <1>4 DEF RecordDecision
  <2>2. Seen(new) = [req |-> r, by |-> u, action |-> d]
    OBVIOUS
  <2>3. Verdicts = {Seen(a) : a \in approvals}
        /\ Verdicts' = {Seen(a) : a \in approvals'}
    BY DEF Verdicts
  <2> HIDE DEF new, Seen
  <2> QED
    BY <2>1, <2>2, <2>3
<1>7. /\ Statuses' = Statuses /\ Holders' = Holders
      /\ Firsts' = Firsts /\ Quantities' = Quantities /\ Statuses[r] # "absent"
  BY <1>2 DEF RecordDecision, Statuses, Holders, Firsts, Quantities, history
<1>8. Ledger!Record(r)
  BY <1>5, <1>6, <1>7, Zenon
  DEF Ledger!Record, Ledger!Verdict, Administrators, Statuses, Verdicts, Holders,
      Firsts, Quantities
<1> QED
  BY <1>8 DEF Ledger!Next

(* A save settles a requisition where a verdict on record allows.          *)
LEMMA SaveLedger ==
  ASSUME DeskInv, Hops, Based, Known, [Next]_vars, UNCHANGED watchVars,
         NEW q \in Requests, Save(q) \/ CommitFulfill(q)
  PROVE  Ledger!Next
<1>0. /\ DInv /\ IInv /\ TypeOK /\ req \in [Reqs -> Row] /\ req' \in [Reqs -> Row]
      /\ ControlAt(q) /\ IntentAt(q) /\ DecidedBase(q)
      /\ DecisionOnRecord' /\ approvals' = approvals
  <2>1. DInv
    BY DEF DeskInv
  <2>2. DecisionOnRecord' /\ IInv'
    BY <2>1, NextDecision, NextIInv DEF DInv
  <2>3. approvals' = approvals
    BY DEF Save, CommitFulfill
  <2> QED
    BY <2>1, <2>2, <2>3 DEF DInv, IInv, TypeOK, Control, Intent, Based
<1>1. PICK r \in Reqs : r = Target(q)
  BY <1>0 DEF ControlAt, Save, CommitFulfill
<1>2. SavesRow(q, r)
  BY <1>0, <1>1 DEF Save, CommitFulfill, WriteSaved, SavesRow, Goto, TypeOK
<1>3. /\ req'[r].status \notin Undecided
      /\ \A x \in Reqs : x # r => req'[x] = req[x]
  BY <1>0, <1>2, SavesDecide
<1>4. r \in Submitted /\ req[r].status # "absent"
  BY <1>0, <1>1, <1>2, ReadingSubmitted
  DEF SavesRow, Reading, Transaction, Submitted
<1>5. \A x \in Reqs : req[x].status # "absent" => primary'[x] = primary[x]
  BY <1>0, PrimaryStays DEF Submitted
<1> DEFINE to == req'[r].status
           h == req'[r].supervisor
<1>6. /\ to \in {"pending_fulfillment", "on_hold", "fulfilled", "rejected"}
      /\ Ledger!Backed(r, to)
  <2>1. to \in {"pending_fulfillment", "on_hold", "fulfilled", "rejected"}
    <3>1. Known'
      BY <1>0, NextKnown
    <3> QED
      BY <1>3, <3>1 DEF Known, StatusesUsed, Undecided
  <2>2. /\ to # "rejected" => HasDecision(r, "approved")
        /\ to = "rejected" => HasDecision(r, "rejected")
    BY <1>0, <2>1 DEF DecisionOnRecord, HasDecision
  <2> QED
    BY <2>1, <2>2, OnLedger DEF Ledger!Backed
<1>7. h \in Ledger!Route(Firsts[r])
  <2>1. Hop(r, req[r])'
    <3>1. Hops' /\ r \in Submitted'
      BY <1>0, <1>4, NextHops, SubmittedStays
    <3> QED
      BY <3>1 DEF Hops, HopInTable
  <2>2. primary'[r] = primary[r] /\ Firsts[r] = primary[r]
    BY <1>4, <1>5 DEF Firsts
  <2> QED
    BY <2>1, <2>2 DEF Hop, Ledger!Route
<1>8. /\ Statuses[r] # "absent" /\ Statuses' = [Statuses EXCEPT ![r] = to]
      /\ Holders' = [Holders EXCEPT ![r] = h]
      /\ Firsts' = Firsts /\ Verdicts' = Verdicts
  <2>1. Statuses[r] # "absent" /\ Statuses' = [Statuses EXCEPT ![r] = to]
    BY <1>3, <1>4 DEF Statuses
  <2>2. Holders' = [Holders EXCEPT ![r] = h]
    BY <1>3 DEF Holders
  <2>3. Firsts' = Firsts
    <3>1. ASSUME NEW x \in Reqs
          PROVE  /\ (req'[x].status = "absent") = (req[x].status = "absent")
                 /\ req[x].status # "absent" => primary'[x] = primary[x]
      BY <1>3, <1>4, <1>5 DEF Undecided
    <3> QED
      BY <3>1 DEF Firsts
  <2>4. Verdicts' = Verdicts
    BY <1>0 DEF Verdicts
  <2> QED
    BY <2>1, <2>2, <2>3, <2>4
<1>9. \/ Quantities' = Quantities
      \/ /\ Ledger!On(r, "approved")
         /\ Quantities' \in [Assets -> Nat]
         /\ \A s \in Assets : Quantities'[s] <= Quantities[s]
  <2>1. CASE Save(q)
    BY <2>1 DEF Save, Quantities
  <2>2. CASE CommitFulfill(q)
    <3>1. HasDecision(r, "approved")
      BY <1>0, <1>1, <2>2 DEF CommitFulfill, IntentAt, Transaction
    <3>2. ASSUME NEW s \in Assets
          PROVE  /\ asset'[s].quantity \in Nat
                 /\ asset'[s].quantity <= asset[s].quantity
      <4>1. /\ draw[q][s] \in Nat /\ seen[q][s] \in Nat
            /\ asset[s] \in AssetRow /\ asset[s].quantity \in Nat /\ HeldAt(q, s)
        BY <1>0 DEF TypeOK, AssetRow, IInv, Held
      <4>2. asset'[s] = IF draw[q][s] = 0 THEN asset[s]
                        ELSE [asset[s] EXCEPT !.quantity = seen[q][s] - draw[q][s]]
        BY <2>2 DEF CommitFulfill
      <4>3. CASE draw[q][s] = 0
        BY <4>1, <4>2, <4>3
      <4>4. CASE draw[q][s] > 0
        <5>1. seen[q][s] = asset[s].quantity /\ draw[q][s] <= asset[s].quantity
          BY <2>2, <4>1, <4>4 DEF HeldAt, Transaction, CommitFulfill
        <5>2. asset'[s].quantity = seen[q][s] - draw[q][s]
          BY <4>1, <4>2, <4>4 DEF AssetRow
        <5> QED
          BY <4>1, <5>1, <5>2
      <4> QED
        BY <4>1, <4>3, <4>4
    <3> QED
      BY <3>1, <3>2, OnLedger DEF Quantities
  <2> QED
    BY <2>1, <2>2
<1>10. Ledger!Settle(r)
  <2> HIDE DEF to, h
  <2> QED
    BY <1>6, <1>7, <1>8, <1>9, Zenon
    DEF Ledger!Settle, Statuses, Verdicts, Holders, Firsts, Quantities
<1> QED
  BY <1>10 DEF Ledger!Next


(* A sweep hands a requisition to the alternate of its supervisor, or      *)
(* writes nothing the ledger sees.                                         *)
LEMMA WatchLedger ==
  ASSUME DeskInv, Hops, WatchStep
  PROVE  Ledger!Next \/ UNCHANGED Ledger!vars
<1>0. /\ TypeOK /\ UNCHANGED <<approvals, asset, primary>>
      /\ \A x \in Reqs : req'[x].status = req[x].status
  BY WatchSame DEF DeskInv, DInv, IInv, history, SameRequest
<1>1. /\ Statuses' = Statuses /\ Verdicts' = Verdicts
      /\ Firsts' = Firsts /\ Quantities' = Quantities
  BY <1>0 DEF Statuses, Verdicts, Firsts, Quantities
<1>2. ASSUME \A x \in Reqs : req'[x].supervisor = req[x].supervisor
      PROVE  UNCHANGED Ledger!vars
  <2>1. Holders' = Holders
    BY <1>2 DEF Holders
  <2> QED
    BY <1>1, <2>1, Zenon
    DEF Ledger!vars, Statuses, Verdicts, Holders, Firsts, Quantities
<1>3. ASSUME NEW s \in Sweeps, NEW r \in Reqs, Stamps(s, r), StampBreach(s, r),
             task[s][r] = "hand off",
             req'[r].supervisor = AlternateOf[copy[s][r].supervisor]
      PROVE  Ledger!Next
  <2>1. /\ HandingAt(s, r) /\ HopInSweep(s, r)
        /\ \A x \in Reqs : x # r => req'[x] = req[x]
    BY <1>0, <1>3, StampWrites DEF DeskInv, WInv, Hops
  <2>2. r \in Submitted /\ Hop(r, copy[s][r]) /\ ~copy[s][r].routed
    BY <1>3, <2>1 DEF HopInSweep, HandingAt
  <2>3. copy[s][r].supervisor = primary[r] /\ AlternateOf[primary[r]] # None
    BY <1>3, <2>1, <2>2 DEF Hop, HandingAt
  <2>4. Firsts[r] = primary[r] /\ Statuses[r] # "absent"
    BY <2>2 DEF Firsts, Statuses, Submitted
  <2>5. Holders' = [Holders EXCEPT ![r] = AlternateOf[Firsts[r]]]
    BY <1>3, <2>1, <2>3, <2>4 DEF Holders
  <2>6. AlternateOf[Firsts[r]] # None
    BY <2>3, <2>4
  <2>7. Ledger!HandOver(r)
    BY <1>1, <2>4, <2>5, <2>6, Zenon
    DEF Ledger!HandOver, Statuses, Verdicts, Holders, Firsts, Quantities
  <2> QED
    BY <2>7 DEF Ledger!Next
<1>4. ASSUME NEW s \in Sweeps, NEW r \in Reqs, Stamps(s, r)
      PROVE  Ledger!Next \/ UNCHANGED Ledger!vars
  <2>1. \/ \A x \in Reqs : req'[x].supervisor = req[x].supervisor
        \/ /\ StampBreach(s, r) /\ task[s][r] = "hand off"
           /\ req'[r].supervisor = AlternateOf[copy[s][r].supervisor]
    BY <1>0, <1>4, StampWrites
  <2> QED
    BY <1>2, <1>3, <1>4, <2>1
<1> QED
  BY <1>2, <1>4, WatchMoves

(* The rows of the start are those of the ledger's.                        *)
LEMMA InitLedger == DeskInit => Ledger!Init
<1> SUFFICES ASSUME DeskInit PROVE Ledger!Init
  OBVIOUS
<1>1. PICK number \in [Reqs -> 0..Cardinality(Reqs)], sup \in [Reqs -> Users] :
        SeedRows(number, sup)
  BY DEF DeskInit, Init
<1>2. ASSUME NEW r \in Reqs
      PROVE  /\ req[r].status = Seed[r]
             /\ Seed[r] \in {"absent", "pending_supervisor", "pending_fulfillment"}
             /\ req[r].supervisor = IF Seed[r] = "absent" THEN None ELSE sup[r]
             /\ primary[r] = IF Seed[r] = "absent" THEN None ELSE sup[r]
  <2>1. req[r] = SeedRow(r, number[r], sup[r])
    BY <1>1 DEF SeedRows
  <2> QED
    BY <1>1, <2>1, RequestAssumption DEF SeedRows, SeedRow, NoRow
<1> DEFINE approved == {x \in Reqs : Seed[x] = "pending_fulfillment"}
<1>3. ASSUME NEW r \in Reqs
      PROVE  /\ Statuses[r] \in {"absent", "pending_supervisor", "pending_fulfillment"}
             /\ IF Statuses[r] = "absent" THEN Firsts[r] = None
                ELSE Firsts[r] \in Users
             /\ Holders[r] = Firsts[r]
  BY <1>2 DEF Statuses, Firsts, Holders
<1>4. Verdicts = {[req |-> r, by |-> Firsts[r], action |-> "approved"] :
                    r \in {x \in Reqs : Statuses[x] = "pending_fulfillment"}}
  <2>1. approved = {x \in Reqs : Statuses[x] = "pending_fulfillment"}
    BY <1>2 DEF Statuses
  <2>2. \A r \in approved : Firsts[r] = sup[r]
    BY <1>2 DEF Firsts
  <2>3. approvals = {[request |-> None, req |-> r, approver |-> sup[r],
                      action |-> "approved"] : r \in approved}
    BY <1>1 DEF SeedRows
  <2>4. Verdicts = {[req |-> r, by |-> sup[r], action |-> "approved"] : r \in approved}
    <3> DEFINE Decided(r) == [request |-> None, req |-> r, approver |-> sup[r],
                              action |-> "approved"]
               Seen(a) == [req |-> a.req, by |-> a.approver, action |-> a.action]
    <3>1. approvals = {Decided(r) : r \in approved}
      BY <2>3
    <3>2. \A r : Seen(Decided(r)) = [req |-> r, by |-> sup[r], action |-> "approved"]
      OBVIOUS
    <3>3. Verdicts = {Seen(a) : a \in approvals}
      BY DEF Verdicts
    <3> HIDE DEF approved, Decided, Seen
    <3>4. Verdicts = {Seen(Decided(r)) : r \in approved}
      BY <3>1, <3>3
    <3> QED
      BY <3>2, <3>4
  <2> HIDE DEF approved
  <2> QED
    BY <2>1, <2>2, <2>4
<1> QED
  BY <1>3, <1>4, Zenon
  DEF Ledger!Init, Ledger!Verdict, Statuses, Verdicts, Holders, Firsts, Quantities

(***************************************************************************)
(* Requests that overlap, fail and save stale copies, and sweeps that hand *)
(* over in between, keep the ledger: each of their steps is a submission,  *)
(* a verdict of somebody nominated, a settlement a verdict on record       *)
(* allows, one hop to an alternate, or none of these.                      *)
(***************************************************************************)
THEOREM DeskKeepsLedger == DeskSpec => KeepsLedger
<1>1. DeskInv /\ Hops /\ Nominated /\ Based /\ Known /\ [DeskNext]_deskVars
        => [Ledger!Next]_(Ledger!vars)
  <2> SUFFICES ASSUME DeskInv, Hops, Nominated, Based, Known,
                      [DeskNext]_deskVars
               PROVE  Ledger!Next \/ UNCHANGED Ledger!vars
    OBVIOUS
  <2>1. ASSUME [Next]_vars, UNCHANGED watchVars
        PROVE  Ledger!Next \/ UNCHANGED Ledger!vars
    <3>1. ASSUME NEW q \in Requests, Opens(q) \/ Proceed(q) \/ Disturb(q)
          PROVE  Quiet \/ Submits(q) \/ Save(q) \/ CommitFulfill(q)
      BY <3>1, WritesWhere DEF DeskInv, DInv
    <3>2. Quiet \/ \E q \in Requests : Submits(q) \/ Save(q) \/ CommitFulfill(q)
      <4>1. ASSUME \/ \E u \in Users, d \in {"present", "away", "inactive"} :
                        SetDuty(u, d)
                   \/ UNCHANGED vars
            PROVE  Quiet
        BY <4>1 DEF SetDuty, vars, tables, Quiet
      <4>2. (Submit \/ Open) => \E q \in Requests : Opens(q)
        BY DEF Submit, Open, Opens
      <4> QED
        BY <2>1, <3>1, <4>1, <4>2 DEF Next, Idle
    <3>3. ASSUME NEW q \in Requests, RecordDecision(q)
          PROVE  Ledger!Next
      BY <2>1, <3>3, RecordLedger
    <3>4. ASSUME approvals' = approvals
          PROVE  Ledger!Next \/ UNCHANGED Ledger!vars
      BY <2>1, <3>2, <3>4, QuietLedger, SubmitLedger, SaveLedger
    <3> QED
      BY <2>1, <3>3, <3>4, ApprovalsMove
  <2> QED
    BY <2>1, DeskSteps, WatchLedger
<1> QED
  BY <1>1, InitLedger, DeskInductive, HopsInductive, NominatedInductive,
     BasedInductive, KnownInductive, PTL
  DEF DeskSpec, KeepsLedger, Ledger!Spec

(***************************************************************************)
(* With the sweeps running no decrement is lost and no stock invented, the *)
(* insufficient-stock guard still holds at the commit.                     *)
(***************************************************************************)
THEOREM DeskStock == DeskSpec => [](StockAccounted /\ GuardStillHolds)
<1>1. DeskInit => StockAccounted
  BY InitAccounted DEF DeskInit
<1>2. ASSUME DeskInv, StockAccounted, WatchStep
      PROVE  StockAccounted'
  BY <1>2, WatchSame DEF DeskInv, DInv, IInv, StockAccounted, history
<1>3. DeskInv /\ StockAccounted /\ [DeskNext]_deskVars => StockAccounted'
  BY <1>2, NextAccounted, DeskSteps DEF DeskInv, DInv
<1>4. DeskInv => GuardStillHolds
  BY DEF DeskInv, DInv, IInv, Held, HeldAt, GuardStillHolds, Transaction
<1> QED
  BY <1>1, <1>3, <1>4, DeskInductive, PTL DEF DeskSpec

(***************************************************************************)
(* With the sweeps running, a requisition that left the supervisor's queue *)
(* never comes back to it.                                                 *)
(***************************************************************************)
THEOREM DeskStaysDecided == DeskSpec => NeverReopened
<1>1. DeskInv /\ [DeskNext]_deskVars =>
        [\A r \in Reqs :
           req'[r].status = "pending_supervisor" =>
             req[r].status \in {"absent", "pending_supervisor"}]_vars
  <2> SUFFICES ASSUME DeskInv, [DeskNext]_deskVars, NEW r \in Reqs,
                      req'[r].status = "pending_supervisor"
               PROVE  req[r].status \in {"absent", "pending_supervisor"}
    OBVIOUS
  <2>1. CASE WatchStep
    BY <2>1, WatchSame DEF DeskInv, DInv, IInv, SameRequest
  <2>2. CASE [Next]_vars
    BY <2>2, NotReopened DEF DeskInv
  <2> QED
    BY <2>1, <2>2, DeskSteps
<1> QED
  BY <1>1, DeskInductive, PTL DEF DeskSpec, NeverReopened
-----------------------------------------------------------------------------
(* What the ledger is worth: what follows from it alone, of any behaviour  *)
(* that keeps it.                                                          *)
Nominees(r) == {Firsts[r], AlternateOf[Firsts[r]]} \cup Administrators

OnFile(r, d) == \E v \in Verdicts : v.req = r /\ v.action = d

Backing(r, to) ==
  \/ to \in {"pending_fulfillment", "on_hold", "fulfilled"} /\ OnFile(r, "approved")
  \/ to = "rejected" /\ OnFile(r, "rejected")

Warranted ==
  /\ \A v \in Verdicts : /\ v.req \in Reqs /\ Statuses[v.req] # "absent"
                         /\ v.by \in Nominees(v.req)
  /\ \A r \in Reqs : Statuses[r] \notin Undecided => Backing(r, Statuses[r])

(* The ledger's steps, in the desk's terms.                                *)
LEMMA LedgerSteps ==
  ASSUME [Ledger!Next]_(Ledger!vars)
  PROVE  \/ /\ Statuses' = Statuses /\ Verdicts' = Verdicts /\ Firsts' = Firsts
         \/ \E r \in Reqs :
              /\ Statuses[r] = "absent" /\ Verdicts' = Verdicts
              /\ \E u \in Users : Firsts' = [Firsts EXCEPT ![r] = u]
              /\ Statuses' = [Statuses EXCEPT ![r] = "pending_supervisor"]
         \/ \E r \in Reqs :
              /\ Statuses[r] # "absent" /\ Statuses' = Statuses /\ Firsts' = Firsts
              /\ \E u \in Nominees(r), d \in {"approved", "rejected"} :
                   Verdicts' = Verdicts \cup {[req |-> r, by |-> u, action |-> d]}
         \/ \E r \in Reqs :
              /\ Statuses[r] # "absent" /\ Verdicts' = Verdicts /\ Firsts' = Firsts
              /\ \E to \in {"pending_fulfillment", "on_hold", "fulfilled", "rejected"} :
                   Backing(r, to) /\ Statuses' = [Statuses EXCEPT ![r] = to]
<1>1. ASSUME NEW r \in Reqs, Ledger!Submit(r)
      PROVE  /\ Statuses[r] = "absent" /\ Verdicts' = Verdicts
             /\ \E u \in Users : Firsts' = [Firsts EXCEPT ![r] = u]
             /\ Statuses' = [Statuses EXCEPT ![r] = "pending_supervisor"]
  BY <1>1, Zenon DEF Ledger!Submit, Statuses, Verdicts, Firsts
<1>2. ASSUME NEW r \in Reqs, Ledger!Record(r)
      PROVE  /\ Statuses[r] # "absent" /\ Statuses' = Statuses /\ Firsts' = Firsts
             /\ \E u \in Nominees(r), d \in {"approved", "rejected"} :
                  Verdicts' = Verdicts \cup {[req |-> r, by |-> u, action |-> d]}
  <2>1. /\ Statuses[r] # "absent" /\ Statuses' = Statuses /\ Firsts' = Firsts
        /\ \E u \in Ledger!Route(Firsts[r]) \cup Administrators,
              d \in {"approved", "rejected"} :
             Verdicts' = Verdicts \cup {[req |-> r, by |-> u, action |-> d]}
    BY <1>2, Zenon
    DEF Ledger!Record, Ledger!Verdict, Statuses, Verdicts, Firsts, Administrators
  <2>2. Ledger!Route(Firsts[r]) \cup Administrators \subseteq Nominees(r)
    BY DEF Ledger!Route, Nominees
  <2> QED
    BY <2>1, <2>2, Zenon
<1>3. ASSUME NEW r \in Reqs, Ledger!Settle(r)
      PROVE  /\ Statuses[r] # "absent" /\ Verdicts' = Verdicts /\ Firsts' = Firsts
             /\ \E to \in {"pending_fulfillment", "on_hold", "fulfilled", "rejected"} :
                  Backing(r, to) /\ Statuses' = [Statuses EXCEPT ![r] = to]
  BY <1>3, Zenon
  DEF Ledger!Settle, Ledger!Backed, Ledger!On, Backing, OnFile, Statuses,
      Verdicts, Firsts
<1>4. ASSUME NEW r \in Reqs, Ledger!HandOver(r)
      PROVE  Statuses' = Statuses /\ Verdicts' = Verdicts /\ Firsts' = Firsts
  BY <1>4, Zenon DEF Ledger!HandOver, Statuses, Verdicts, Firsts
<1>5. ASSUME UNCHANGED Ledger!vars
      PROVE  Statuses' = Statuses /\ Verdicts' = Verdicts /\ Firsts' = Firsts
  BY <1>5, Zenon DEF Ledger!vars, Statuses, Verdicts, Firsts
<1>6. CASE Ledger!Next
  BY <1>1, <1>2, <1>3, <1>4, <1>6, Zenon DEF Ledger!Next
<1> QED
  BY <1>5, <1>6, Zenon

(* Verdicts stay warranted and statuses backed along the ledger.           *)
LEMMA NextWarranted ==
  ASSUME Warranted, [Ledger!Next]_(Ledger!vars)
  PROVE  /\ Warranted'
         /\ \A r \in Reqs : Statuses'[r] = "pending_supervisor" =>
                              Statuses[r] \in {"absent", "pending_supervisor"}
<1>1. /\ Statuses = [r \in Reqs |-> Statuses[r]]
      /\ Firsts = [r \in Reqs |-> Firsts[r]]
  BY DEF Statuses, Firsts
<1>2. /\ \A v \in Verdicts : /\ v.req \in Reqs /\ Statuses[v.req] # "absent"
                             /\ v.by \in Nominees(v.req)
      /\ \A r \in Reqs : Statuses[r] \notin Undecided => Backing(r, Statuses[r])
  BY DEF Warranted
<1>3. CASE Statuses' = Statuses /\ Verdicts' = Verdicts /\ Firsts' = Firsts
  BY <1>2, <1>3 DEF Warranted, Nominees, Backing, OnFile, Undecided
<1>4. ASSUME NEW r \in Reqs, Statuses[r] = "absent", Verdicts' = Verdicts,
             NEW u \in Users, Firsts' = [Firsts EXCEPT ![r] = u],
             Statuses' = [Statuses EXCEPT ![r] = "pending_supervisor"]
      PROVE  /\ Warranted'
             /\ \A x \in Reqs : Statuses'[x] = "pending_supervisor" =>
                                  Statuses[x] \in {"absent", "pending_supervisor"}
  <2>1. \A x \in Reqs : /\ Statuses'[x] = IF x = r THEN "pending_supervisor" ELSE Statuses[x]
                        /\ x # r => Firsts'[x] = Firsts[x]
    BY <1>1, <1>4
  <2>2. \A x, to : Backing(x, to)' <=> Backing(x, to)
    BY <1>4 DEF Backing, OnFile
  <2>3. \A x \in Reqs : x # r => Nominees(x)' = Nominees(x)
    BY <2>1 DEF Nominees
  <2>4. \A v \in Verdicts' : /\ v.req \in Reqs /\ Statuses'[v.req] # "absent"
                             /\ v.by \in Nominees(v.req)'
    BY <1>2, <1>4, <2>1, <2>3
  <2>5. \A x \in Reqs : Statuses'[x] \notin Undecided => Backing(x, Statuses[x])'
    <3> SUFFICES ASSUME NEW x \in Reqs, Statuses'[x] \notin Undecided
                 PROVE  Backing(x, Statuses[x])'
      OBVIOUS
    <3>1. x # r /\ Statuses'[x] = Statuses[x]
      BY <2>1 DEF Undecided
    <3> QED
      BY <1>2, <1>4, <3>1 DEF Backing, OnFile
  <2> QED
    BY <1>4, <2>1, <2>4, <2>5 DEF Warranted, Undecided
<1>5. ASSUME NEW r \in Reqs, Statuses[r] # "absent", Statuses' = Statuses,
             Firsts' = Firsts, NEW u \in Nominees(r), NEW d,
             Verdicts' = Verdicts \cup {[req |-> r, by |-> u, action |-> d]}
      PROVE  Warranted'
  <2>1. \A x \in Reqs : Nominees(x)' = Nominees(x)
    BY <1>5 DEF Nominees
  <2>2. \A v \in Verdicts' : /\ v.req \in Reqs /\ Statuses'[v.req] # "absent"
                             /\ v.by \in Nominees(v.req)'
    BY <1>2, <1>5, <2>1
  <2>3. \A x \in Reqs : Statuses'[x] \notin Undecided => Backing(x, Statuses[x])'
    BY <1>2, <1>5 DEF Backing, OnFile, Undecided
  <2> QED
    BY <2>2, <2>3 DEF Warranted, Undecided
<1>6. ASSUME NEW r \in Reqs, Statuses[r] # "absent", Verdicts' = Verdicts,
             Firsts' = Firsts,
             NEW to \in {"pending_fulfillment", "on_hold", "fulfilled", "rejected"},
             Backing(r, to), Statuses' = [Statuses EXCEPT ![r] = to]
      PROVE  /\ Warranted'
             /\ \A x \in Reqs : Statuses'[x] = "pending_supervisor" =>
                                  Statuses[x] \in {"absent", "pending_supervisor"}
  <2>1. \A x \in Reqs : Statuses'[x] = IF x = r THEN to ELSE Statuses[x]
    BY <1>1, <1>6
  <2>2. \A x \in Reqs : Nominees(x)' = Nominees(x)
    BY <1>6 DEF Nominees
  <2>3. \A v \in Verdicts' : /\ v.req \in Reqs /\ Statuses'[v.req] # "absent"
                             /\ v.by \in Nominees(v.req)'
    BY <1>2, <1>6, <2>1, <2>2
  <2>4. \A x \in Reqs : Statuses'[x] \notin Undecided => Backing(x, Statuses[x])'
    BY <1>2, <1>6, <2>1 DEF Backing, OnFile
  <2> QED
    BY <2>1, <2>3, <2>4 DEF Warranted, Undecided
<1>7. (\A r \in Reqs : Statuses'[r] = "pending_supervisor" =>
                         Statuses[r] \in {"absent", "pending_supervisor"})
      \/ Statuses' # Statuses
  OBVIOUS
<1> QED
  BY <1>3, <1>4, <1>5, <1>6, <1>7, LedgerSteps, Zenon

(* The ledger starts with warranted verdicts.                              *)
LEMMA InitWarranted == Ledger!Init => Warranted
<1> SUFFICES ASSUME Ledger!Init PROVE Warranted
  OBVIOUS
<1>1. /\ \A r \in Reqs : Statuses[r] \in {"absent", "pending_supervisor",
                                          "pending_fulfillment"}
      /\ Verdicts = {[req |-> r, by |-> Firsts[r], action |-> "approved"] :
                       r \in {x \in Reqs : Statuses[x] = "pending_fulfillment"}}
  BY Zenon DEF Ledger!Init, Ledger!Verdict, Statuses, Verdicts, Firsts
<1>2. \A v \in Verdicts : /\ v.req \in Reqs /\ Statuses[v.req] # "absent"
                          /\ v.by \in Nominees(v.req)
  BY <1>1 DEF Nominees
<1>3. \A r \in Reqs : Statuses[r] \notin Undecided => Backing(r, Statuses[r])
  <2> SUFFICES ASSUME NEW r \in Reqs, Statuses[r] \notin Undecided
               PROVE  Backing(r, Statuses[r])
    OBVIOUS
  <2>1. Statuses[r] = "pending_fulfillment"
    BY <1>1 DEF Undecided
  <2> DEFINE v == [req |-> r, by |-> Firsts[r], action |-> "approved"]
  <2>2. v \in Verdicts
    BY <1>1, <2>1, Zenon
  <2>3. v.req = r /\ v.action = "approved"
    OBVIOUS
  <2>4. OnFile(r, "approved")
    BY <2>2, <2>3, Zenon DEF OnFile
  <2> QED
    BY <2>1, <2>4 DEF Backing
<1> QED
  BY <1>2, <1>3 DEF Warranted

(***************************************************************************)
(* The ledger is not too weak to be worth keeping: whatever keeps it has a *)
(* decision on record behind every status, lets only nominees decide, and  *)
(* never takes a requisition back to the supervisor's queue.               *)
(***************************************************************************)
THEOREM LedgerMeans ==
  KeepsLedger => /\ [](DecisionOnRecord /\ DecidedByNominee)
                 /\ NeverReopened
<1>1. Warranted /\ [Ledger!Next]_(Ledger!vars) => Warranted'
  BY NextWarranted
<1>2. Warranted /\ [Ledger!Next]_(Ledger!vars) =>
        [\A r \in Reqs :
           req'[r].status = "pending_supervisor" =>
             req[r].status \in {"absent", "pending_supervisor"}]_vars
  BY NextWarranted DEF Statuses
<1>3. Warranted => DecisionOnRecord /\ DecidedByNominee
  <2> SUFFICES ASSUME Warranted PROVE DecisionOnRecord /\ DecidedByNominee
    OBVIOUS
  <2>1. \A r, d : OnFile(r, d) => HasDecision(r, d)
    BY DEF OnFile, Verdicts, HasDecision
  <2>2. DecisionOnRecord
    BY <2>1 DEF Warranted, Statuses, Undecided, Backing, DecisionOnRecord
  <2>3. ASSUME NEW a \in approvals
        PROVE  \/ a.approver \in {primary[a.req], AlternateOf[primary[a.req]]}
               \/ Role[a.approver] = "system_admin"
    <3> DEFINE v == [req |-> a.req, by |-> a.approver, action |-> a.action]
    <3>1. v \in Verdicts /\ v.req = a.req /\ v.by = a.approver
      BY Zenon DEF Verdicts
    <3>2. /\ a.req \in Reqs /\ Statuses[a.req] # "absent"
          /\ a.approver \in Nominees(a.req)
      BY <3>1 DEF Warranted
    <3>3. Firsts[a.req] = primary[a.req]
      BY <3>2 DEF Firsts, Statuses
    <3> QED
      BY <3>2, <3>3 DEF Nominees, Administrators
  <2> QED
    BY <2>2, <2>3 DEF DecidedByNominee
<1> QED
  BY <1>1, <1>2, <1>3, InitWarranted, PTL DEF KeepsLedger, Ledger!Spec, NeverReopened
=============================================================================
