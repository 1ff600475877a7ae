--------------------------- MODULE WorkflowProofs ---------------------------
(***************************************************************************)
(* Proofs about Workflow: approvals, the executions that cite them and the *)
(* incidents about those, for any number of requests of each.              *)
(***************************************************************************)
EXTENDS Workflow, ApprovalsProofs

\* Approval a was approved, for the agent, by a decision that is in the log.
WasApproved(a, agent) ==
    /\ ApprovalAgent[a] = agent
    /\ \E d \in Deciders : ApprovalEvent("approved", d, a) \in audit

MayCite(a, agent) == a # None => WasApproved(a, agent)

RecorderSteps == {"idle", "checked", "decided", "loaded", "amended", "audited",
                  "done", "refused", "failed", "torn"}

RecorderStates ==
    [pc : RecorderSteps, about : Recorders \cup {None},
     body : ExecutionBodies \cup Amendments \cup {None},
     effect : Effects \cup {None}, seen : ExecutionRows \cup {None}]

ExecutionsTypes ==
    /\ executions \in [Recorders -> ExecutionRows \cup {None}]
    /\ recorders \in [Recorders -> RecorderStates]
    /\ \A v \in executionTrail : v.by \in Recorders

(***************************************************************************)
(* What a request on executions holds at each of its steps.                *)
(***************************************************************************)
Creating(x) ==
    /\ recorders[x].about = x /\ recorders[x].body \in ExecutionBodies
    /\ MayCite(recorders[x].body.approval, recorders[x].body.agent)
    /\ executions[x] = None

Loaded(x) ==
    LET r == recorders[x]
    IN  /\ r.about \in Recorders \ {x} /\ executions[r.about] \in ExecutionRows
        /\ r.body \in Amendments /\ r.seen \in ExecutionRows
        /\ MayCite(r.body.approval, executions[r.about].agent)

RecorderHolds(x) ==
    LET r == recorders[x]
    IN  /\ r.pc \in {"checked", "decided"} => Creating(x)
        /\ r.pc = "decided" => r.effect \in Effects
        /\ r.pc = "loaded" => Loaded(x)
        /\ r.pc \in {"amended", "audited"} =>
              r.about \in Recorders \ {x} /\ executions[r.about] \in ExecutionRows
        /\ r.pc = "audited" => r.seen \in ExecutionRows
        /\ r.pc = "idle" => executions[x] = None

\* The log tells of status, as that of execution e.
Announced(status, e) ==
    status \in TerminalStatuses \cup {"running"} =>
        \E x \in Recorders : ExecutionEvent(status, x, e) \in executionTrail

\* Somebody will announce the status of e, or was cut off before that.
Announcing(e) ==
    \E x \in Recorders \ {e} :
        /\ recorders[x].about = e
        /\ \/ recorders[x].pc \in {"amended", "torn"}
           \/ recorders[x].pc = "audited" /\ recorders[x].seen.status = executions[e].status

RowHolds(e) ==
    /\ MayCite(executions[e].approval, executions[e].agent)
    /\ \/ executions[e].effect = "allow"
       \/ executions[e].effect = "block" /\ executions[e].status = "blocked"
       \/ executions[e].effect = "require_approval"
          /\ (executions[e].status = "requires_approval" \/ executions[e].approval # None)
       \/ Amending(e, {"amended", "audited", "torn", "done"})
    /\ Announced(executions[e].status, e) \/ Announcing(e)
    /\ executions[e].status \in TerminalStatuses => executions[e].completed

CreationsOnRecord ==
    \A x \in Recorders, action \in {"created", "evaluated"} :
        executions[x] # None <=> ExecutionEvent(action, x, x) \in executionTrail

ExecutionsInv ==
    /\ ExecutionsTypes /\ CreationsOnRecord
    /\ \A x \in Recorders : RecorderHolds(x)
    /\ \A e \in Rows : RowHolds(e)

(***************************************************************************)
(* What a request on incidents holds, and how status and date agree before *)
(* the second commit of a creation as well.                                *)
(***************************************************************************)
ReporterStates ==
    [pc : {"idle", "undated", "written", "loaded", "done", "failed", "torn"},
     about : Reporters \cup {None}, body : IncidentChanges \cup {None},
     seen : IncidentRows \cup {None}]

IncidentsTypes ==
    /\ incidents \in [Reporters -> IncidentRows \cup {None}]
    /\ reporters \in [Reporters -> ReporterStates]
    /\ disturbed \subseteq Reporters

ReporterHolds(y) ==
    LET r == reporters[y]
    IN  /\ r.pc = "loaded" =>
              /\ r.about \in Reporters /\ incidents[r.about] \in IncidentRows
              /\ r.body \in IncidentChanges /\ r.seen \in IncidentRows
              /\ Accepts(r.seen.status, r.body)
        /\ r.pc = "idle" => incidents[y] = None
        /\ r.pc = "undated" => incidents[y] \in IncidentRows

IncidentHolds(i) ==
    incidents[i] # None /\ i \notin disturbed =>
        /\ reporters[i].pc = "undated" => incidents[i].status \in ClosedIncident
        /\ reporters[i].pc \notin {"undated", "torn"} =>
              (incidents[i].status \in ClosedIncident <=> incidents[i].dated)

IncidentsInv ==
    IncidentsTypes /\ \A y \in Reporters : ReporterHolds(y) /\ IncidentHolds(y)

DecisionsInv == TypeInv /\ OrderInv /\ DecisionsAreAudited

WorkflowInv == DecisionsInv /\ ExecutionsInv /\ IncidentsInv

-----------------------------------------------------------------------------
(***************************************************************************)
(* The shape of a step: of one of the three APIs, or of an administrator.  *)
(***************************************************************************)
RecorderStep(x) ==
    \/ \E b \in ExecutionBodies : CheckExecution(x, b)
    \/ \E e \in Recorders, b \in Amendments : LoadExecution(x, e, b)
    \/ DecideExecution(x) \/ CommitExecution(x)
    \/ CommitAmendment(x) \/ AuditAmendment(x) \/ AuditState(x) \/ FailRecorder(x)

ReporterStep(y) ==
    \/ \E b \in IncidentBodies : CreateIncident(y, b)
    \/ \E i \in Reporters, b \in IncidentChanges : LoadIncident(y, i, b)
    \/ DateIncident(y) \/ CommitIncident(y) \/ AuditIncident(y) \/ FailReporter(y)

LEMMA WorkflowStepCases ==
    ASSUME [Next]_workflowVars
    PROVE  \/ /\ \E d \in Deciders : RequestStep(d)
              /\ UNCHANGED <<catalogVars, executionVars, incidentVars>>
           \/ /\ \E x \in Recorders : RecorderStep(x)
              /\ UNCHANGED <<catalogVars, audit, approvalVars, incidentVars>>
           \/ /\ \E y \in Reporters : ReporterStep(y)
              /\ UNCHANGED <<catalogVars, audit, approvalVars, executionVars>>
           \/ Administer /\ UNCHANGED <<audit, approvalVars, executionVars, incidentVars>>
           \/ UNCHANGED workflowVars
BY DEF Next, ApprovalsNext, RequestStep, ExecutionsNext, RecorderStep, IncidentsNext,
       ReporterStep

(***************************************************************************)
(* What holds of the approvals alone holds beside executions and incidents.*)
(***************************************************************************)
LEMMA DecisionsKept ==
    ASSUME DecisionsInv, [Next]_workflowVars
    PROVE  DecisionsInv' /\ audit \subseteq audit'
<1> USE DEF DecisionsInv, TypeInv, ApprovalsAloneTypeOK
<1>1. ASSUME NEW d \in Deciders, RequestStep(d), UNCHANGED catalogVars
      PROVE  DecisionsInv' /\ audit \subseteq audit'
  <2>1. CatalogTypeOK'
    BY <1>1 DEF catalogVars, CatalogTypeOK
  <2> QED BY <1>1, <2>1, RequestTypeKept, RequestStepWrites, RequestOrderKept,
             RequestAuditKept
<1>2. ASSUME CatalogTypeOK', UNCHANGED <<audit, approvalVars>>
      PROVE  DecisionsInv' /\ audit \subseteq audit'
  BY <1>2 DEF approvalVars, ApprovalsTypeOK, RequestsWellFormed, OrderInv,
              DecidedIsDecided, AfterIsAnswered, LateLoadImpossible, LateDecisionRefused,
              DecisionsAreAudited, Decided, Answered
<1>3. CASE Administer /\ UNCHANGED <<audit, approvalVars>>
  <2>1. CatalogTypeOK'
    BY <1>3, CatalogAssumption
       DEF Administer, SoftDeleteAgent, CreateRule, Change, CatalogTypeOK
  <2> QED BY <1>2, <1>3, <2>1
<1>4. CASE UNCHANGED <<catalogVars, audit, approvalVars>>
  <2>1. CatalogTypeOK'
    BY <1>4 DEF catalogVars, CatalogTypeOK
  <2> QED BY <1>2, <1>4, <2>1
<1> QED BY <1>1, <1>3, <1>4, WorkflowStepCases DEF workflowVars

-----------------------------------------------------------------------------
(***************************************************************************)
(* Where a request on executions goes when it ends.                        *)
(***************************************************************************)
LEMMA RecorderEndsAt ==
    ASSUME ExecutionsTypes, NEW x \in Recorders, NEW p \in RecorderSteps, RecorderEnds(x, p)
    PROVE  /\ recorders' \in [Recorders -> RecorderStates]
           /\ recorders'[x].pc = p /\ recorders'[x].about = recorders[x].about
           /\ \A w \in Recorders \ {x} : recorders'[w] = recorders[w]
<1> DEFINE next == [IdleRecorder EXCEPT !.pc = p, !.about = recorders[x].about]
<1>1. /\ next \in RecorderStates /\ next.pc = p /\ next.about = recorders[x].about
  BY DEF IdleRecorder, RecorderStates, ExecutionsTypes
<1>2. recorders' = [recorders EXCEPT ![x] = next]
  BY DEF RecorderEnds
<1> HIDE DEF next
<1> QED BY <1>1, <1>2 DEF ExecutionsTypes

\* A step from state to state of request x alone.
LEMMA RecorderGoesTo ==
    ASSUME ExecutionsTypes, NEW x \in Recorders, NEW next \in RecorderStates,
           recorders' = [recorders EXCEPT ![x] = next]
    PROVE  /\ recorders' \in [Recorders -> RecorderStates]
           /\ recorders'[x] = next
           /\ \A w \in Recorders \ {x} : recorders'[w] = recorders[w]
BY DEF ExecutionsTypes

(***************************************************************************)
(* What stays true of the other requests, and of the rows, over a step of  *)
(* request x: rows stay and keep their agent, the log grows.               *)
(***************************************************************************)
Onward(x) ==
    /\ recorders' \in [Recorders -> RecorderStates]
    /\ \A w \in Recorders \ {x} : recorders'[w] = recorders[w]
    /\ recorders[x].pc \in {"amended", "audited", "torn", "done"} =>
          /\ recorders'[x].about = recorders[x].about
          /\ recorders'[x].pc \in {"audited", "torn", "done"}

RowsStay ==
    \A e \in Recorders : executions[e] \in ExecutionRows =>
        executions'[e] \in ExecutionRows /\ executions'[e].agent = executions[e].agent

LEMMA OtherRecordersHold ==
    ASSUME NEW x \in Recorders, NEW w \in Recorders, recorders'[w] = recorders[w],
           RowsStay, audit \subseteq audit',
           executions[w] = None => executions'[w] = None, RecorderHolds(w)
    PROVE  RecorderHolds(w)'
<1> USE DEF RecorderHolds, RowsStay
<1>1. \A a, agent : MayCite(a, agent) => MayCite(a, agent)'
  BY DEF MayCite, WasApproved, ApprovalEvent
<1>2. Creating(w) => Creating(w)'
  BY <1>1 DEF Creating
<1>3. Loaded(w) => Loaded(w)'
  BY <1>1 DEF Loaded
<1> QED BY <1>2, <1>3

LEMMA RowKept ==
    ASSUME ExecutionsTypes, NEW x \in Recorders, Onward(x), NEW e \in Recorders,
           executions'[e] = executions[e], audit \subseteq audit',
           executionTrail \subseteq executionTrail', RowHolds(e),
           Announcing(e) => Announcing(e)' \/ Announced(executions[e].status, e)'
    PROVE  RowHolds(e)'
<1>1. MayCite(executions[e].approval, executions[e].agent)'
  BY DEF RowHolds, MayCite, WasApproved, ApprovalEvent
<1>2. Announced(executions[e].status, e) => Announced(executions[e].status, e)'
  BY DEF Announced, ExecutionEvent
<1>3. Amending(e, {"amended", "audited", "torn", "done"})
        => Amending(e, {"amended", "audited", "torn", "done"})'
  BY DEF Amending, Onward
<1> QED BY <1>1, <1>2, <1>3 DEF RowHolds

\* A step that changes no row and whose request announces no status.
LEMMA RowsKept ==
    ASSUME ExecutionsInv, NEW x \in Recorders, Onward(x), RecorderHolds(x)',
           UNCHANGED executions, audit \subseteq audit',
           executionTrail \subseteq executionTrail',
           \A v \in executionTrail' \ executionTrail :
              v.by \in Recorders /\ v.action \notin {"created", "evaluated"},
           \A e \in Rows : Announcing(e) => Announcing(e)' \/ Announced(executions[e].status, e)'
    PROVE  ExecutionsInv'
<1>1. ExecutionsTypes'
  BY DEF ExecutionsInv, ExecutionsTypes, Onward
<1>2. CreationsOnRecord'
  <2>1. ASSUME NEW w \in Recorders, NEW action \in {"created", "evaluated"}
        PROVE  ExecutionEvent(action, w, w) \in executionTrail'
                  <=> ExecutionEvent(action, w, w) \in executionTrail
    <3>1. ExecutionEvent(action, w, w).action = action
      BY DEF ExecutionEvent
    <3> QED BY <3>1
  <2>2. \A action, w : ExecutionEvent(action, w, w)' = ExecutionEvent(action, w, w)
    BY DEF ExecutionEvent
  <2> QED BY <2>1, <2>2 DEF ExecutionsInv, CreationsOnRecord
<1>3. ASSUME NEW w \in Recorders \ {x}
      PROVE  RecorderHolds(w)'
  BY OtherRecordersHold DEF ExecutionsInv, Onward, RowsStay
<1>4. ASSUME NEW e \in Rows'
      PROVE  RowHolds(e)'
  <2>1. e \in Rows /\ e \in Recorders
    BY DEF Rows
  <2> QED BY <2>1, RowKept DEF ExecutionsInv
<1> QED BY <1>1, <1>2, <1>3, <1>4 DEF ExecutionsInv

-----------------------------------------------------------------------------
(***************************************************************************)
(* The steps of a request on executions, one lemma for each.               *)
(***************************************************************************)
LEMMA CitedIsApproved ==
    ASSUME DecisionsInv, NEW a \in Approvals \cup {None}, NEW agent,
           a = None \/ ApprovalIsValid(a, agent)
    PROVE  MayCite(a, agent)
BY DEF DecisionsInv, DecisionsAreAudited, MayCite, WasApproved, ApprovalIsValid, Verdicts

\* What a request announced before it moves, it announces afterwards.
LEMMA AnnouncingKept ==
    ASSUME NEW x \in Recorders, UNCHANGED executions,
           \A w \in Recorders \ {x} : recorders'[w] = recorders[w],
           recorders[x].pc \notin {"amended", "audited", "torn"}
    PROVE  \A e : Announcing(e) => Announcing(e)'
BY DEF Announcing

LEMMA PassApprovalKept ==
    ASSUME ExecutionsInv, DecisionsInv, audit \subseteq audit', NEW x \in Recorders,
           recorders[x].pc = "idle", NEW a \in Approvals \cup {None},
           NEW agent \in Agents, NEW next \in RecorderStates,
           PassApproval(x, a, agent, next), UNCHANGED executions,
           recorders'[x] = next /\ MayCite(a, agent) => RecorderHolds(x)'
    PROVE  ExecutionsInv'
<1>1. /\ recorders' \in [Recorders -> RecorderStates]
      /\ (recorders'[x] = next /\ MayCite(a, agent)) \/ recorders'[x].pc = "refused"
      /\ \A w \in Recorders \ {x} : recorders'[w] = recorders[w]
  <2>1. CASE a = None \/ ApprovalIsValid(a, agent)
    BY <2>1, RecorderGoesTo, CitedIsApproved DEF PassApproval, ExecutionsInv
  <2>2. CASE ~(a = None \/ ApprovalIsValid(a, agent))
    <3>1. RecorderEnds(x, "refused") /\ "refused" \in RecorderSteps
      BY <2>2 DEF PassApproval, RecorderSteps
    <3> QED BY <3>1, RecorderEndsAt DEF ExecutionsInv
  <2> QED BY <2>1, <2>2
<1>2. RecorderHolds(x)'
  BY <1>1 DEF RecorderHolds
<1>3. /\ executionTrail \subseteq executionTrail'
      /\ \A v \in executionTrail' \ executionTrail : v.by = x /\ v.action = "denied"
  BY DEF PassApproval, ExecutionEvent
<1>4. Onward(x)
  BY <1>1 DEF Onward
<1> QED BY <1>1, <1>2, <1>3, <1>4, RowsKept, AnnouncingKept

LEMMA CheckExecutionKept ==
    ASSUME ExecutionsInv, DecisionsInv, audit \subseteq audit', NEW x \in Recorders,
           NEW b \in ExecutionBodies, CheckExecution(x, b)
    PROVE  ExecutionsInv'
<1> DEFINE next == [IdleRecorder EXCEPT !.pc = "checked", !.about = x, !.body = b]
<1>1. /\ next \in RecorderStates
      /\ next.pc = "checked" /\ next.about = x /\ next.body = b
  BY DEF IdleRecorder, RecorderStates, RecorderSteps
<1>2. /\ recorders[x].pc = "idle" /\ UNCHANGED executions
      /\ PassApproval(x, b.approval, b.agent, next)
  BY DEF CheckExecution
<1> HIDE DEF next
<1>3. b.approval \in Approvals \cup {None} /\ b.agent \in Agents
  BY ExecutionsAssumption
<1>4. executions[x] = None
  BY <1>2 DEF ExecutionsInv, RecorderHolds
<1>5. ASSUME recorders'[x] = next, MayCite(b.approval, b.agent)
      PROVE  RecorderHolds(x)'
  <2>1. MayCite(b.approval, b.agent)'
    BY <1>5 DEF MayCite, WasApproved, ApprovalEvent
  <2> QED BY <1>1, <1>2, <1>4, <1>5, <2>1 DEF RecorderHolds, Creating
<1> QED BY <1>1, <1>2, <1>3, <1>5, PassApprovalKept

LEMMA LoadExecutionKept ==
    ASSUME ExecutionsInv, DecisionsInv, audit \subseteq audit', NEW x \in Recorders,
           NEW e \in Recorders, NEW b \in Amendments, LoadExecution(x, e, b)
    PROVE  ExecutionsInv'
<1> DEFINE next == [IdleRecorder EXCEPT !.pc = "loaded", !.about = e, !.body = b,
                                        !.seen = executions[e]]
<1>1. /\ recorders[x].pc = "idle" /\ UNCHANGED executions
      /\ PassApproval(x, b.approval, executions[e].agent, next)
      /\ executions[e] # None
  BY DEF LoadExecution
<1>2. executions[e] \in ExecutionRows /\ executions[e].agent \in Agents
  BY <1>1 DEF ExecutionsInv, ExecutionsTypes, ExecutionRows
<1>3. /\ next \in RecorderStates
      /\ next.pc = "loaded" /\ next.about = e /\ next.body = b /\ next.seen = executions[e]
  BY <1>2 DEF IdleRecorder, RecorderStates, RecorderSteps
<1> HIDE DEF next
<1>4. b.approval \in Approvals \cup {None}
  BY ExecutionsAssumption
<1>5. e # x
  BY <1>1 DEF ExecutionsInv, RecorderHolds
<1>6. ASSUME recorders'[x] = next, MayCite(b.approval, executions[e].agent)
      PROVE  RecorderHolds(x)'
  <2>1. MayCite(b.approval, executions[e].agent)'
    BY <1>6, <1>1 DEF MayCite, WasApproved, ApprovalEvent
  <2> QED BY <1>1, <1>2, <1>3, <1>5, <1>6, <2>1 DEF RecorderHolds, Loaded
<1> QED BY <1>1, <1>2, <1>3, <1>4, <1>6, PassApprovalKept

\* The policy answers with an effect, whichever rule wins.
LEMMA DecisionsHaveEffects ==
    ASSUME CatalogTypeOK, NEW agent, NEW tool, NEW risk,
           NEW d \in Decisions(rules, agent, tool, risk) \cup {FailClosed}
    PROVE  d.effect \in Effects
<1>1. \A r \in MatchingRules(rules, agent, tool, risk) : r.effect \in Effects
  BY CatalogAssumption DEF CatalogTypeOK, MatchingRules
<1>2. BestRules(MatchingRules(rules, agent, tool, risk))
        \subseteq MatchingRules(rules, agent, tool, risk)
  BY DEF BestRules
<1>3. DefaultEffect(risk) \in Effects /\ FailClosed.effect \in Effects
  BY DEF DefaultEffect, FailClosed, Effects
<1> QED BY <1>1, <1>2, <1>3 DEF Decisions

LEMMA DecideExecutionKept ==
    ASSUME ExecutionsInv, DecisionsInv, audit \subseteq audit', NEW x \in Recorders,
           DecideExecution(x)
    PROVE  ExecutionsInv'
<1>1. recorders[x].pc = "checked" /\ UNCHANGED <<executions, executionTrail>>
  BY DEF DecideExecution
<1>2. PICK d \in Decisions(rules, recorders[x].body.agent, recorders[x].body.tool,
                           recorders[x].body.risk) \cup {FailClosed} :
         recorders' = [recorders EXCEPT ![x] =
                         [@ EXCEPT !.pc = "decided", !.effect = d.effect]]
  BY DEF DecideExecution
<1>3. d.effect \in Effects
  BY <1>2, DecisionsHaveEffects DEF DecisionsInv, TypeInv, ApprovalsAloneTypeOK
<1> DEFINE next == [recorders[x] EXCEPT !.pc = "decided", !.effect = d.effect]
<1>4. /\ next \in RecorderStates
      /\ next.pc = "decided" /\ next.effect = d.effect
      /\ next.about = recorders[x].about /\ next.body = recorders[x].body
  BY <1>3 DEF ExecutionsInv, ExecutionsTypes, RecorderStates, RecorderSteps
<1>5. recorders' = [recorders EXCEPT ![x] = next]
  BY <1>2 DEF ExecutionsInv, ExecutionsTypes
<1> HIDE DEF next
<1>6. /\ recorders' \in [Recorders -> RecorderStates] /\ recorders'[x] = next
      /\ \A w \in Recorders \ {x} : recorders'[w] = recorders[w]
  BY <1>4, <1>5, RecorderGoesTo DEF ExecutionsInv
<1>7. Creating(x) /\ Creating(x)'
  <2>1. Creating(x)
    BY <1>1 DEF ExecutionsInv, RecorderHolds
  <2>2. MayCite(recorders[x].body.approval, recorders[x].body.agent)'
    BY <2>1, <1>4, <1>6 DEF Creating, MayCite, WasApproved, ApprovalEvent
  <2> QED BY <2>1, <2>2, <1>1, <1>4, <1>6 DEF Creating
<1>8. RecorderHolds(x)'
  BY <1>3, <1>4, <1>6, <1>7 DEF RecorderHolds
<1>9. Onward(x)
  BY <1>1, <1>6 DEF Onward
<1> QED BY <1>1, <1>6, <1>8, <1>9, RowsKept, AnnouncingKept

LEMMA AuditAmendmentKept ==
    ASSUME ExecutionsInv, audit \subseteq audit', NEW x \in Recorders, AuditAmendment(x)
    PROVE  ExecutionsInv'
<1> DEFINE e == recorders[x].about
           next == [recorders[x] EXCEPT !.pc = "audited", !.seen = executions[e]]
<1>1. /\ recorders[x].pc = "amended" /\ UNCHANGED executions
      /\ executionTrail' = executionTrail \cup {ExecutionEvent("updated", x, e)}
      /\ recorders' = [recorders EXCEPT ![x] = next]
  BY DEF AuditAmendment, ExecutionsInv, ExecutionsTypes
<1>2. e \in Recorders \ {x} /\ executions[e] \in ExecutionRows
  BY <1>1 DEF ExecutionsInv, RecorderHolds
<1>3. /\ next \in RecorderStates
      /\ next.pc = "audited" /\ next.seen = executions[e] /\ next.about = e
  BY <1>2 DEF ExecutionsInv, ExecutionsTypes, RecorderStates, RecorderSteps
<1> HIDE DEF next
<1>4. /\ recorders' \in [Recorders -> RecorderStates] /\ recorders'[x] = next
      /\ \A w \in Recorders \ {x} : recorders'[w] = recorders[w]
  BY <1>1, <1>3, RecorderGoesTo DEF ExecutionsInv
<1>5. RecorderHolds(x)'
  BY <1>1, <1>2, <1>3, <1>4 DEF RecorderHolds
<1>6. Onward(x)
  BY <1>3, <1>4 DEF Onward
<1>7. \A f \in Rows : Announcing(f) => Announcing(f)'
  BY <1>1, <1>2, <1>3, <1>4 DEF Announcing
<1>8. \A v \in executionTrail' \ executionTrail : v.by = x /\ v.action = "updated"
  BY <1>1 DEF ExecutionEvent
<1> QED BY <1>1, <1>5, <1>6, <1>7, <1>8, RowsKept

LEMMA AuditStateKept ==
    ASSUME ExecutionsInv, audit \subseteq audit', NEW x \in Recorders, AuditState(x)
    PROVE  ExecutionsInv'
<1> DEFINE e == recorders[x].about
           status == recorders[x].seen.status
<1>1. /\ recorders[x].pc = "audited" /\ UNCHANGED executions
      /\ executionTrail' = executionTrail \cup StateEvents(status, x, e)
      /\ RecorderEnds(x, "done")
  BY DEF AuditState
<1>2. /\ recorders' \in [Recorders -> RecorderStates]
      /\ recorders'[x].pc = "done" /\ recorders'[x].about = e
      /\ \A w \in Recorders \ {x} : recorders'[w] = recorders[w]
  <2>1. "done" \in RecorderSteps
    BY DEF RecorderSteps
  <2> QED BY <2>1, <1>1, RecorderEndsAt DEF ExecutionsInv
<1>3. RecorderHolds(x)'
  BY <1>2 DEF RecorderHolds
<1>4. Onward(x)
  BY <1>2 DEF Onward
<1>5. status \in TerminalStatuses \cup {"running"} =>
         ExecutionEvent(status, x, e) \in executionTrail'
  BY <1>1 DEF StateEvents
<1>6. ASSUME NEW f \in Rows, Announcing(f)
      PROVE  Announcing(f)' \/ Announced(executions[f].status, f)'
  <2>1. PICK w \in Recorders \ {f} :
           /\ recorders[w].about = f
           /\ \/ recorders[w].pc \in {"amended", "torn"}
              \/ recorders[w].pc = "audited" /\ recorders[w].seen.status = executions[f].status
    BY <1>6 DEF Announcing
  <2>2. CASE w = x
    <3>1. status = executions[f].status /\ e = f
      BY <2>1, <2>2, <1>1
    <3>2. executions[f].status \in TerminalStatuses \cup {"running"} =>
             ExecutionEvent(executions[f].status, x, f) \in executionTrail'
      BY <3>1, <1>5
    <3> QED BY <3>2, <1>1 DEF Announced, ExecutionEvent
  <2>3. CASE w # x
    BY <2>1, <2>3, <1>1, <1>2 DEF Announcing
  <2> QED BY <2>2, <2>3
<1>7. \A v \in executionTrail' \ executionTrail :
         v.by = x /\ v.action \in TerminalStatuses \cup {"running"}
  BY <1>1 DEF StateEvents, ExecutionEvent
<1>8. \A v \in executionTrail' \ executionTrail : v.action \notin {"created", "evaluated"}
  BY <1>7 DEF TerminalStatuses
<1> QED BY <1>1, <1>3, <1>4, <1>6, <1>7, <1>8, RowsKept

LEMMA FailRecorderKept ==
    ASSUME ExecutionsInv, audit \subseteq audit', NEW x \in Recorders, FailRecorder(x)
    PROVE  ExecutionsInv'
<1>1. PICK p \in {"failed", "torn"} :
         /\ RecorderEnds(x, p) /\ UNCHANGED <<executions, executionTrail>>
         /\ p = "failed" => recorders[x].pc \in {"checked", "decided", "loaded"}
         /\ p = "torn" => recorders[x].pc \in {"amended", "audited"}
  BY DEF FailRecorder
<1>2. /\ recorders' \in [Recorders -> RecorderStates]
      /\ recorders'[x].pc = p /\ recorders'[x].about = recorders[x].about
      /\ \A w \in Recorders \ {x} : recorders'[w] = recorders[w]
  <2>1. p \in RecorderSteps
    BY DEF RecorderSteps
  <2> QED BY <2>1, <1>1, RecorderEndsAt DEF ExecutionsInv
<1>3. RecorderHolds(x)'
  BY <1>2 DEF RecorderHolds
<1>4. Onward(x)
  BY <1>1, <1>2 DEF Onward
<1>5. \A f \in Rows : Announcing(f) => Announcing(f)'
  BY <1>1, <1>2 DEF Announcing
<1> QED BY <1>1, <1>3, <1>4, <1>5, RowsKept

(***************************************************************************)
(* The commit of a creation: a new row, as the policy would have it, and   *)
(* the log of it.                                                          *)
(***************************************************************************)
LEMMA CommitExecutionKept ==
    ASSUME ExecutionsInv, audit \subseteq audit', NEW x \in Recorders, CommitExecution(x)
    PROVE  ExecutionsInv'
<1> DEFINE b == recorders[x].body
           effect == recorders[x].effect
           status == StatusOnCreation(b, effect)
           row == [agent |-> b.agent, status |-> status, approval |-> b.approval,
                   effect |-> effect, completed |-> status \in TerminalStatuses]
<1>1. /\ recorders[x].pc = "decided"
      /\ executions' = [executions EXCEPT ![x] = row]
      /\ executionTrail' = executionTrail \cup StateEvents(status, x, x) \cup
            {ExecutionEvent("evaluated", x, x), ExecutionEvent("created", x, x)}
      /\ RecorderEnds(x, "done")
  BY DEF CommitExecution
<1>2. Creating(x) /\ effect \in Effects
  BY <1>1 DEF ExecutionsInv, RecorderHolds
<1>3. /\ b.agent \in Agents /\ b.approval \in Approvals \cup {None}
      /\ b.status \in StatusesOfExecutions \cup {None}
  BY <1>2, ExecutionsAssumption DEF Creating
<1>4. status \in StatusesOfExecutions
  BY <1>3 DEF StatusOnCreation, StatusesOfExecutions
<1>5. /\ row \in ExecutionRows
      /\ row.agent = b.agent /\ row.status = status /\ row.approval = b.approval
      /\ row.effect = effect /\ row.completed = (status \in TerminalStatuses)
  BY <1>2, <1>3, <1>4 DEF ExecutionRows
<1>6. /\ effect = "block" => status = "blocked"
      /\ effect = "require_approval" => status = "requires_approval" \/ b.approval # None
  BY DEF StatusOnCreation
<1>7. /\ status \in TerminalStatuses \cup {"running"} =>
            ExecutionEvent(status, x, x) \in executionTrail'
      /\ executionTrail \subseteq executionTrail'
      /\ ExecutionEvent("evaluated", x, x) \in executionTrail'
      /\ ExecutionEvent("created", x, x) \in executionTrail'
      /\ \A v \in executionTrail' \ executionTrail : v.by = x /\ v.about = x
  BY <1>1 DEF StateEvents, ExecutionEvent
<1> HIDE DEF row, status
<1>8. /\ executions[x] = None /\ executions'[x] = row
      /\ \A e \in Recorders \ {x} : executions'[e] = executions[e]
      /\ executions' \in [Recorders -> ExecutionRows \cup {None}]
  BY <1>1, <1>2, <1>5 DEF Creating, ExecutionsInv, ExecutionsTypes
<1>9. /\ recorders' \in [Recorders -> RecorderStates]
      /\ recorders'[x].pc = "done" /\ recorders'[x].about = recorders[x].about
      /\ \A w \in Recorders \ {x} : recorders'[w] = recorders[w]
  <2>1. "done" \in RecorderSteps
    BY DEF RecorderSteps
  <2> QED BY <2>1, <1>1, RecorderEndsAt DEF ExecutionsInv
<1>10. Onward(x)
  BY <1>1, <1>9 DEF Onward
<1>11. row # None /\ None \notin ExecutionRows
  BY <1>5, ExecutionsAssumption
<1>12. RowsStay
  BY <1>8, <1>11 DEF RowsStay
<1>13. ExecutionsTypes'
  BY <1>7, <1>8, <1>9 DEF ExecutionsInv, ExecutionsTypes
<1>14. CreationsOnRecord'
  <2>1. \A action, w : ExecutionEvent(action, w, w)' = ExecutionEvent(action, w, w)
    BY DEF ExecutionEvent
  <2>2. ASSUME NEW w \in Recorders \ {x}, NEW action \in {"created", "evaluated"}
        PROVE  ExecutionEvent(action, w, w) \in executionTrail'
                  <=> ExecutionEvent(action, w, w) \in executionTrail
    <3>1. ExecutionEvent(action, w, w).by = w
      BY DEF ExecutionEvent
    <3> QED BY <3>1, <1>7
  <2> QED BY <2>1, <2>2, <1>7, <1>8, <1>11 DEF ExecutionsInv, CreationsOnRecord
<1>15. ASSUME NEW w \in Recorders
       PROVE  RecorderHolds(w)'
  <2>1. CASE w = x
    BY <2>1, <1>9 DEF RecorderHolds
  <2>2. CASE w # x
    BY <2>2, <1>8, <1>9, <1>12, OtherRecordersHold DEF ExecutionsInv
  <2> QED BY <2>1, <2>2
<1>16. ASSUME NEW e \in Rows'
       PROVE  RowHolds(e)'
  <2>1. CASE e = x
    <3>1. MayCite(b.approval, b.agent)
      BY <1>2 DEF Creating
    <3>2. MayCite(executions[x].approval, executions[x].agent)'
      <4>1. executions'[x].approval = b.approval /\ executions'[x].agent = b.agent
        BY <1>5, <1>8
      <4> HIDE DEF b
      <4> QED BY <3>1, <4>1 DEF MayCite, WasApproved, ApprovalEvent
    <3>3. Announced(executions[x].status, x)'
      <4>1. executions'[x].status = status
        BY <1>5, <1>8
      <4> QED BY <4>1, <1>7 DEF Announced, ExecutionEvent
    <3> QED BY <2>1, <3>2, <3>3, <1>2, <1>5, <1>6, <1>8 DEF RowHolds, Effects
  <2>2. CASE e # x
    <3>1. e \in Recorders /\ e \in Rows /\ executions'[e] = executions[e]
      BY <2>2, <1>8 DEF Rows
    <3>2. Announcing(e) => Announcing(e)'
      BY <3>1, <1>1, <1>9 DEF Announcing
    <3> QED BY <3>1, <3>2, <1>7, <1>10, RowKept DEF ExecutionsInv
  <2> QED BY <2>1, <2>2
<1> QED BY <1>13, <1>14, <1>15, <1>16 DEF ExecutionsInv

(***************************************************************************)
(* The commit of an amendment: what differs from the row it loaded is      *)
(* written over the row as it has become, which may no longer be what the  *)
(* policy would have nor what the log was told.                            *)
(***************************************************************************)
LEMMA AmendedRow ==
    ASSUME NEW row \in ExecutionRows, NEW seen \in ExecutionRows, NEW b \in Amendments
    PROVE  /\ Amended(row, seen, b) \in ExecutionRows
           /\ Amended(row, seen, b).agent = row.agent
           /\ Amended(row, seen, b).approval \in {row.approval, b.approval}
           /\ (row.status \in TerminalStatuses => row.completed) =>
                 (Amended(row, seen, b).status \in TerminalStatuses
                     => Amended(row, seen, b).completed)
<1>1. /\ b.status \in StatusesOfExecutions \cup {None} /\ b.approval \in Approvals \cup {None}
      /\ b.uncite => b.approval = None
  BY ExecutionsAssumption
<1> DEFINE cited == IF b.uncite /\ seen.approval # None THEN None
                    ELSE NetChange(row.approval, seen.approval, b.approval)
<1>2. /\ NetChange(row.status, seen.status, b.status) \in StatusesOfExecutions
      /\ NetChange(row.status, seen.status, b.status) \in {row.status, b.status}
      /\ cited \in Approvals \cup {None}
      /\ cited \in {row.approval, b.approval}
  BY <1>1 DEF NetChange, ExecutionRows
<1> DEFINE done == row.completed \/ b.status \in TerminalStatuses
           status == NetChange(row.status, seen.status, b.status)
           approval == cited
           next == [row EXCEPT !.status = status, !.approval = approval, !.completed = done]
<1>3. Amended(row, seen, b) = next
  BY DEF Amended
<1>4. done \in BOOLEAN
  OBVIOUS
<1>5. status \in TerminalStatuses => done \/ row.status \in TerminalStatuses
  BY <1>2
<1> HIDE DEF done, status, approval
<1>6. /\ next \in ExecutionRows
      /\ next.agent = row.agent /\ next.status = status /\ next.approval = approval
      /\ next.completed = done
  BY <1>2, <1>4 DEF ExecutionRows, status, approval
<1>7. row.completed => done
  BY DEF done
<1> QED BY <1>2, <1>3, <1>5, <1>6, <1>7 DEF status, approval

LEMMA CommitAmendmentKept ==
    ASSUME ExecutionsInv, audit \subseteq audit', NEW x \in Recorders, CommitAmendment(x)
    PROVE  ExecutionsInv'
<1> DEFINE r == recorders[x]
           next == [recorders[x] EXCEPT !.pc = "amended"]
<1> PICK f : f = recorders[x].about
  OBVIOUS
<1> DEFINE row == Amended(executions[f], r.seen, r.body)
<1>1. /\ r.pc = "loaded" /\ UNCHANGED executionTrail
      /\ executions' = [executions EXCEPT ![f] = row]
      /\ recorders' = [recorders EXCEPT ![x] = next]
  BY DEF CommitAmendment, RecorderMoves, ExecutionsInv, ExecutionsTypes
<1>2. Loaded(x)
  BY <1>1 DEF ExecutionsInv, RecorderHolds
<1>3. f \in Recorders \ {x} /\ executions[f] \in ExecutionRows /\ f \in Rows
  BY <1>2, ExecutionsAssumption DEF Loaded, Rows
<1>4. /\ row \in ExecutionRows /\ row.agent = executions[f].agent
      /\ row.approval \in {executions[f].approval, r.body.approval}
      /\ row.status \in TerminalStatuses => row.completed
  BY <1>2, <1>3, AmendedRow DEF Loaded, ExecutionsInv, RowHolds
<1>5. /\ next \in RecorderStates /\ next.pc = "amended" /\ next.about = f
  BY <1>1 DEF ExecutionsInv, ExecutionsTypes, RecorderStates, RecorderSteps
<1>6. MayCite(row.approval, row.agent)
  BY <1>2, <1>3, <1>4 DEF Loaded, ExecutionsInv, RowHolds
<1> HIDE DEF row, next
<1>7. /\ recorders' \in [Recorders -> RecorderStates] /\ recorders'[x] = next
      /\ \A w \in Recorders \ {x} : recorders'[w] = recorders[w]
  BY <1>1, <1>5, RecorderGoesTo DEF ExecutionsInv
<1>8. /\ executions'[f] = row
      /\ \A e \in Recorders \ {f} : executions'[e] = executions[e]
      /\ executions' \in [Recorders -> ExecutionRows \cup {None}]
      /\ executions[f] # None /\ row # None
  BY <1>1, <1>3, <1>4, ExecutionsAssumption DEF ExecutionsInv, ExecutionsTypes
<1>9. Onward(x)
  BY <1>1, <1>7 DEF Onward
<1>10. RowsStay
  BY <1>3, <1>4, <1>8 DEF RowsStay
<1>11. ExecutionsTypes'
  BY <1>1, <1>7, <1>8 DEF ExecutionsInv, ExecutionsTypes
<1>12. CreationsOnRecord'
  <2>1. \A action, w : ExecutionEvent(action, w, w)' = ExecutionEvent(action, w, w)
    BY DEF ExecutionEvent
  <2> QED BY <2>1, <1>1, <1>8 DEF ExecutionsInv, CreationsOnRecord
<1>13. ASSUME NEW w \in Recorders
       PROVE  RecorderHolds(w)'
  <2>1. CASE w = x
    BY <2>1, <1>3, <1>4, <1>5, <1>7, <1>8 DEF RecorderHolds
  <2>2. CASE w # x
    BY <2>2, <1>7, <1>8, <1>10, OtherRecordersHold DEF ExecutionsInv
  <2> QED BY <2>1, <2>2
<1>14. ASSUME NEW e \in Rows'
       PROVE  RowHolds(e)'
  <2>1. CASE e = f
    <3>1. MayCite(executions[f].approval, executions[f].agent)'
      BY <1>6, <1>8 DEF MayCite, WasApproved, ApprovalEvent
    <3>2. /\ Amending(f, {"amended", "audited", "torn", "done"})'
          /\ Announcing(f)'
      BY <1>3, <1>5, <1>7 DEF Amending, Announcing
    <3> QED BY <2>1, <3>1, <3>2, <1>4, <1>8 DEF RowHolds
  <2>2. CASE e # f
    <3>1. e \in Recorders /\ e \in Rows /\ executions'[e] = executions[e]
      BY <2>2, <1>8 DEF Rows
    <3>2. Announcing(e) => Announcing(e)'
      BY <3>1, <1>1, <1>7 DEF Announcing
    <3> QED BY <3>1, <3>2, <1>1, <1>9, RowKept DEF ExecutionsInv
  <2> QED BY <2>1, <2>2
<1> QED BY <1>11, <1>12, <1>13, <1>14 DEF ExecutionsInv

\* A step that leaves the executions alone; the log of decisions grows.
LEMMA ExecutionsAlone ==
    ASSUME ExecutionsInv, UNCHANGED executionVars, audit \subseteq audit'
    PROVE  ExecutionsInv'
<1> USE DEF executionVars
<1>1. ExecutionsTypes' /\ CreationsOnRecord'
  BY DEF ExecutionsInv, ExecutionsTypes, CreationsOnRecord, ExecutionEvent
<1>2. ASSUME NEW w \in Recorders
      PROVE  RecorderHolds(w)'
  BY OtherRecordersHold DEF ExecutionsInv, RowsStay
<1>3. ASSUME NEW e \in Rows'
      PROVE  RowHolds(e)'
  <2>1. e \in Rows /\ RowHolds(e)
    BY DEF Rows, ExecutionsInv
  <2>2. MayCite(executions[e].approval, executions[e].agent)'
    BY <2>1 DEF RowHolds, MayCite, WasApproved, ApprovalEvent
  <2> QED BY <2>1, <2>2 DEF RowHolds, Amending, Announced, Announcing, ExecutionEvent
<1> QED BY <1>1, <1>2, <1>3 DEF ExecutionsInv

LEMMA ExecutionsKept ==
    ASSUME DecisionsInv, ExecutionsInv, [Next]_workflowVars
    PROVE  ExecutionsInv'
<1>1. audit \subseteq audit'
  BY DecisionsKept
<1>2. ASSUME NEW x \in Recorders, RecorderStep(x)
      PROVE  ExecutionsInv'
  BY <1>1, <1>2, CheckExecutionKept, LoadExecutionKept, DecideExecutionKept,
     CommitExecutionKept, CommitAmendmentKept, AuditAmendmentKept, AuditStateKept,
     FailRecorderKept DEF RecorderStep
<1>3. CASE UNCHANGED executionVars
  BY <1>1, <1>3, ExecutionsAlone
<1> QED BY <1>2, <1>3, WorkflowStepCases DEF workflowVars

-----------------------------------------------------------------------------
(***************************************************************************)
(* The steps of a request on incidents: each keeps what requests hold, and *)
(* none reopens a closed incident it has not seen change.                  *)
(***************************************************************************)
NoReopening ==
    \A i \in Reporters :
        /\ incidents[i] # None /\ incidents[i].status \in ClosedIncident
        /\ incidents'[i].status # incidents[i].status
        => i \in disturbed'

\* A step of request y that leaves every row as it is.
LEMMA IncidentRowsStay ==
    ASSUME IncidentsInv, NEW y \in Reporters, NEW next \in ReporterStates,
           UNCHANGED <<incidents, disturbed>>,
           reporters' = [reporters EXCEPT ![y] = next], next.pc # "idle",
           next.pc = "undated" => reporters[y].pc = "undated",
           next.pc \notin {"undated", "torn"} =>
              reporters[y].pc \notin {"undated", "torn"},
           next.pc = "loaded" => /\ next.about \in Reporters
                                 /\ incidents[next.about] \in IncidentRows
                                 /\ next.body \in IncidentChanges
                                 /\ next.seen \in IncidentRows
                                 /\ Accepts(next.seen.status, next.body)
    PROVE  IncidentsInv' /\ NoReopening
<1>1. /\ reporters' \in [Reporters -> ReporterStates] /\ reporters'[y] = next
      /\ \A w \in Reporters \ {y} : reporters'[w] = reporters[w]
  BY DEF IncidentsInv, IncidentsTypes
<1>2. IncidentsTypes' /\ NoReopening
  BY <1>1 DEF IncidentsInv, IncidentsTypes, NoReopening
<1>3. ASSUME NEW w \in Reporters
      PROVE  (ReporterHolds(w) /\ IncidentHolds(w))'
  <2>1. CASE w = y
    BY <1>1, <2>1 DEF IncidentsInv, ReporterHolds, IncidentHolds, Accepts
  <2>2. CASE w # y
    BY <1>1, <2>2 DEF IncidentsInv, ReporterHolds, IncidentHolds, Accepts
  <2> QED BY <2>1, <2>2
<1> QED BY <1>2, <1>3 DEF IncidentsInv

LEMMA CreateIncidentKept ==
    ASSUME IncidentsInv, NEW y \in Reporters, NEW b \in IncidentBodies, CreateIncident(y, b)
    PROVE  IncidentsInv' /\ NoReopening
<1> DEFINE row == [agent |-> b.agent, execution |-> b.execution, status |-> b.status,
                   noted |-> b.noted, dated |-> FALSE]
           next == [IdleReporter EXCEPT !.pc = IF b.status \in ClosedIncident
                                               THEN "undated" ELSE "written",
                                        !.about = y]
<1>1. /\ reporters[y].pc = "idle" /\ UNCHANGED disturbed
      /\ incidents' = [incidents EXCEPT ![y] = row]
      /\ reporters' = [reporters EXCEPT ![y] = next]
  BY DEF CreateIncident
<1>2. /\ row \in IncidentRows /\ row.status = b.status /\ row.dated = FALSE
  BY IncidentsAssumption DEF IncidentRows
<1>3. /\ next \in ReporterStates
      /\ next.pc = IF b.status \in ClosedIncident THEN "undated" ELSE "written"
  BY DEF IdleReporter, ReporterStates
<1> HIDE DEF row, next
<1>4. /\ reporters' \in [Reporters -> ReporterStates] /\ reporters'[y] = next
      /\ \A w \in Reporters \ {y} : reporters'[w] = reporters[w]
      /\ incidents' \in [Reporters -> IncidentRows \cup {None}] /\ incidents'[y] = row
      /\ \A w \in Reporters \ {y} : incidents'[w] = incidents[w]
  BY <1>1, <1>2, <1>3 DEF IncidentsInv, IncidentsTypes
<1>5. incidents[y] = None
  BY <1>1 DEF IncidentsInv, ReporterHolds
<1>6. IncidentsTypes' /\ NoReopening
  BY <1>1, <1>4, <1>5 DEF IncidentsInv, IncidentsTypes, NoReopening
<1>7. ASSUME NEW w \in Reporters
      PROVE  (ReporterHolds(w) /\ IncidentHolds(w))'
  <2>1. CASE w = y
    BY <1>1, <1>2, <1>3, <1>4, <2>1 DEF ReporterHolds, IncidentHolds
  <2>2. CASE w # y
    BY <1>1, <1>2, <1>4, <2>2 DEF IncidentsInv, ReporterHolds, IncidentHolds, Accepts
  <2> QED BY <2>1, <2>2
<1> QED BY <1>6, <1>7 DEF IncidentsInv

LEMMA LoadIncidentKept ==
    ASSUME IncidentsInv, NEW y \in Reporters, NEW i \in Reporters,
           NEW b \in IncidentChanges, LoadIncident(y, i, b)
    PROVE  IncidentsInv' /\ NoReopening
<1> DEFINE next == [pc |-> "loaded", about |-> i, body |-> b, seen |-> incidents[i]]
<1>1. /\ reporters[y].pc = "idle" /\ UNCHANGED <<incidents, disturbed>>
      /\ reporters' = [reporters EXCEPT ![y] = next]
      /\ incidents[i] \in IncidentRows /\ Accepts(incidents[i].status, b)
  BY DEF LoadIncident, IncidentsInv, IncidentsTypes
<1>2. /\ next \in ReporterStates /\ next.pc = "loaded" /\ next.about = i
      /\ next.body = b /\ next.seen = incidents[i]
  BY <1>1 DEF ReporterStates
<1> HIDE DEF next
<1> QED BY <1>1, <1>2, IncidentRowsStay

LEMMA DateIncidentKept ==
    ASSUME IncidentsInv, NEW y \in Reporters, DateIncident(y)
    PROVE  IncidentsInv' /\ NoReopening
<1> DEFINE row == [incidents[y] EXCEPT !.dated = TRUE]
           next == [reporters[y] EXCEPT !.pc = "written"]
<1>1. /\ reporters[y].pc = "undated" /\ UNCHANGED disturbed
      /\ incidents' = [incidents EXCEPT ![y] = row]
      /\ reporters' = [reporters EXCEPT ![y] = next]
  BY DEF DateIncident, ReporterMoves, IncidentsInv, IncidentsTypes
<1>2. incidents[y] \in IncidentRows /\ incidents[y] # None
  BY <1>1, IncidentsAssumption DEF IncidentsInv, ReporterHolds
<1>3. /\ row \in IncidentRows /\ row.status = incidents[y].status /\ row.dated = TRUE
      /\ next \in ReporterStates /\ next.pc = "written"
  BY <1>2 DEF IncidentRows, IncidentsInv, IncidentsTypes, ReporterStates
<1> HIDE DEF row, next
<1>4. /\ reporters' \in [Reporters -> ReporterStates] /\ reporters'[y] = next
      /\ \A w \in Reporters \ {y} : reporters'[w] = reporters[w]
      /\ incidents' \in [Reporters -> IncidentRows \cup {None}] /\ incidents'[y] = row
      /\ \A w \in Reporters \ {y} : incidents'[w] = incidents[w]
  BY <1>1, <1>3 DEF IncidentsInv, IncidentsTypes
<1>5. IncidentsTypes' /\ NoReopening
  BY <1>1, <1>3, <1>4 DEF IncidentsInv, IncidentsTypes, NoReopening
<1>6. ASSUME NEW w \in Reporters
      PROVE  (ReporterHolds(w) /\ IncidentHolds(w))'
  <2>1. CASE w = y
    BY <1>1, <1>2, <1>3, <1>4, <2>1 DEF IncidentsInv, ReporterHolds, IncidentHolds
  <2>2. CASE w # y
    BY <1>1, <1>3, <1>4, <2>2 DEF IncidentsInv, ReporterHolds, IncidentHolds, Accepts
  <2> QED BY <2>1, <2>2
<1> QED BY <1>5, <1>6 DEF IncidentsInv

(***************************************************************************)
(* A change that its request's checks accept, made to the row they were    *)
(* made on: a closed row keeps its status, and status and date go together.*)
(***************************************************************************)
LEMMA ChangedRow ==
    ASSUME NEW row \in IncidentRows, NEW seen \in IncidentRows, NEW b \in IncidentChanges,
           Accepts(seen.status, b)
    PROVE  /\ ChangedIncident(row, seen, b) \in IncidentRows
           /\ row = seen =>
                 /\ row.status \in ClosedIncident =>
                       ChangedIncident(row, seen, b).status = row.status
                 /\ (row.status \in ClosedIncident <=> row.dated) =>
                       (ChangedIncident(row, seen, b).status \in ClosedIncident
                           <=> ChangedIncident(row, seen, b).dated)
<1> DEFINE status == NetChange(row.status, seen.status, b.status)
           noted == NetChange(row.noted, seen.noted, b.noted)
           dated == row.dated \/ b.status \in ClosedIncident
           next == [row EXCEPT !.status = status, !.noted = noted, !.dated = dated]
<1>1. ChangedIncident(row, seen, b) = next
  BY DEF ChangedIncident
<1>2. /\ b.status \in ActiveIncident \cup ClosedIncident \cup {None}
      /\ b.noted \in BOOLEAN \cup {None}
  BY IncidentsAssumption
<1>3. /\ row.status \in ActiveIncident \cup ClosedIncident
      /\ row.noted \in BOOLEAN /\ row.dated \in BOOLEAN
  BY DEF IncidentRows
<1>4. status \in ActiveIncident \cup ClosedIncident /\ dated \in BOOLEAN
  BY <1>2, <1>3 DEF NetChange
<1>5. noted \in BOOLEAN
  BY <1>2, <1>3 DEF NetChange
<1>6. ASSUME row = seen, row.status \in ClosedIncident
      PROVE  status = row.status /\ b.status \notin ClosedIncident
  BY <1>2, <1>6 DEF Accepts, NetChange, ActiveIncident, ClosedIncident
<1>7. ASSUME row = seen, row.status \notin ClosedIncident
      PROVE  status \in ClosedIncident <=> b.status \in ClosedIncident
  BY <1>2, <1>7, IncidentsAssumption DEF NetChange
<1>8. dated <=> row.dated \/ b.status \in ClosedIncident
  OBVIOUS
<1> HIDE DEF status, noted, dated
<1>9. /\ next \in IncidentRows /\ next.status = status /\ next.dated = dated
  BY <1>4, <1>5 DEF IncidentRows
<1> HIDE DEF next
<1>10. ASSUME row = seen, row.status \in ClosedIncident <=> row.dated
       PROVE  next.status \in ClosedIncident <=> next.dated
  <2>1. CASE row.status \in ClosedIncident
    BY <1>3, <1>4, <1>6, <1>8, <1>9, <1>10, <2>1
  <2>2. CASE row.status \notin ClosedIncident
    BY <1>3, <1>4, <1>7, <1>8, <1>9, <1>10, <2>2
  <2> QED BY <2>1, <2>2
<1> QED BY <1>1, <1>6, <1>9, <1>10

LEMMA CommitIncidentKept ==
    ASSUME IncidentsInv, NEW y \in Reporters, CommitIncident(y)
    PROVE  IncidentsInv' /\ NoReopening
<1> PICK f : f = reporters[y].about
  OBVIOUS
<1> DEFINE r == reporters[y]
           row == ChangedIncident(incidents[f], r.seen, r.body)
           next == [reporters[y] EXCEPT !.pc = "written"]
<1>1. /\ r.pc = "loaded"
      /\ incidents' = [incidents EXCEPT ![f] = row]
      /\ disturbed' = disturbed \cup (IF incidents[f] = r.seen THEN {} ELSE {f})
      /\ reporters' = [reporters EXCEPT ![y] = next]
  BY DEF CommitIncident, ReporterMoves, IncidentsInv, IncidentsTypes
<1>2. /\ f \in Reporters /\ incidents[f] \in IncidentRows
      /\ r.body \in IncidentChanges /\ r.seen \in IncidentRows
      /\ Accepts(r.seen.status, r.body)
  BY <1>1 DEF IncidentsInv, ReporterHolds
<1>3. /\ row \in IncidentRows
      /\ incidents[f] = r.seen =>
            /\ incidents[f].status \in ClosedIncident => row.status = incidents[f].status
            /\ (incidents[f].status \in ClosedIncident <=> incidents[f].dated) =>
                  (row.status \in ClosedIncident <=> row.dated)
  BY <1>2, ChangedRow
<1>4. next \in ReporterStates /\ next.pc = "written"
  BY DEF IncidentsInv, IncidentsTypes, ReporterStates
<1> HIDE DEF row, next
<1>5. /\ reporters' \in [Reporters -> ReporterStates] /\ reporters'[y] = next
      /\ \A w \in Reporters \ {y} : reporters'[w] = reporters[w]
      /\ incidents' \in [Reporters -> IncidentRows \cup {None}] /\ incidents'[f] = row
      /\ \A w \in Reporters \ {f} : incidents'[w] = incidents[w]
  BY <1>1, <1>2, <1>3, <1>4 DEF IncidentsInv, IncidentsTypes
<1>6. /\ disturbed \subseteq disturbed' /\ disturbed' \subseteq Reporters
      /\ f \notin disturbed' => f \notin disturbed /\ incidents[f] = r.seen
  BY <1>1, <1>2 DEF IncidentsInv, IncidentsTypes
<1>7. incidents[f] # None /\ reporters[f].pc # "idle"
  BY <1>2, IncidentsAssumption DEF IncidentsInv, ReporterHolds
<1>8. IncidentsTypes' /\ NoReopening
  BY <1>3, <1>5, <1>6 DEF IncidentsInv, IncidentsTypes, NoReopening
<1>9. ASSUME NEW w \in Reporters
      PROVE  ReporterHolds(w)'
  <2>1. CASE w = y
    BY <1>4, <1>5, <2>1 DEF ReporterHolds
  <2>2. CASE w # y
    BY <1>3, <1>5, <1>7, <2>2 DEF IncidentsInv, ReporterHolds, Accepts
  <2> QED BY <2>1, <2>2
<1>10. ASSUME NEW w \in Reporters
       PROVE  IncidentHolds(w)'
  <2>1. reporters'[w].pc = "undated" => reporters[w].pc = "undated"
    BY <1>4, <1>5
  <2>2. reporters'[w].pc \notin {"undated", "torn"}
           => reporters[w].pc \notin {"undated", "torn"}
    BY <1>1, <1>4, <1>5
  <2>3. CASE w = f
    <3>1. IncidentHolds(f)
      BY <1>2 DEF IncidentsInv
    <3> QED BY <1>3, <1>5, <1>6, <1>7, <2>1, <2>2, <2>3, <3>1 DEF IncidentHolds
  <2>4. CASE w # f
    BY <1>5, <1>6, <2>1, <2>2, <2>4 DEF IncidentsInv, IncidentHolds
  <2> QED BY <2>3, <2>4
<1> QED BY <1>8, <1>9, <1>10 DEF IncidentsInv

\* The audit row, or the end of a request that failed.
LEMMA EndingIncidentKept ==
    ASSUME IncidentsInv, NEW y \in Reporters, AuditIncident(y) \/ FailReporter(y)
    PROVE  IncidentsInv' /\ NoReopening
<1>1. PICK p \in {"done", "failed", "torn"} :
         /\ ReporterEnds(y, p) /\ UNCHANGED <<incidents, disturbed>>
         /\ p # "torn" => reporters[y].pc \in {"written", "loaded"}
  BY DEF AuditIncident, FailReporter
<1> DEFINE next == [IdleReporter EXCEPT !.pc = p]
<1>2. next \in ReporterStates /\ next.pc = p
  BY DEF IdleReporter, ReporterStates
<1>3. reporters' = [reporters EXCEPT ![y] = next]
  BY <1>1 DEF ReporterEnds
<1> HIDE DEF next
<1> QED BY <1>1, <1>2, <1>3, IncidentRowsStay

LEMMA IncidentsKept ==
    ASSUME IncidentsInv, [Next]_workflowVars
    PROVE  /\ IncidentsInv'
           /\ UNCHANGED incidentVars \/ NoReopening
<1>1. ASSUME NEW y \in Reporters, ReporterStep(y)
      PROVE  IncidentsInv' /\ NoReopening
  BY <1>1, CreateIncidentKept, LoadIncidentKept, DateIncidentKept, CommitIncidentKept,
     EndingIncidentKept DEF ReporterStep
<1>2. CASE UNCHANGED incidentVars
  BY <1>2 DEF incidentVars, IncidentsInv, IncidentsTypes, ReporterHolds, IncidentHolds,
              Accepts
<1> QED BY <1>1, <1>2, WorkflowStepCases DEF workflowVars

-----------------------------------------------------------------------------
(***************************************************************************)
(* The inductive invariant of the composition, and what follows from it.   *)
(***************************************************************************)
LEMMA WorkflowStarts ==
    ASSUME Init
    PROVE  WorkflowInv
<1> USE DEF Init, ApprovalsAloneInit, ApprovalsInit, ExecutionsInit, IncidentsInit
<1>1. TypeInv
  BY CatalogAssumption, ApprovalsAssumption
     DEF CatalogInit, TypeInv, ApprovalsAloneTypeOK, CatalogTypeOK, ApprovalsTypeOK,
         RequestsWellFormed, IdleDecider, DeciderStates, ApprovalStatuses
<1>2. OrderInv /\ DecisionsAreAudited
  BY DEF OrderInv, DecidedIsDecided, AfterIsAnswered, LateLoadImpossible,
         LateDecisionRefused, DecisionsAreAudited, Decided, Answered, IdleDecider, Verdicts
<1>3. IdleRecorder \in RecorderStates /\ IdleRecorder.pc = "idle"
  BY DEF IdleRecorder, RecorderStates, RecorderSteps
<1>4. ExecutionsTypes /\ CreationsOnRecord
  BY <1>3 DEF ExecutionsTypes, CreationsOnRecord
<1>5. \A x \in Recorders : RecorderHolds(x)
  BY <1>3 DEF RecorderHolds
<1>6. Rows = {}
  BY DEF Rows
<1>7. IdleReporter \in ReporterStates /\ IdleReporter.pc = "idle"
  BY DEF IdleReporter, ReporterStates
<1>8. IncidentsInv
  BY <1>7 DEF IncidentsInv, IncidentsTypes, ReporterHolds, IncidentHolds
<1> QED BY <1>1, <1>2, <1>4, <1>5, <1>6, <1>8 DEF WorkflowInv, DecisionsInv, ExecutionsInv

LEMMA WorkflowInvariant == Spec => []WorkflowInv
<1>1. Init => WorkflowInv
  BY WorkflowStarts
<1>2. WorkflowInv /\ [Next]_workflowVars => WorkflowInv'
  BY DecisionsKept, ExecutionsKept, IncidentsKept DEF WorkflowInv
<1> QED BY <1>1, <1>2, PTL DEF Spec

(***************************************************************************)
(* The tables of approvals, executions and incidents hold what their       *)
(* columns admit, and an incident that no overlapping change disturbed has *)
(* the time of its resolution exactly when it is closed.                   *)
(***************************************************************************)
THEOREM WorkflowTypeCorrect == Spec => []WorkflowTypeOK
<1>1. WorkflowInv => WorkflowTypeOK
  <2> SUFFICES ASSUME WorkflowInv PROVE WorkflowTypeOK
    OBVIOUS
  <2>1. ClosedAreDated
    BY DEF WorkflowInv, IncidentsInv, IncidentHolds, ClosedAreDated
  <2> QED BY <2>1 DEF WorkflowInv, DecisionsInv, TypeInv, ExecutionsInv, ExecutionsTypes,
                      IncidentsInv, IncidentsTypes, WorkflowTypeOK
<1> QED BY <1>1, WorkflowInvariant, PTL

(***************************************************************************)
(* validate_approval looks at the approval once, in a transaction of its   *)
(* own: what an execution cites was approved all the same, for its agent,  *)
(* by a decision in the log, since a row keeps its agent and the log keeps *)
(* its rows.                                                               *)
(***************************************************************************)
THEOREM CitationsHold == Spec => []CitedWereApproved
<1>1. WorkflowInv => CitedWereApproved
  BY DEF WorkflowInv, ExecutionsInv, RowHolds, MayCite, WasApproved, CitedWereApproved
<1> QED BY <1>1, WorkflowInvariant, PTL

(***************************************************************************)
(* Creating an execution never escapes the policy: a row that is neither   *)
(* blocked nor held as the decision said is one that somebody amended.     *)
(***************************************************************************)
THEOREM PolicyHolds == Spec => []PolicyHoldsUntilAmended
<1>1. WorkflowInv => PolicyHoldsUntilAmended
  BY DEF WorkflowInv, ExecutionsInv, RowHolds, PolicyHoldsUntilAmended
<1> QED BY <1>1, WorkflowInvariant, PTL

(***************************************************************************)
(* The log has the creation of every execution, and tells of its status    *)
(* unless an amendment is on its way to do so or was cut off.              *)
(***************************************************************************)
THEOREM ExecutionsOnRecord == Spec => []ExecutionsAreOnRecord
<1>1. WorkflowInv => ExecutionsAreOnRecord
  <2> SUFFICES ASSUME WorkflowInv PROVE ExecutionsAreOnRecord
    OBVIOUS
  <2>1. ASSUME NEW e \in Rows
        PROVE  LET events == UNION {StateEvents(executions[e].status, x, e) :
                                      x \in Recorders}
               IN  \/ events = {} \/ events \cap executionTrail # {}
                   \/ Amending(e, {"amended", "audited", "torn"})
    <3> DEFINE status == executions[e].status
               events == UNION {StateEvents(status, x, e) : x \in Recorders}
    <3>1. CASE status \notin TerminalStatuses \cup {"running"}
      <4>1. \A x \in Recorders : StateEvents(status, x, e) = {}
        BY <3>1 DEF StateEvents
      <4>2. events = {}
        BY <4>1
      <4> QED BY <4>2
    <3>2. CASE status \in TerminalStatuses \cup {"running"} /\ Announced(status, e)
      <4>1. PICK x \in Recorders : ExecutionEvent(status, x, e) \in executionTrail
        BY <3>2 DEF Announced
      <4>2. ExecutionEvent(status, x, e) \in StateEvents(status, x, e)
        BY <3>2 DEF StateEvents
      <4> QED BY <4>1, <4>2
    <3>3. CASE Announcing(e)
      BY <3>3 DEF Announcing, Amending
    <3> QED BY <3>1, <3>2, <3>3 DEF WorkflowInv, ExecutionsInv, RowHolds
  <2>2. \A e \in Rows : executions[e].status \in TerminalStatuses => executions[e].completed
    BY DEF WorkflowInv, ExecutionsInv, RowHolds
  <2> QED BY <2>1, <2>2 DEF WorkflowInv, ExecutionsInv, CreationsOnRecord,
                            ExecutionsAreOnRecord
<1> QED BY <1>1, WorkflowInvariant, PTL

(***************************************************************************)
(* No step reopens, or closes once more in another way, an incident whose  *)
(* row nobody changed since the request of that step loaded it.            *)
(***************************************************************************)
THEOREM ClosedIncidentsStay == Spec => ClosedStaysClosed
<1> DEFINE Kept == \A i \in Reporters :
                      /\ incidents[i] # None /\ incidents[i].status \in ClosedIncident
                      /\ incidents'[i].status # incidents[i].status
                      => i \in disturbed'
<1>1. WorkflowInv /\ [Next]_workflowVars => [Kept]_incidentVars
  BY IncidentsKept DEF WorkflowInv, NoReopening
<1> QED BY <1>1, WorkflowInvariant, PTL DEF Spec, ClosedStaysClosed

(***************************************************************************)
(* Decisions on approvals stay final, and the log of them complete, beside *)
(* the executions that read them and the administrator that deletes their  *)
(* agents.                                                                 *)
(***************************************************************************)
THEOREM DecisionsStayFinal == Spec => [](LateDecisionRefused /\ DecisionsAreAudited)
<1>1. WorkflowInv => LateDecisionRefused /\ DecisionsAreAudited
  BY DEF WorkflowInv, DecisionsInv, OrderInv
<1> QED BY <1>1, WorkflowInvariant, PTL
=============================================================================
