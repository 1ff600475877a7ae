------------------------------ MODULE Workflow ------------------------------
(***************************************************************************)
(* Approvals, the executions that cite them and the incidents about those, *)
(* while an administrator deletes the agent or changes the policy rules,   *)
(* and what is expected of them together.                                  *)
(***************************************************************************)
EXTENDS Incidents, FiniteSets

CONSTANT MaxRequests   \* bound on the requests of a behaviour, of all APIs

ASSUME WorkflowAssumption ==
    /\ MaxRequests \in Nat
    /\ {Deciders, Recorders, Reporters} \subseteq {1..n : n \in 0..MaxRequests}

workflowVars == <<catalogVars, audit, approvalVars, executionVars, incidentVars>>

Init == ApprovalsAloneInit /\ ExecutionsInit /\ IncidentsInit

\* The requests of an API are numbered in the order in which they begin.
InOrder(begun) == begun = 1..Cardinality(begun)

Bounded ==
    LET ds == {d \in Deciders : deciders[d].pc # "idle"}
        xs == {x \in Recorders : recorders[x].pc # "idle"}
        ys == {y \in Reporters : reporters[y].pc # "idle"}
    IN  /\ InOrder(ds) /\ InOrder(xs) /\ InOrder(ys)
        /\ Cardinality(ds) + Cardinality(xs) + Cardinality(ys) <= MaxRequests

Administer ==
    \/ \E a \in Agents : SoftDeleteAgent(a)
    \/ \E r \in RuleSpace : CreateRule(r)

Next ==
    /\ \/ ApprovalsNext /\ UNCHANGED <<catalogVars, executionVars, incidentVars>>
       \/ ExecutionsNext /\ UNCHANGED <<catalogVars, audit, approvalVars, incidentVars>>
       \/ IncidentsNext /\ UNCHANGED <<catalogVars, audit, approvalVars, executionVars>>
       \/ Administer /\ UNCHANGED <<audit, approvalVars, executionVars, incidentVars>>
    /\ Bounded'

Spec == Init /\ [][Next]_workflowVars

-----------------------------------------------------------------------------
(***************************************************************************)
(* An incident has the time of its resolution exactly when it is closed,   *)
(* unless it was created closed and its creation has not reached, or was   *)
(* cut off before, the second commit, or overlapping changes disturbed it. *)
(***************************************************************************)
ClosedAreDated ==
    \A i \in Reporters :
        incidents[i] # None /\ i \notin disturbed
        /\ reporters[i].pc \notin {"undated", "torn"} =>
              (incidents[i].status \in ClosedIncident <=> incidents[i].dated)

\* Tables hold what their columns admit, and incidents are dated as their status
\* says.
WorkflowTypeOK ==
    /\ ApprovalsAloneTypeOK
    /\ executions \in [Recorders -> ExecutionRows \cup {None}]
    /\ DOMAIN recorders = Recorders
    /\ \A v \in executionTrail : v.by \in Recorders
    /\ incidents \in [Reporters -> IncidentRows \cup {None}]
    /\ DOMAIN reporters = Reporters
    /\ disturbed \subseteq Reporters
    /\ ClosedAreDated

Rows == {e \in Recorders : executions[e] # None}

\* The amendments of execution e: those that have not touched the row, those
\* that have and are not through, those that were cut off after it.
Amending(e, pcs) ==
    \E x \in Recorders \ {e} : recorders[x].about = e /\ recorders[x].pc \in pcs

(***************************************************************************)
(* "Approval must exist, belong to the agent, and be approved."  (the 409  *)
(* of api/executions.py): whatever an execution cites was approved, by a   *)
(* decision that is in the audit log, for the execution's own agent,       *)
(* however creations, amendments and decisions overlapped.                 *)
(***************************************************************************)
CitedWereApproved ==
    \A e \in Rows :
        LET a == executions[e].approval
        IN  a # None =>
               /\ ApprovalAgent[a] = executions[e].agent
               /\ \E d \in Deciders : ApprovalEvent("approved", d, a) \in audit

(***************************************************************************)
(* What the policy blocked, or held for an approval it does not cite, was  *)
(* recorded as blocked or held whatever status was asked for: it has       *)
(* another status, or an approval, only once somebody amends it.           *)
(***************************************************************************)
PolicyHoldsUntilAmended ==
    \A e \in Rows :
        LET row == executions[e]
        IN  \/ row.effect = "allow"
            \/ row.effect = "block" /\ row.status = "blocked"
            \/ row.effect = "require_approval"
               /\ (row.status = "requires_approval" \/ row.approval # None)
            \/ Amending(e, {"amended", "audited", "torn", "done"})

(***************************************************************************)
(* The log tells of every execution and of its status.  An execution is    *)
(* there exactly when the log has its creation and its decision, whoever   *)
(* fails when; its status, when it is one the log is told of, has been     *)
(* announced, unless an amendment is between its commit and its audit rows *)
(* or was cut off there; and a terminal one has the time of completion.    *)
(***************************************************************************)
ExecutionsAreOnRecord ==
    /\ \A x \in Recorders, action \in {"created", "evaluated"} :
          executions[x] # None <=> ExecutionEvent(action, x, x) \in executionTrail
    /\ \A e \in Rows :
          LET events == UNION {StateEvents(executions[e].status, x, e) : x \in Recorders}
          IN  /\ \/ events = {} \/ events \cap executionTrail # {}
                 \/ Amending(e, {"amended", "audited", "torn"})
              /\ executions[e].status \in TerminalStatuses => executions[e].completed

(***************************************************************************)
(* "Incident status transition is not allowed."  (the 409 of               *)
(* api/incidents.py): a closed incident keeps its status, except under a   *)
(* request that loaded the row before others changed it.                   *)
(***************************************************************************)
ClosedStaysClosed ==
    [][\A i \in Reporters :
          /\ incidents[i] # None /\ incidents[i].status \in ClosedIncident
          /\ incidents'[i].status # incidents[i].status
          => i \in disturbed']_incidentVars
=============================================================================
