----------------------------- MODULE Executions -----------------------------
(***************************************************************************)
(* Executions recorded and amended through the management API              *)
(* (services/executions.py), over the approvals they may cite and the      *)
(* policy rules they are held against.                                     *)
(*                                                                         *)
(* A creation is one transaction: the row, the policy decision's audit row *)
(* and its own.  An amendment (PATCH) commits the row, and only then       *)
(* writes two audit rows, each in a transaction of its own; the session    *)
(* expires what it holds at every commit, so the second of them is about   *)
(* the row as it has become.  Nothing locks the row or asks the policy     *)
(* again.  The ORM writes the attributes that differ from those it loaded. *)
(*                                                                         *)
(* The execution created by request x is named x.                          *)
(***************************************************************************)
EXTENDS Approvals

CONSTANTS
    Recorders,         \* the requests made of the executions API
    ExecutionBodies,   \* what is sent to create an execution
    Amendments         \* what is sent to amend one; uncite: a null approval_id

VARIABLES
    executions,      \* executions[x]: the row created by request x, or None
    recorders,       \* recorders[x]: where request x is
    executionTrail   \* the audit rows of executions

executionVars == <<executions, recorders, executionTrail>>

StatusesOfExecutions ==
    {"pending", "running", "succeeded", "failed", "blocked", "requires_approval"}
TerminalStatuses == {"succeeded", "failed", "blocked"}

ExecutionRows ==
    [agent : Agents, status : StatusesOfExecutions, approval : Approvals \cup {None},
     effect : Effects, completed : BOOLEAN]

ASSUME ExecutionsAssumption ==
    /\ ExecutionBodies \subseteq
          [agent : Agents, tool : Tools \cup {None}, risk : RiskLevels,
           status : StatusesOfExecutions \cup {None}, approval : Approvals \cup {None}]
    /\ Amendments \subseteq
          [status : StatusesOfExecutions \cup {None},
           approval : Approvals \cup {None}, uncite : BOOLEAN]
    /\ \A b \in Amendments : b.uncite => b.approval = None
    /\ None \notin ExecutionRows

IdleRecorder == [pc |-> "idle", about |-> None, body |-> None, effect |-> None,
                 seen |-> None]

ExecutionsInit ==
    /\ executions = [x \in Recorders |-> None]
    /\ recorders = [x \in Recorders |-> IdleRecorder]
    /\ executionTrail = {}

ExecutionEvent(action, x, about) == [action |-> action, by |-> x, about |-> about]

\* audit_execution_state_event: entering some statuses has an audit row.
StateEvents(status, x, about) ==
    IF status \in TerminalStatuses \cup {"running"}
    THEN {ExecutionEvent(status, x, about)} ELSE {}

\* validate_approval.
ApprovalIsValid(a, agent) == approvals[a] = "approved" /\ ApprovalAgent[a] = agent

RecorderMoves(x, pc) == recorders' = [recorders EXCEPT ![x].pc = pc]

\* The session is closed with the request.
RecorderEnds(x, pc) ==
    recorders' = [recorders EXCEPT ![x] =
                    [IdleRecorder EXCEPT !.pc = pc, !.about = recorders[x].about]]

\* Variant: any existing approval of the agent will do.
PassAnyApproval(x, a, agent, next) ==
    /\ recorders' = [recorders EXCEPT ![x] = next]
    /\ UNCHANGED executionTrail

\* A request that cites approval a goes on, or is refused with an audit row.
PassApproval(x, a, agent, next) ==
    IF a = None \/ ApprovalIsValid(a, agent)
    THEN /\ recorders' = [recorders EXCEPT ![x] = next]
         /\ UNCHANGED executionTrail
    ELSE /\ RecorderEnds(x, "refused")
         /\ executionTrail' = executionTrail \cup {ExecutionEvent("denied", x, a)}

\* The agent exists and the approval, when one is cited, is valid.
CheckExecution(x, b) ==
    /\ recorders[x].pc = "idle"
    /\ agents[b.agent] # "deleted"
    /\ PassApproval(x, b.approval, b.agent,
                    [IdleRecorder EXCEPT !.pc = "checked", !.about = x, !.body = b])
    /\ UNCHANGED executions

\* evaluate_policy_decision: the agent and the tool once more, and the
\* rules; an unexpected failure of any of it counts as a decision to block.
DecideExecution(x) ==
    LET b == recorders[x].body
    IN  /\ recorders[x].pc = "checked"
        /\ agents[b.agent] # "deleted"
        /\ b.tool # None => ~tools[b.tool].deleted /\ tools[b.tool].enabled
        /\ \E d \in Decisions(rules, b.agent, b.tool, b.risk) \cup {FailClosed} :
              recorders' = [recorders EXCEPT ![x] =
                              [@ EXCEPT !.pc = "decided", !.effect = d.effect]]
        /\ UNCHANGED <<executions, executionTrail>>

\* Variant: a requested status is not overridden by the need of an approval.
StatusAsRequested(b, effect) ==
    CASE effect = "block" -> "blocked"
      [] effect # "block" /\ b.status # None -> b.status
      [] OTHER -> "pending"

StatusOnCreation(b, effect) ==
    CASE effect = "block" -> "blocked"
      [] effect = "require_approval" /\ b.approval = None -> "requires_approval"
      [] OTHER -> IF b.status = None THEN "pending" ELSE b.status

CommitExecution(x) ==
    LET b == recorders[x].body
        status == StatusOnCreation(b, recorders[x].effect)
    IN  /\ recorders[x].pc = "decided"
        /\ executions' = [executions EXCEPT ![x] =
              [agent |-> b.agent, status |-> status, approval |-> b.approval,
               effect |-> recorders[x].effect, completed |-> status \in TerminalStatuses]]
        /\ executionTrail' = executionTrail \cup StateEvents(status, x, x) \cup
              {ExecutionEvent("evaluated", x, x), ExecutionEvent("created", x, x)}
        /\ RecorderEnds(x, "done")

\* PATCH: the SELECT of the row, and of the approval when one is cited.
LoadExecution(x, e, b) ==
    /\ recorders[x].pc = "idle"
    /\ executions[e] # None
    /\ PassApproval(x, b.approval, executions[e].agent,
                    [IdleRecorder EXCEPT !.pc = "loaded", !.about = e, !.body = b,
                                         !.seen = executions[e]])
    /\ UNCHANGED executions

\* What an attribute of the row becomes: the ORM writes it when the request
\* sets it to something else than what was loaded.  None: not sent.
NetChange(current, seen, sent) ==
    IF sent = None \/ sent = seen THEN current ELSE sent

Amended(row, seen, b) ==
    [row EXCEPT !.status = NetChange(@, seen.status, b.status),
                !.approval = IF b.uncite /\ seen.approval # None THEN None
                             ELSE NetChange(@, seen.approval, b.approval),
                !.completed = @ \/ b.status \in TerminalStatuses]

CommitAmendment(x) ==
    LET r == recorders[x]
    IN  /\ r.pc = "loaded"
        /\ executions' = [executions EXCEPT ![r.about] = Amended(@, r.seen, r.body)]
        /\ RecorderMoves(x, "amended")
        /\ UNCHANGED executionTrail

\* Variant: the state event is about the row as it was before.
KeepOldRow(x) ==
    LET e == recorders[x].about
    IN  /\ recorders[x].pc = "amended"
        /\ executionTrail' = executionTrail \cup {ExecutionEvent("updated", x, e)}
        /\ recorders' = [recorders EXCEPT ![x] = [@ EXCEPT !.pc = "audited"]]
        /\ UNCHANGED executions

\* The commit of the first audit row expires the row, which is read again.
AuditAmendment(x) ==
    LET e == recorders[x].about
    IN  /\ recorders[x].pc = "amended"
        /\ executionTrail' = executionTrail \cup {ExecutionEvent("updated", x, e)}
        /\ recorders' = [recorders EXCEPT ![x] =
                           [@ EXCEPT !.pc = "audited", !.seen = executions[e]]]
        /\ UNCHANGED executions

AuditState(x) ==
    LET r == recorders[x]
    IN  /\ r.pc = "audited"
        /\ executionTrail' = executionTrail \cup StateEvents(r.seen.status, x, r.about)
        /\ RecorderEnds(x, "done")
        /\ UNCHANGED executions

\* The request is refused without an audit row, the process dies or the
\* database fails: the open transaction is lost, what was committed stays.
FailRecorder(x) ==
    /\ \/ /\ recorders[x].pc \in {"checked", "decided", "loaded"}
          /\ RecorderEnds(x, "failed")
       \/ /\ recorders[x].pc \in {"amended", "audited"}
          /\ RecorderEnds(x, "torn")
    /\ UNCHANGED <<executions, executionTrail>>

ExecutionsNext ==
    \E x \in Recorders :
        \/ \E b \in ExecutionBodies : CheckExecution(x, b)
        \/ \E e \in Recorders, b \in Amendments : LoadExecution(x, e, b)
        \/ DecideExecution(x) \/ CommitExecution(x)
        \/ CommitAmendment(x) \/ AuditAmendment(x) \/ AuditState(x)
        \/ FailRecorder(x)
=============================================================================
