----------------------------- MODULE Approvals -----------------------------
(***************************************************************************)
(* The life of approvals: services/approvals.py.  A request of the API     *)
(* creates an approval, or approves, rejects or cancels one.  Deciding is  *)
(* a SELECT of the row, a check that it is pending, and one transaction    *)
(* that writes the new status and its audit row; nothing locks the row in  *)
(* between and no version column is compared, so the commit overwrites     *)
(* whatever other requests have committed since the SELECT.                *)
(***************************************************************************)
EXTENDS Catalog

CONSTANTS
    Approvals,
    ApprovalAgent,     \* approvals.agent_id
    ApprovalAction,    \* approvals.requested_action, the name of a tool
    Deciders           \* the requests made of the approvals API

VARIABLES
    approvals,   \* approvals[a]: "absent" or the row's status
    deciders     \* deciders[d]: where request d is, and what it asks

approvalVars == <<approvals, deciders>>

Verdicts == {"approved", "rejected", "cancelled"}
ApprovalStatuses  == {"absent", "pending"} \cup Verdicts

\* after: the requests that had been answered when this one read the row.
IdleDecider == [pc |-> "idle", approval |-> None, wants |-> None, after |-> {}]

DeciderStates ==
    [pc : {"idle", "created", "loaded", "succeeded", "refused", "failed"},
     approval : Approvals \cup {None},
     wants : Verdicts \cup {"pending", None},
     after : SUBSET Deciders]

ASSUME ApprovalsAssumption ==
    /\ ApprovalAgent \in [Approvals -> Agents]
    /\ ApprovalAction \in [Approvals -> Names]

ApprovalEvent(action, d, a) == [action |-> action, by |-> d, about |-> a]

ApprovalsInit ==
    /\ approvals = [a \in Approvals |-> "absent"]
    /\ deciders = [d \in Deciders |-> IdleDecider]

Answered == {d \in Deciders : deciders[d].pc \in {"succeeded", "refused", "failed"}}

DeciderAt(d, pc, a, wants) ==
    deciders' = [deciders EXCEPT ![d] = [pc |-> pc, approval |-> a, wants |-> wants,
                                         after |-> Answered]]

\* create_approval inserts and commits the row; its audit row is a second
\* transaction.
CreateApproval(d, a) ==
    /\ deciders[d].pc = "idle"
    /\ approvals[a] = "absent"
    /\ agents[ApprovalAgent[a]] # "deleted"
    /\ approvals' = [approvals EXCEPT ![a] = "pending"]
    /\ DeciderAt(d, "created", a, "pending")
    /\ UNCHANGED audit

AuditCreation(d) ==
    /\ deciders[d].pc = "created"
    /\ audit' = audit \cup {ApprovalEvent("created", d, deciders[d].approval)}
    /\ deciders' = [deciders EXCEPT ![d].pc = "succeeded"]
    /\ UNCHANGED approvals

\* Variant: a decision that does not look at the status it loaded.
LoadAnyApproval(d, a, decision) ==
    /\ deciders[d].pc = "idle"
    /\ approvals[a] # "absent"
    /\ DeciderAt(d, "loaded", a, decision)
    /\ UNCHANGED <<approvals, audit>>

\* The SELECT of a decision, and the refusal of one on a row that is not
\* pending, which commits an audit row of its own.
LoadApproval(d, a, decision) ==
    /\ deciders[d].pc = "idle"
    /\ approvals[a] # "absent"
    /\ IF approvals[a] = "pending"
       THEN /\ DeciderAt(d, "loaded", a, decision)
            /\ UNCHANGED audit
       ELSE /\ DeciderAt(d, "refused", a, decision)
            /\ audit' = audit \cup {ApprovalEvent("denied", d, a)}
    /\ UNCHANGED approvals

\* Variant: the status is committed and its audit row is lost.
CommitUnaudited(d) ==
    /\ deciders[d].pc = "loaded"
    /\ approvals' = [approvals EXCEPT ![deciders[d].approval] = deciders[d].wants]
    /\ deciders' = [deciders EXCEPT ![d].pc = "succeeded"]
    /\ UNCHANGED audit

\* The transaction of decide_approval: the status and its audit row.
CommitDecision(d) ==
    /\ deciders[d].pc = "loaded"
    /\ approvals' = [approvals EXCEPT ![deciders[d].approval] = deciders[d].wants]
    /\ audit' = audit \cup
                   {ApprovalEvent(deciders[d].wants, d, deciders[d].approval)}
    /\ deciders' = [deciders EXCEPT ![d].pc = "succeeded"]

\* The process dies or the database refuses: the open transaction is lost.
FailDecider(d) ==
    /\ deciders[d].pc \in {"created", "loaded"}
    /\ deciders' = [deciders EXCEPT ![d].pc = "failed"]
    /\ UNCHANGED <<approvals, audit>>

ApprovalsNext ==
    \E d \in Deciders :
        \/ \E a \in Approvals : \/ CreateApproval(d, a)
                                \/ \E s \in Verdicts : LoadApproval(d, a, s)
        \/ AuditCreation(d) \/ CommitDecision(d) \/ FailDecider(d)

ApprovalsTypeOK ==
    /\ approvals \in [Approvals -> ApprovalStatuses]
    /\ deciders \in [Deciders -> DeciderStates]

-----------------------------------------------------------------------------
(***************************************************************************)
(* The component alone: requests on approvals while agents come and go.    *)
(***************************************************************************)
ApprovalsAloneInit == CatalogInit /\ ApprovalsInit /\ audit = {}

ApprovalsAloneNext ==
    \/ ApprovalsNext /\ UNCHANGED catalogVars
    \/ (\E a \in Agents : SoftDeleteAgent(a)) /\ UNCHANGED <<approvalVars, audit>>

ApprovalsAloneVars == <<catalogVars, approvalVars, audit>>

ApprovalsSpec == ApprovalsAloneInit /\ [][ApprovalsAloneNext]_ApprovalsAloneVars

ApprovalEvents ==
    [action : Verdicts \cup {"created", "denied"}, by : Deciders, about : Approvals]

ApprovalsAloneTypeOK ==
    /\ CatalogTypeOK /\ ApprovalsTypeOK
    /\ audit \subseteq ApprovalEvents

Decided(d) == deciders[d].pc = "succeeded" /\ deciders[d].wants \in Verdicts

(***************************************************************************)
(* A request that reads an approval after another request has been told    *)
(* that its decision took effect never takes effect itself: decisions that *)
(* do not overlap in time are final.                                       *)
(***************************************************************************)
LateDecisionRefused ==
    \A d, e \in Deciders :
        /\ Decided(d) /\ e \in deciders[d].after
        /\ deciders[e].approval = deciders[d].approval
        => ~Decided(e)

(***************************************************************************)
(* The audit log accounts for every decided approval and invents nothing:  *)
(* a decided status was written by a request whose decision is in the log, *)
(* and every decision in the log was answered with success.                *)
(***************************************************************************)
DecisionsAreAudited ==
    /\ \A a \in Approvals : approvals[a] \in Verdicts =>
          \E d \in Deciders : ApprovalEvent(approvals[a], d, a) \in audit
    /\ \A v \in audit : v.action \in Verdicts =>
          Decided(v.by) /\ deciders[v.by].approval = v.about

(***************************************************************************)
(* "Only pending approvals can be changed."  (services/approvals.py, the   *)
(* reason of the refusal): a decided approval keeps its status.            *)
(***************************************************************************)
OnlyPendingChanges ==
    [][\A a \in Approvals :
          approvals[a] \in Verdicts => approvals'[a] = approvals[a]]_approvals
=============================================================================
