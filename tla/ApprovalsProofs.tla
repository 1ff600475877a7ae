-------------------------- MODULE ApprovalsProofs --------------------------
(***************************************************************************)
(* Proofs about Approvals, for any number of approvals and requests.       *)
(***************************************************************************)
EXTENDS Approvals, TLAPS

(***************************************************************************)
(* What a request under way holds: the approval it is about and, once it   *)
(* has loaded the row for a decision, that decision.                       *)
(***************************************************************************)
RequestsWellFormed ==
    \A d \in Deciders :
        /\ deciders[d].pc # "idle" => deciders[d].approval \in Approvals
        /\ deciders[d].pc = "created" => deciders[d].wants = "pending"
        /\ deciders[d].pc = "loaded" => deciders[d].wants \in Verdicts

\* The status of an approval tells that some request decided it.
DecidedIsDecided ==
    \A d \in Deciders :
        Decided(d) => approvals[deciders[d].approval] \in Verdicts

\* The requests a request came after have been answered.
AfterIsAnswered ==
    \A d \in Deciders : deciders[d].after \subseteq Answered

\* LateDecisionRefused, for a request that is still to commit its decision.
LateLoadImpossible ==
    \A d, e \in Deciders :
        /\ deciders[d].pc = "loaded" /\ e \in deciders[d].after
        /\ deciders[e].approval = deciders[d].approval
        => ~Decided(e)

TypeInv == ApprovalsAloneTypeOK /\ RequestsWellFormed

OrderInv == /\ DecidedIsDecided /\ AfterIsAnswered
            /\ LateLoadImpossible /\ LateDecisionRefused

\* One step of a request, and one of the agents.
RequestStep(d) ==
    \/ \E a \in Approvals : \/ CreateApproval(d, a)
                            \/ \E s \in Verdicts : LoadApproval(d, a, s)
    \/ AuditCreation(d) \/ CommitDecision(d) \/ FailDecider(d)

(***************************************************************************)
(* The shape of a step: either some request makes one of its five steps,   *)
(* or the variables of the approvals component stay as they are.           *)
(***************************************************************************)
LEMMA StepCases ==
    ASSUME [ApprovalsAloneNext]_ApprovalsAloneVars
    PROVE  \/ (\E d \in Deciders : RequestStep(d)) /\ UNCHANGED catalogVars
           \/ UNCHANGED <<approvalVars, audit>>
BY DEF ApprovalsAloneNext, ApprovalsNext, RequestStep, ApprovalsAloneVars

(***************************************************************************)
(* The catalogue's variables keep their types: only SoftDeleteAgent        *)
(* changes them in this component.                                         *)
(***************************************************************************)
LEMMA CatalogTypeKept ==
    ASSUME CatalogTypeOK, [ApprovalsAloneNext]_ApprovalsAloneVars
    PROVE  CatalogTypeOK'
<1>1. CASE UNCHANGED catalogVars
  BY <1>1 DEF catalogVars, CatalogTypeOK
<1>2. ASSUME NEW a \in Agents, SoftDeleteAgent(a)
      PROVE  CatalogTypeOK'
  BY <1>2, CatalogAssumption DEF SoftDeleteAgent, Change, CatalogTypeOK
<1> QED BY <1>1, <1>2 DEF ApprovalsAloneNext, ApprovalsAloneVars

(***************************************************************************)
(* Every step of a request keeps the types and what requests hold.         *)
(***************************************************************************)
LEMMA RequestTypeKept ==
    ASSUME ApprovalsTypeOK, RequestsWellFormed, NEW d \in Deciders, RequestStep(d)
    PROVE  (ApprovalsTypeOK /\ RequestsWellFormed)'
<1> USE DEF ApprovalsTypeOK, DeciderStates, ApprovalStatuses, Verdicts,
            RequestsWellFormed
<1>0. Answered \subseteq Deciders
  BY DEF Answered
<1>1. ASSUME NEW a \in Approvals, CreateApproval(d, a)
      PROVE  (ApprovalsTypeOK /\ RequestsWellFormed)'
  BY <1>0, <1>1 DEF CreateApproval, DeciderAt
<1>2. ASSUME NEW a \in Approvals, NEW s \in Verdicts, LoadApproval(d, a, s)
      PROVE  (ApprovalsTypeOK /\ RequestsWellFormed)'
  BY <1>0, <1>2 DEF LoadApproval, DeciderAt
<1>3. CASE AuditCreation(d)
  BY <1>3 DEF AuditCreation
<1>4. CASE CommitDecision(d)
  BY <1>4 DEF CommitDecision
<1>5. CASE FailDecider(d)
  BY <1>5 DEF FailDecider
<1> QED BY <1>1, <1>2, <1>3, <1>4, <1>5 DEF RequestStep

(***************************************************************************)
(* What a step of a request writes: audit rows of its own, and a verdict   *)
(* only together with its audit row.                                       *)
(***************************************************************************)
LEMMA RequestStepWrites ==
    ASSUME ApprovalsTypeOK, RequestsWellFormed, NEW d \in Deciders, RequestStep(d)
    PROVE  /\ audit \subseteq audit'
           /\ \A v \in audit' \ audit : v \in ApprovalEvents
           /\ \A a \in Approvals : approvals'[a] \in Verdicts =>
                 \/ approvals'[a] = approvals[a]
                 \/ ApprovalEvent(approvals'[a], d, a) \in audit'
<1> USE DEF ApprovalsTypeOK, DeciderStates, Verdicts, RequestsWellFormed,
            ApprovalEvents, ApprovalEvent
<1>1. ASSUME NEW a \in Approvals, CreateApproval(d, a)
      PROVE  audit' = audit /\ \A b \in Approvals : approvals'[b] \in Verdicts
                                 => approvals'[b] = approvals[b]
  BY <1>1 DEF CreateApproval
<1>2. ASSUME NEW a \in Approvals, NEW s \in Verdicts, LoadApproval(d, a, s)
      PROVE  /\ audit' = audit \/ audit' = audit \cup {ApprovalEvent("denied", d, a)}
             /\ approvals' = approvals
  BY <1>2 DEF LoadApproval
<1>3. CASE AuditCreation(d)
  BY <1>3 DEF AuditCreation
<1>4. CASE CommitDecision(d)
  BY <1>4 DEF CommitDecision
<1>5. CASE FailDecider(d)
  BY <1>5 DEF FailDecider
<1> QED BY <1>1, <1>2, <1>3, <1>4, <1>5 DEF RequestStep

(***************************************************************************)
(* The typing invariant holds in every reachable state.                    *)
(***************************************************************************)
LEMMA TypeInvariant == ApprovalsSpec => []TypeInv
<1>1. ApprovalsAloneInit => TypeInv
  <2> SUFFICES ASSUME ApprovalsAloneInit PROVE TypeInv
    OBVIOUS
  <2>1. CatalogTypeOK
    BY CatalogAssumption DEF ApprovalsAloneInit, CatalogInit, CatalogTypeOK
  <2>2. ApprovalsTypeOK /\ RequestsWellFormed /\ audit \subseteq ApprovalEvents
    BY DEF ApprovalsAloneInit, ApprovalsInit, ApprovalsTypeOK, RequestsWellFormed,
           IdleDecider, DeciderStates, ApprovalStatuses
  <2> QED BY <2>1, <2>2 DEF TypeInv, ApprovalsAloneTypeOK
<1>2. TypeInv /\ [ApprovalsAloneNext]_ApprovalsAloneVars => TypeInv'
  <2> SUFFICES ASSUME TypeInv, [ApprovalsAloneNext]_ApprovalsAloneVars
               PROVE  TypeInv'
    OBVIOUS
  <2>1. CatalogTypeOK'
    BY CatalogTypeKept DEF TypeInv, ApprovalsAloneTypeOK
  <2>2. CASE \E d \in Deciders : RequestStep(d)
    BY <2>1, <2>2, RequestTypeKept, RequestStepWrites DEF TypeInv, ApprovalsAloneTypeOK
  <2>3. CASE UNCHANGED <<approvalVars, audit>>
    BY <2>1, <2>3
       DEF TypeInv, ApprovalsAloneTypeOK, ApprovalsTypeOK, RequestsWellFormed,
           approvalVars
  <2> QED BY <2>2, <2>3, StepCases
<1> QED BY <1>1, <1>2, PTL DEF ApprovalsSpec

(***************************************************************************)
(* The types of approvals.status, of the requests and of the audit rows of *)
(* services/approvals.py hold throughout.                                  *)
(***************************************************************************)
THEOREM ApprovalsTypeCorrect == ApprovalsSpec => []ApprovalsAloneTypeOK
BY TypeInvariant, PTL DEF TypeInv

(***************************************************************************)
(* Every step of a request keeps the order of decisions.  The load is the  *)
(* step that matters: a row that is still pending has not been decided by  *)
(* anyone who was answered before (DecidedIsDecided).                      *)
(***************************************************************************)
LEMMA RequestOrderKept ==
    ASSUME TypeInv, OrderInv, NEW d \in Deciders, RequestStep(d)
    PROVE  OrderInv'
<1> USE DEF TypeInv, ApprovalsAloneTypeOK, ApprovalsTypeOK, DeciderStates,
            RequestsWellFormed, Verdicts,
            OrderInv, DecidedIsDecided, AfterIsAnswered, LateLoadImpossible,
            LateDecisionRefused, Decided, Answered
<1>1. ASSUME NEW a \in Approvals, CreateApproval(d, a)
      PROVE  OrderInv'
  BY <1>1 DEF CreateApproval, DeciderAt
<1>2. ASSUME NEW a \in Approvals, NEW s \in Verdicts, LoadApproval(d, a, s)
      PROVE  OrderInv'
  BY <1>2 DEF LoadApproval, DeciderAt
<1>3. CASE AuditCreation(d)
  BY <1>3 DEF AuditCreation
<1>4. CASE CommitDecision(d)
  BY <1>4 DEF CommitDecision
<1>5. CASE FailDecider(d)
  BY <1>5 DEF FailDecider
<1> QED BY <1>1, <1>2, <1>3, <1>4, <1>5 DEF RequestStep

(***************************************************************************)
(* Decisions that do not overlap in time are final: decide_approval        *)
(* refuses every decision that begins after one was answered, whatever     *)
(* requests are open at the same time.                                     *)
(***************************************************************************)
THEOREM LateDecisionsAreRefused == ApprovalsSpec => []LateDecisionRefused
<1>1. ApprovalsAloneInit => OrderInv
  BY DEF ApprovalsAloneInit, ApprovalsInit, IdleDecider, OrderInv,
         DecidedIsDecided, AfterIsAnswered, LateLoadImpossible,
         LateDecisionRefused, Decided
<1>2. TypeInv /\ OrderInv /\ [ApprovalsAloneNext]_ApprovalsAloneVars => OrderInv'
  <2> SUFFICES ASSUME TypeInv, OrderInv, [ApprovalsAloneNext]_ApprovalsAloneVars
               PROVE  OrderInv'
    OBVIOUS
  <2>1. CASE \E d \in Deciders : RequestStep(d)
    BY <2>1, RequestOrderKept
  <2>2. CASE UNCHANGED <<approvalVars, audit>>
    BY <2>2 DEF OrderInv, DecidedIsDecided, AfterIsAnswered, LateLoadImpossible,
                LateDecisionRefused, Decided, Answered, approvalVars
  <2> QED BY <2>1, <2>2, StepCases
<1>3. OrderInv => LateDecisionRefused
  BY DEF OrderInv
<1> QED BY <1>1, <1>2, <1>3, TypeInvariant, PTL DEF ApprovalsSpec

(***************************************************************************)
(* Every step of a request keeps the status of approvals and the audit log *)
(* in agreement.                                                           *)
(***************************************************************************)
LEMMA RequestAuditKept ==
    ASSUME TypeInv, DecisionsAreAudited, NEW d \in Deciders, RequestStep(d)
    PROVE  DecisionsAreAudited'
<1> USE DEF TypeInv, ApprovalsAloneTypeOK, ApprovalsTypeOK, DeciderStates,
            RequestsWellFormed, Verdicts, DecisionsAreAudited, Decided,
            ApprovalEvents, ApprovalEvent
<1>1. ASSUME NEW a \in Approvals, CreateApproval(d, a)
      PROVE  DecisionsAreAudited'
  BY <1>1 DEF CreateApproval, DeciderAt
<1>2. ASSUME NEW a \in Approvals, NEW s \in Verdicts, LoadApproval(d, a, s)
      PROVE  DecisionsAreAudited'
  <2>1. audit' = audit \/ audit' = audit \cup {ApprovalEvent("denied", d, a)}
    BY <1>2 DEF LoadApproval
  <2>2. \A v \in audit' : v.action \in Verdicts => v \in audit
    BY <2>1
  <2>3. \A e \in Deciders : Decided(e) => deciders'[e] = deciders[e]
    BY <1>2 DEF LoadApproval, DeciderAt
  <2> QED BY <1>2, <2>1, <2>2, <2>3 DEF LoadApproval
<1>3. CASE AuditCreation(d)
  <2>1. \A v \in audit' : v.action \in Verdicts => v \in audit
    BY <1>3 DEF AuditCreation
  <2>2. \A e \in Deciders : Decided(e) => deciders'[e] = deciders[e]
    BY <1>3 DEF AuditCreation
  <2>3. UNCHANGED approvals /\ audit \subseteq audit'
    BY <1>3 DEF AuditCreation
  <2>4. \A a \in Approvals : approvals'[a] \in Verdicts =>
           \E e \in Deciders : ApprovalEvent(approvals'[a], e, a) \in audit'
    BY <2>3
  <2>5. ASSUME NEW v \in audit', v.action \in Verdicts
        PROVE  Decided(v.by)' /\ deciders'[v.by].approval = v.about
    BY <2>1, <2>2, <2>5
  <2> QED BY <2>4, <2>5
<1>4. CASE CommitDecision(d)
  <2>1. ASSUME NEW a \in Approvals, approvals'[a] \in Verdicts
        PROVE  \E e \in Deciders : ApprovalEvent(approvals'[a], e, a) \in audit'
    <3>1. CASE a = deciders[d].approval
      <4>1. approvals'[a] = deciders[d].wants
        BY <1>4, <3>1 DEF CommitDecision
      <4>2. ApprovalEvent(approvals'[a], d, a) \in audit'
        BY <1>4, <3>1, <4>1 DEF CommitDecision
      <4> QED BY <4>2
    <3>2. CASE a # deciders[d].approval
      <4>1. approvals'[a] = approvals[a] /\ audit \subseteq audit'
        BY <1>4, <3>2 DEF CommitDecision
      <4>2. PICK e \in Deciders : ApprovalEvent(approvals[a], e, a) \in audit
        BY <2>1, <4>1
      <4> QED BY <4>1, <4>2
    <3> QED BY <3>1, <3>2
  <2>2. ASSUME NEW v \in audit', v.action \in Verdicts
        PROVE  Decided(v.by)' /\ deciders'[v.by].approval = v.about
    BY <1>4, <2>2 DEF CommitDecision
  <2> QED BY <2>1, <2>2
<1>5. CASE FailDecider(d)
  BY <1>5 DEF FailDecider
<1> QED BY <1>1, <1>2, <1>3, <1>4, <1>5 DEF RequestStep

(***************************************************************************)
(* The audit log accounts for every decided approval and holds no decision *)
(* that was not answered with success: the status and its audit row commit *)
(* together.                                                               *)
(***************************************************************************)
THEOREM DecisionsAudited == ApprovalsSpec => []DecisionsAreAudited
<1>1. ApprovalsAloneInit => DecisionsAreAudited
  BY DEF ApprovalsAloneInit, ApprovalsInit, DecisionsAreAudited, Verdicts
<1>2. TypeInv /\ DecisionsAreAudited /\ [ApprovalsAloneNext]_ApprovalsAloneVars
        => DecisionsAreAudited'
  <2> SUFFICES ASSUME TypeInv, DecisionsAreAudited,
                      [ApprovalsAloneNext]_ApprovalsAloneVars
               PROVE  DecisionsAreAudited'
    OBVIOUS
  <2>1. CASE \E d \in Deciders : RequestStep(d)
    BY <2>1, RequestAuditKept
  <2>2. CASE UNCHANGED <<approvalVars, audit>>
    BY <2>2 DEF DecisionsAreAudited, Decided, approvalVars
  <2> QED BY <2>1, <2>2, StepCases
<1> QED BY <1>1, <1>2, TypeInvariant, PTL DEF ApprovalsSpec
=============================================================================
