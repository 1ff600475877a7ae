---------------------------- MODULE GatewayProofs ----------------------------
(***************************************************************************)
(* Proofs about Gateway, for any number of calls, of requests on approvals *)
(* and credentials and of changes of the catalogue: what reaches an        *)
(* upstream server, what is left in the database, the ledger of            *)
(* idempotency keys, and late retries.                                     *)
(***************************************************************************)
EXTENDS GatewayHistory, GatewayScope, ApprovalsProofs, GatewayTokensProofs

(***************************************************************************)
(* The types of everything a step reads, the audit log left out.           *)
(***************************************************************************)
DecisionRows == [effect : Effects, rule : {r.id : r \in RuleSpace} \cup {None}]

Replies == {"unauthorized", "rate_limited", "unavailable", "not_found", "replay",
            "approval_invalid", "error", "response"}

ExecutionRows ==
    [call : Calls, token : Tokens, tool : Tools, status : ExecutionStatuses,
     approval : Approvals \cup {None}, effect : Effects]

CallTypes ==
    /\ pc \in [Calls -> Steps]
    /\ request \in [Calls -> CallSpace \cup {None}]
    /\ target \in [Calls -> Tools \cup {None}]
    /\ seen \in [Calls -> ToolRows \cup {None}]
    /\ decision \in [Calls -> DecisionRows \cup {None}]
    /\ outcome \in [Calls -> ExecutionStatuses \cup {None}]
    /\ reply \in [Calls -> Replies \cup {None}]
    /\ body \in [Calls -> Responses \cup {None}]
    /\ upstream \subseteq [call : Calls, tool : Tools, server : Servers, name : Names]
    /\ executions \subseteq ExecutionRows
    /\ records \subseteq [slot : Tokens \X Tools \X Keys, response : Responses]

\* An approval is approved only by a decision that is in the audit log.
ApprovedIsLogged ==
    \A a \in Approvals : approvals[a] = "approved" =>
        \E d \in Deciders : ApprovalEvent("approved", d, a) \in audit

Surroundings ==
    /\ CatalogTypeOK /\ ApprovalsTypeOK /\ RequestsWellFormed
    /\ ApprovedIsLogged /\ TokensInv

(***************************************************************************)
(* What a call knows by the step it has come to.                           *)
(***************************************************************************)
HasTool == {"scope", "record", "tool", "approval", "decide", "invoke", "upstream",
            "commit"}
HasRow  == {"approval", "decide", "invoke", "upstream", "commit"}
Cleared == {"decide", "invoke", "upstream", "commit"}
Sent    == {"upstream", "commit", "done"}

ApprovalCleared(c) ==
    request[c].approval # None =>
       ApprovedInLog(request[c].approval, ToolAgent[target[c]], seen[c].name)

Passed(c) ==
    /\ decision[c] \in DecisionRows /\ decision[c].effect # "block"
    /\ decision[c].effect = "require_approval" => request[c].approval # None

\* What a call holds before it is answered.
CallHolds(c) ==
    /\ pc[c] # "idle" => request[c] \in CallSpace
    /\ pc[c] \notin {"idle", "done"} => TokenOf(c) \in Tokens
    /\ pc[c] \in HasTool \/ (pc[c] \in {"credential", "limiter"} /\ request[c].via # "mcp")
          => target[c] \in Tools
    /\ pc[c] = "record" => request[c].key # None
    /\ pc[c] \in HasRow => seen[c] \in ToolRows
    /\ pc[c] \in Cleared => ApprovalCleared(c)
    /\ pc[c] \in {"invoke", "upstream"} => Passed(c)
    /\ pc[c] = "commit" => decision[c] \in DecisionRows /\ outcome[c] \in ExecutionStatuses
    /\ pc[c] = "upstream" \/ (pc[c] = "commit" /\ outcome[c] = "succeeded") =>
          \E u \in upstream : u.call = c /\ u.tool = target[c]
    /\ pc[c] # "done" => body[c] = None

\* What stays true of a call that went upstream.
SentHolds(c) ==
    /\ TokenOf(c) \in Tokens /\ target[c] \in Tools /\ request[c] \in CallSpace
    /\ ApprovalCleared(c) /\ Passed(c)

UpstreamInv ==
    \A u \in upstream :
        /\ pc[u.call] \in Sent
        /\ u.tool = target[u.call] /\ u.name = seen[u.call].name
        /\ SentHolds(u.call)

\* What a call leaves in the database, and what it is told.
TrailActions ==
    ExecutionStatuses \cup {"policy_evaluated", "call_requested", "execution_created"}

ExecutionsInv ==
    \A e \in executions :
        /\ pc[e.call] = "done" /\ e = ExecutionRow(e.call)
        /\ CallTrail(e.call) \subseteq audit
        /\ e.status = "succeeded" =>
              \E u \in upstream : u.call = e.call /\ u.tool = e.tool

AuditInv ==
    \A v \in audit : v.action \in TrailActions => \E e \in executions : e.call = v.by

RecordsInv ==
    /\ \A r \in records : \E e \in executions :
          /\ r.response = [execution |-> e.call, status |-> e.status, effect |-> e.effect]
          /\ r.slot[1] = e.token /\ r.slot[2] = e.tool
    /\ \A r, s \in records : r.slot = s.slot => r = s

AnswerHolds(c) ==
    /\ TokenOf(c) \in Tokens /\ target[c] \in Tools
    /\ \E e \in executions : /\ e.call = body[c].execution
                             /\ e.status = body[c].status
                             /\ e.token = TokenOf(c) /\ e.tool = target[c]
    /\ request[c].key # None => [slot |-> SlotOf(c), response |-> body[c]] \in records
    /\ reply[c] = "replay" => body[c].execution # c /\ \A u \in upstream : u.call # c

AnswersInv == \A c \in Calls : body[c] # None => AnswerHolds(c)

StoreInv == ExecutionsInv /\ AuditInv /\ RecordsInv /\ AnswersInv

GatewayInv ==
    /\ Surroundings /\ CallTypes /\ (\A c \in Calls : CallHolds(c)) /\ UpstreamInv
    /\ StoreInv

-----------------------------------------------------------------------------
(***************************************************************************)
(* One step of one call.                                                   *)
(***************************************************************************)
CallMove(c) == (\E r \in CallSpace : Arrive(c, r)) \/ CallStep(c) \/ Abort(c)

(***************************************************************************)
(* The shape of a step: of a call, of an administrator of the catalogue,   *)
(* of a request on an approval, or of a request on a credential.           *)
(***************************************************************************)
LEMMA GatewayStepCases ==
    ASSUME [Next /\ Bounded]_vars
    PROVE  \/ (\E c \in Calls : CallMove(c)) /\ UNCHANGED <<catalogVars, approvalVars>>
           \/ CatalogNext /\ UNCHANGED <<approvalVars, tokenVars, audit, callVars>>
           \/ /\ \E d \in Deciders : RequestStep(d)
              /\ UNCHANGED <<catalogVars, tokenVars, callVars>>
           \/ TokenAdminNext /\ UNCHANGED <<catalogVars, approvalVars, callVars>>
           \/ UNCHANGED vars
BY DEF Next, CallNext, CallMove, ApprovalsNext, RequestStep

(***************************************************************************)
(* A PATCH and a review leave a row of a tool, and a decision has the      *)
(* fields of one.                                                          *)
(***************************************************************************)
LEMMA EditedIsRow ==
    ASSUME NEW row \in ToolRows, NEW e \in ToolEdits \cup ToolReviews
    PROVE  Edited(row, e) \in ToolRows
<1>1. DOMAIN row = {"name", "server", "enabled", "deleted", "reviewed", "permission", "risk"}
  BY DEF ToolRows
<1>2. CASE e \in ToolEdits
  <2>1. /\ DOMAIN e = {"name", "enabled", "permission", "risk"}
        /\ e.name \in Names \cup {None} /\ e.enabled \in BOOLEAN \cup {None}
        /\ e.permission \in Permissions \cup {None} /\ e.risk \in RiskLevels \cup {None}
    BY <1>2, CatalogAssumption
  <2> QED BY <1>1, <2>1 DEF Edited, ToolRows
<1>3. CASE e \in ToolReviews
  <2>1. /\ DOMAIN e = {"permission", "risk"}
        /\ e.permission \in Permissions /\ e.risk \in RiskLevels
    BY <1>3, CatalogAssumption
  <2> QED BY <1>1, <2>1 DEF Edited, ToolRows
<1> QED BY <1>2, <1>3

LEMMA DecisionsAreRows ==
    ASSUME NEW R \in SUBSET RuleSpace, NEW a, NEW t, NEW risk \in RiskLevels,
           NEW d \in Decisions(R, a, t, risk)
    PROVE  d \in DecisionRows
<1>1. CASE MatchingRules(R, a, t, risk) = {}
  BY <1>1 DEF Decisions, DecisionRows, DefaultEffect, Effects
<1>2. CASE MatchingRules(R, a, t, risk) # {}
  <2>1. PICK r \in BestRules(MatchingRules(R, a, t, risk)) :
           d = [effect |-> r.effect, rule |-> r.id]
    BY <1>2 DEF Decisions
  <2>2. r \in RuleSpace
    BY DEF BestRules, MatchingRules
  <2> QED BY <2>1, <2>2, CatalogAssumption DEF DecisionRows
<1> QED BY <1>1, <1>2

(***************************************************************************)
(* Every operation on the catalogue keeps its types.                       *)
(***************************************************************************)
LEMMA CatalogStepTypes ==
    ASSUME CatalogTypeOK, CatalogNext
    PROVE  CatalogTypeOK'
<1> USE CatalogAssumption DEF CatalogTypeOK, Change
<1>1. ASSUME NEW a \in Agents,
             SoftDeleteAgent(a) \/ \E s \in {"enabled", "disabled"} : UpdateAgent(a, s)
      PROVE  CatalogTypeOK'
  BY <1>1 DEF UpdateAgent, SoftDeleteAgent
<1>2. ASSUME NEW s \in Servers,
             SoftDeleteServer(s) \/ \E a \in Agents \cup {None} : RelinkServer(s, a)
      PROVE  CatalogTypeOK'
  <2> DEFINE Row == [agent : Agents \cup {None}, deleted : BOOLEAN]
  <2>1. \A row \in Row : [row EXCEPT !.deleted = TRUE] \in Row
    OBVIOUS
  <2>2. \A row \in Row, a \in Agents \cup {None} : [row EXCEPT !.agent = a] \in Row
    OBVIOUS
  <2>3. servers \in [Servers -> Row]
    OBVIOUS
  <2>4. PICK row \in Row : servers' = [servers EXCEPT ![s] = row]
    BY <1>2, <2>1, <2>2, <2>3 DEF SoftDeleteServer, RelinkServer
  <2>5. servers' \in [Servers -> Row]
    BY <2>3, <2>4
  <2> QED BY <1>2, <2>5 DEF SoftDeleteServer, RelinkServer
<1>3. ASSUME NEW t \in Tools, NEW e \in ToolEdits, UpdateTool(t, e)
      PROVE  CatalogTypeOK'
  <2>1. Edited(tools[t], e) \in ToolRows
    BY EditedIsRow
  <2> QED BY <1>3, <2>1 DEF UpdateTool
<1>4. ASSUME NEW t \in Tools, NEW v \in ToolReviews, ReviewTool(t, v)
      PROVE  CatalogTypeOK'
  <2>1. Edited(tools[t], v) \in ToolRows
    BY EditedIsRow
  <2>2. [Edited(tools[t], v) EXCEPT !.reviewed = TRUE] \in ToolRows
    BY <2>1 DEF ToolRows
  <2> QED BY <1>4, <2>2 DEF ReviewTool
<1>5. ASSUME NEW t \in Tools, SoftDeleteTool(t)
      PROVE  CatalogTypeOK'
  <2>1. [tools[t] EXCEPT !.deleted = TRUE] \in ToolRows
    BY DEF ToolRows
  <2> QED BY <1>5, <2>1 DEF SoftDeleteTool
<1>6. ASSUME NEW t \in Tools, NEW s \in Servers, AdoptTool(t, s)
      PROVE  CatalogTypeOK'
  <2>1. [tools[t] EXCEPT !.server = s] \in ToolRows
    BY DEF ToolRows
  <2>2. tools' = [tools EXCEPT ![t] = [tools[t] EXCEPT !.server = s]]
    BY <1>6 DEF AdoptTool
  <2> QED BY <1>6, <2>1, <2>2 DEF AdoptTool
<1>7. ASSUME NEW r \in RuleSpace,
             CreateRule(r) \/ RemoveRule(r) \/ \E s \in RuleSpace : UpdateRule(r, s)
      PROVE  CatalogTypeOK'
  BY <1>7 DEF CreateRule, RemoveRule, UpdateRule
<1> QED BY <1>1, <1>2, <1>3, <1>4, <1>5, <1>6, <1>7 DEF CatalogNext

-----------------------------------------------------------------------------
(***************************************************************************)
(* A step of a call is one of its credential's authentication, or leaves   *)
(* all credentials alone; which credential a call uses is settled when it  *)
(* arrives.                                                                *)
(***************************************************************************)
LEMMA CallMoveTokens ==
    ASSUME TokensInv, NEW c \in Calls, CallMove(c)
    PROVE  /\ TokensInv'
           /\ \A d \in Calls \ {c} : uses'[d] = uses[d]
           /\ pc[c] # "idle" => TokenOf(c)' = TokenOf(c)
<1>0. Uses = Calls /\ uses \in [Calls -> UseStates]
  BY GatewayAssumption DEF TokensInv, TokensTypeOK
<1>1. CASE UNCHANGED tokenVars
  <2>1. TokensInv'
    BY <1>1, TokenStepKeeps
  <2> QED BY <1>1, <2>1 DEF tokenVars, TokenOf
<1>2. ASSUME NEW r \in CallSpace, Arrive(c, r)
      PROVE  TokensInv' /\ pc[c] = "idle" /\ \A d \in Calls \ {c} : uses'[d] = uses[d]
  <2> DEFINE s == IF r.via = "legacy" THEN r.server ELSE None
  <2>1. r.secret \in 0..MaxSecret /\ s \in Servers \cup {None}
    BY GatewayAssumption DEF Requests
  <2>2. LookUpToken(c, r.secret, s) /\ pc[c] = "idle"
    BY <1>2 DEF Arrive
  <2>3. \E row : uses' = [uses EXCEPT ![c] = row]
    BY <2>2 DEF LookUpToken
  <2> HIDE DEF s
  <2>4. UseStep(c)
    BY <2>1, <2>2 DEF UseStep
  <2> QED BY <1>0, <2>2, <2>3, <2>4, UseStepKeeps
<1>3. CASE MarkTokenUsed(c) \/ FailUse(c)
  <2>1. UseStep(c)
    BY <1>3 DEF UseStep
  <2>2. \E p : uses' = [uses EXCEPT ![c].pc = p]
    BY <1>3 DEF MarkTokenUsed, FailUse
  <2> QED BY <1>0, <2>1, <2>2, UseStepKeeps DEF UseStates, TokenOf
<1>4. ASSUME CallStep(c) \/ Abort(c)
      PROVE  UNCHANGED tokenVars \/ MarkTokenUsed(c) \/ FailUse(c)
  BY <1>4
     DEF CallStep, Abort, Authenticated, RateLimited, Admitted, ListTools, ReadScope,
         ReadRecord, ReadTool, ReadApproval, Decide, DecideFailsClosed,
         UpstreamUnreachable, InvokeUpstream, UpstreamAnswers, CommitCall
<1> QED BY <1>1, <1>2, <1>3, <1>4 DEF CallMove

(***************************************************************************)
(* A step of a call touches no other call, and nothing of a call that has  *)
(* been answered; what is written stays written.                           *)
(***************************************************************************)
SameCall(d) ==
    /\ pc'[d] = pc[d] /\ request'[d] = request[d] /\ target'[d] = target[d]
    /\ seen'[d] = seen[d] /\ decision'[d] = decision[d] /\ outcome'[d] = outcome[d]
    /\ reply'[d] = reply[d] /\ body'[d] = body[d]

Frame(c) ==
    /\ pc[c] # "done"
    /\ \A d \in Calls \ {c} : SameCall(d)
    /\ pc[c] # "idle" => request'[c] = request[c]
    /\ audit \subseteq audit'

LEMMA CallMoveFrame ==
    ASSUME CallTypes, NEW c \in Calls, CallMove(c)
    PROVE  Frame(c)
<1> USE DEF CallTypes, Frame, SameCall, GoTo, Answer
<1>1. ASSUME NEW r \in CallSpace, Arrive(c, r)
      PROVE  Frame(c)
  BY <1>1 DEF Arrive, LookUpToken
<1>2. CASE Authenticated(c)
  BY <1>2 DEF Authenticated, MarkTokenUsed
<1>3. CASE RateLimited(c)
  BY <1>3 DEF RateLimited
<1>4. CASE Admitted(c)
  BY <1>4 DEF Admitted
<1>5. CASE ListTools(c)
  BY <1>5 DEF ListTools
<1>6. CASE ReadScope(c)
  BY <1>6 DEF ReadScope
<1>7. CASE ReadRecord(c)
  BY <1>7 DEF ReadRecord
<1>8. CASE ReadTool(c)
  BY <1>8 DEF ReadTool
<1>9. CASE ReadApproval(c)
  BY <1>9 DEF ReadApproval
<1>10. CASE Decide(c)
  BY <1>10 DEF Decide, Dispatch
<1>11. CASE DecideFailsClosed(c)
  BY <1>11 DEF DecideFailsClosed, Dispatch
<1>12. CASE UpstreamUnreachable(c)
  BY <1>12 DEF UpstreamUnreachable
<1>13. CASE InvokeUpstream(c)
  BY <1>13 DEF InvokeUpstream
<1>14. CASE UpstreamAnswers(c)
  BY <1>14 DEF UpstreamAnswers
<1>15. CASE CommitCall(c)
  BY <1>15 DEF CommitCall
<1>16. CASE Abort(c)
  BY <1>16 DEF Abort, FailUse, InTransaction
<1> QED BY <1>1, <1>2, <1>3, <1>4, <1>5, <1>6, <1>7, <1>8, <1>9, <1>10, <1>11, <1>12,
           <1>13, <1>14, <1>15, <1>16 DEF CallMove, CallStep

LEMMA CatalogAndAuditKept ==
    ASSUME CatalogTypeOK, ApprovedIsLogged, UNCHANGED approvals, audit \subseteq audit',
           CatalogNext \/ UNCHANGED catalogVars
    PROVE  CatalogTypeOK' /\ ApprovedIsLogged'
<1>1. CASE CatalogNext
  BY <1>1, CatalogStepTypes DEF ApprovedIsLogged, ApprovalEvent
<1>2. CASE UNCHANGED catalogVars
  BY <1>2 DEF catalogVars, CatalogTypeOK, ApprovedIsLogged, ApprovalEvent
<1> QED BY <1>1, <1>2

\* What the management requests on credentials add to the audit log.
LEMMA TokenAdminAudit ==
    ASSUME TokenAdminNext
    PROVE  /\ UNCHANGED uses /\ audit \subseteq audit'
           /\ \A v \in audit' \ audit : v.action \notin TrailActions
<1> USE DEF TokenEvent, TrailActions, ExecutionStatuses
<1>1. ASSUME NEW o \in AdminOps, NEW t \in Tokens,
             CreateToken(o, t) \/ LoadRotate(o, t) \/ LoadRevoke(o, t)
      PROVE  /\ UNCHANGED uses
             /\ audit' = audit \/ audit' = audit \cup {TokenEvent("credential_created", o, t)}
  BY <1>1 DEF CreateToken, LoadRotate, LoadRevoke, LoadOp
<1>2. ASSUME NEW o \in AdminOps, CommitRotate(o) \/ CommitRevoke(o) \/ FailOp(o)
      PROVE  /\ UNCHANGED uses
             /\ \/ audit' = audit
                \/ audit' = audit \cup {TokenEvent("credential_rotated", o, ops[o].token)}
                \/ audit' = audit \cup {TokenEvent("credential_revoked", o, ops[o].token)}
  BY <1>2 DEF CommitRotate, CommitRevoke, FailOp
<1>3. ASSUME NEW t \in Tokens, ExpireToken(t)
      PROVE  UNCHANGED <<uses, audit>>
  BY <1>3 DEF ExpireToken
<1> QED BY <1>1, <1>2, <1>3 DEF TokenAdminNext

(***************************************************************************)
(* The steps that are not of a call leave the calls and their credentials  *)
(* alone, and add no row of an execution to the audit log.                 *)
(***************************************************************************)
Around ==
    /\ UNCHANGED <<callVars, uses>> /\ audit \subseteq audit'
    /\ \A v \in audit' \ audit : v.action \notin TrailActions

LEMMA AroundCases ==
    ASSUME Surroundings, [Next /\ Bounded]_vars
    PROVE  (\E c \in Calls : CallMove(c)) \/ Around
<1>1. CASE CatalogNext /\ UNCHANGED <<approvalVars, tokenVars, audit, callVars>>
  BY <1>1 DEF tokenVars, Around
<1>2. ASSUME NEW d \in Deciders, RequestStep(d), UNCHANGED <<tokenVars, callVars>>
      PROVE  Around
  <2>1. audit \subseteq audit' /\ \A v \in audit' \ audit : v \in ApprovalEvents
    BY <1>2, RequestStepWrites DEF Surroundings
  <2> QED BY <1>2, <2>1
          DEF tokenVars, Around, ApprovalEvents, Verdicts, TrailActions, ExecutionStatuses
<1>3. CASE TokenAdminNext /\ UNCHANGED callVars
  BY <1>3, TokenAdminAudit DEF Around
<1>4. CASE UNCHANGED vars
  BY <1>4 DEF vars, tokenVars, Around
<1> QED BY <1>1, <1>2, <1>3, <1>4, GatewayStepCases

(***************************************************************************)
(* Every step keeps what holds around the calls.                           *)
(***************************************************************************)
LEMMA SurroundingsKept ==
    ASSUME Surroundings, CallTypes, [Next /\ Bounded]_vars
    PROVE  Surroundings'
<1> USE DEF Surroundings
<1>1. ASSUME NEW c \in Calls, CallMove(c), UNCHANGED <<catalogVars, approvalVars>>
      PROVE  Surroundings'
  <2>1. audit \subseteq audit' /\ UNCHANGED approvals
    BY <1>1, CallMoveFrame DEF Frame, approvalVars
  <2>2. CatalogTypeOK' /\ ApprovedIsLogged'
    BY <1>1, <2>1, CatalogAndAuditKept
  <2> QED BY <1>1, <2>2, CallMoveTokens
          DEF approvalVars, ApprovalsTypeOK, RequestsWellFormed
<1>2. CASE CatalogNext /\ UNCHANGED <<approvalVars, tokenVars, audit, callVars>>
  <2>1. CatalogTypeOK' /\ ApprovedIsLogged'
    BY <1>2, CatalogAndAuditKept DEF approvalVars
  <2> QED BY <1>2, <2>1, TokenStepKeeps
          DEF approvalVars, ApprovalsTypeOK, RequestsWellFormed
<1>3. ASSUME NEW d \in Deciders, RequestStep(d), UNCHANGED <<catalogVars, tokenVars>>
      PROVE  Surroundings'
  <2>1. (ApprovalsTypeOK /\ RequestsWellFormed)'
    BY <1>3, RequestTypeKept
  <2>2. ApprovedIsLogged'
    BY <1>3, RequestStepWrites DEF ApprovedIsLogged, ApprovalEvent, Verdicts
  <2>3. CatalogTypeOK'
    BY <1>3 DEF catalogVars, CatalogTypeOK
  <2> QED BY <1>3, <2>1, <2>2, <2>3, TokenStepKeeps
<1>4. CASE TokenAdminNext /\ UNCHANGED <<catalogVars, approvalVars, callVars>>
  <2>1. CatalogTypeOK' /\ ApprovedIsLogged'
    BY <1>4, TokenAdminAudit, CatalogAndAuditKept DEF approvalVars
  <2>2. TokenStep
    BY <1>4 DEF TokenAdminNext, TokenStep
  <2> QED BY <1>4, <2>1, <2>2, TokenStepKeeps
          DEF approvalVars, ApprovalsTypeOK, RequestsWellFormed
<1>5. CASE UNCHANGED vars
  <2>1. CatalogTypeOK' /\ ApprovedIsLogged'
    BY <1>5, CatalogAndAuditKept DEF vars, approvalVars
  <2> QED BY <1>5, <2>1, TokenStepKeeps
          DEF vars, approvalVars, ApprovalsTypeOK, RequestsWellFormed
<1> QED BY <1>1, <1>2, <1>3, <1>4, <1>5, GatewayStepCases

(***************************************************************************)
(* The rows a call writes when it commits have the types of their tables.  *)
(***************************************************************************)
LEMMA CommittedRows ==
    ASSUME CallTypes, NEW c \in Calls, CallHolds(c), pc[c] = "commit"
    PROVE  /\ ExecutionRow(c) \in ExecutionRows
           /\ Response(c) \in Responses
           /\ request[c].key # None => SlotOf(c) \in Tokens \X Tools \X Keys
<1>1. /\ TokenOf(c) \in Tokens /\ target[c] \in Tools /\ decision[c].effect \in Effects
      /\ outcome[c] \in ExecutionStatuses /\ request[c] \in CallSpace
  BY DEF CallHolds, HasTool, DecisionRows
<1>2. request[c].approval \in Approvals \cup {None} /\ request[c].key \in Keys \cup {None}
  BY <1>1, GatewayAssumption DEF Requests
<1> QED BY <1>1, <1>2 DEF ExecutionRow, ExecutionRows, Response, Responses, SlotOf

(***************************************************************************)
(* Every step of a call keeps the types of what calls hold and write.      *)
(***************************************************************************)
LEMMA CallMoveTypes ==
    ASSUME Surroundings, CallTypes, NEW c \in Calls, CallHolds(c), CallMove(c)
    PROVE  CallTypes'
<1> USE DEF CallTypes, GoTo, Answer, StoreUnchanged, Steps, Replies, ExecutionStatuses
<1>1. ASSUME NEW r \in CallSpace, Arrive(c, r)
      PROVE  CallTypes'
  <2>1. r.tool \in Tools \cup {None}
    BY GatewayAssumption DEF Requests
  <2> QED BY <1>1, <2>1 DEF Arrive
<1>2. CASE Authenticated(c)
  BY <1>2 DEF Authenticated
<1>3. CASE RateLimited(c)
  BY <1>3 DEF RateLimited
<1>4. CASE Admitted(c)
  BY <1>4 DEF Admitted
<1>5. CASE ListTools(c)
  BY <1>5 DEF ListTools
<1>6. CASE ReadScope(c)
  BY <1>6 DEF ReadScope
<1>7. CASE ReadRecord(c)
  BY <1>7 DEF ReadRecord
<1>8. CASE ReadTool(c)
  <2>1. tools[target[c]] \in ToolRows
    BY <1>8 DEF ReadTool, CallHolds, HasTool, Surroundings, CatalogTypeOK
  <2> QED BY <1>8, <2>1 DEF ReadTool
<1>9. CASE ReadApproval(c)
  BY <1>9 DEF ReadApproval
<1>10. ASSUME NEW d \in DecisionRows, pc[c] = "decide", Dispatch(c, d),
              UNCHANGED <<request, target, seen, body, upstream, executions, records>>,
              UNCHANGED reply
       PROVE  CallTypes'
  BY <1>10 DEF Dispatch
<1>11. CASE Decide(c)
  <2>1. /\ rules \subseteq RuleSpace /\ seen[c].risk \in RiskLevels
    BY <1>11 DEF Decide, CallHolds, HasRow, Surroundings, CatalogTypeOK, ToolRows
  <2>2. \A d \in Decisions(rules, ToolAgent[target[c]], target[c], seen[c].risk) :
           d \in DecisionRows
    BY <2>1, DecisionsAreRows
  <2> QED BY <1>10, <1>11, <2>2 DEF Decide
<1>12. CASE DecideFailsClosed(c)
  BY <1>10, <1>12 DEF DecideFailsClosed, FailClosed, DecisionRows, Effects
<1>13. CASE UpstreamUnreachable(c)
  BY <1>13 DEF UpstreamUnreachable
<1>14. CASE InvokeUpstream(c)
  <2>1. target[c] \in Tools /\ seen[c].name \in Names /\ request[c].server \in Servers
    BY <1>14, GatewayAssumption
       DEF InvokeUpstream, CallHolds, HasTool, HasRow, ToolRows, Requests
  <2> QED BY <1>14, <2>1 DEF InvokeUpstream, Asked
<1>15. CASE UpstreamAnswers(c)
  BY <1>15 DEF UpstreamAnswers
<1>16. CASE CommitCall(c)
  <2>1. /\ ExecutionRow(c) \in ExecutionRows /\ Response(c) \in Responses
        /\ request[c].key # None => SlotOf(c) \in Tokens \X Tools \X Keys
    BY <1>16, CommittedRows DEF CommitCall
  <2> QED BY <1>16, <2>1 DEF CommitCall
<1>17. CASE Abort(c)
  BY <1>17 DEF Abort
<1> QED BY <1>1, <1>2, <1>3, <1>4, <1>5, <1>6, <1>7, <1>8, <1>9, <1>11, <1>12,
           <1>13, <1>14, <1>15, <1>16, <1>17 DEF CallMove, CallStep

-----------------------------------------------------------------------------
(***************************************************************************)
(* A call keeps what it holds over the steps of others.                    *)
(***************************************************************************)
Untouched(d) == SameCall(d) /\ uses'[d] = uses[d] /\ audit \subseteq audit'

LEMMA UntouchedHolds ==
    ASSUME NEW d \in Calls, Untouched(d), upstream \subseteq upstream'
    PROVE  /\ CallHolds(d) => CallHolds(d)'
           /\ SentHolds(d) => SentHolds(d)'
           /\ TokenOf(d)' = TokenOf(d)
           /\ SlotOf(d)' = SlotOf(d)
           /\ ExecutionRow(d)' = ExecutionRow(d)
           /\ CallTrail(d)' = CallTrail(d)
<1> USE DEF Untouched, SameCall, TokenOf
<1>1. ApprovalCleared(d) => ApprovalCleared(d)'
  BY DEF ApprovalCleared, ApprovedInLog, ApprovalEvent
<1>2. Passed(d)' <=> Passed(d)
  BY DEF Passed
<1>3. SlotOf(d)' = SlotOf(d)
  BY DEF SlotOf
<1>4. ExecutionRow(d)' = ExecutionRow(d)
  BY DEF ExecutionRow
<1>5. CallTrail(d)' = CallTrail(d)
  BY DEF CallTrail, CallEvent
<1>6. CallHolds(d) => CallHolds(d)'
  BY <1>1, <1>2 DEF CallHolds
<1>7. SentHolds(d) => SentHolds(d)'
  BY <1>1, <1>2 DEF SentHolds
<1> QED BY <1>3, <1>4, <1>5, <1>6, <1>7

(***************************************************************************)
(* Every step of a call leads it to where it holds what is expected there. *)
(***************************************************************************)
LEMMA CallMoveHolds ==
    ASSUME Surroundings, CallTypes, CallTypes', NEW c \in Calls, CallHolds(c),
           CallMove(c)
    PROVE  CallHolds(c)'
<1> USE DEF CallTypes, GoTo, Answer, StoreUnchanged
<1>0. /\ TokensInv'
      /\ pc[c] # "idle" => TokenOf(c)' = TokenOf(c)
      /\ pc[c] # "idle" => request'[c] = request[c]
  BY CallMoveTokens, CallMoveFrame DEF Surroundings, Frame
<1>1. ASSUME NEW r \in CallSpace, Arrive(c, r)
      PROVE  CallHolds(c)'
  <2>1. /\ request'[c] = r /\ target'[c] = r.tool /\ body'[c] = body[c]
        /\ \/ pc'[c] = "credential" /\ uses'[c].pc = "found"
           \/ pc'[c] = "done"
        /\ body[c] = None
    BY <1>1 DEF Arrive, CallHolds
  <2>2. pc'[c] = "credential" => TokenOf(c)' \in Tokens
    BY <1>0, <2>1, GatewayAssumption DEF TokensInv, OpsInv, TokenOf
  <2>3. r.via # "mcp" => r.tool \in Tools
    BY GatewayAssumption DEF Requests
  <2> QED BY <2>1, <2>2, <2>3
          DEF CallHolds, HasTool, HasRow, Cleared
<1>2. CASE pc'[c] = "done" /\ pc[c] # "idle"
  BY <1>0, <1>2 DEF CallHolds, HasTool, HasRow, Cleared
<1>3. CASE Authenticated(c)
  BY <1>0, <1>3 DEF Authenticated, CallHolds, HasTool, HasRow, Cleared
<1>4. CASE Admitted(c)
  BY <1>0, <1>4 DEF Admitted, CallHolds, HasTool, HasRow, Cleared
<1>5. CASE ListTools(c) /\ pc'[c] = "scope"
  BY <1>0, <1>5 DEF ListTools, CallHolds, HasTool, HasRow, Cleared
<1>6. CASE ReadScope(c) /\ pc'[c] # "done"
  BY <1>0, <1>6
     DEF ReadScope, CallHolds, HasTool, HasRow, Cleared
<1>7. CASE ReadRecord(c) /\ pc'[c] # "done"
  BY <1>0, <1>7
     DEF ReadRecord, CallHolds, HasTool, HasRow, Cleared
<1>8. CASE ReadTool(c) /\ pc'[c] # "done"
  <2>1. seen'[c] = tools[target[c]] /\ tools[target[c]] \in ToolRows
    BY <1>8 DEF ReadTool, CallHolds, HasTool, Surroundings, CatalogTypeOK
  <2>2. pc'[c] = "decide" => ApprovalCleared(c)'
    BY <1>0, <1>8 DEF ReadTool, ApprovalCleared
  <2> QED BY <1>0, <1>8, <2>1, <2>2
          DEF ReadTool, CallHolds, HasTool, HasRow, Cleared
<1>9. CASE ReadApproval(c) /\ pc'[c] # "done"
  <2>1. ApprovalValid(c) /\ UNCHANGED <<audit, request, target, seen>>
    BY <1>9 DEF ReadApproval
  <2>2. ApprovalCleared(c)
    BY <2>1, <1>9, GatewayAssumption
       DEF ApprovalValid, ApprovalCleared, ApprovedInLog, Surroundings, ApprovedIsLogged,
           ReadApproval, CallHolds, Requests
  <2>3. ApprovalCleared(c)'
    BY <1>0, <1>9, <2>1, <2>2
       DEF ApprovalCleared, ApprovedInLog, ReadApproval, CallHolds, HasRow
  <2> QED BY <1>0, <1>9, <2>3
          DEF ReadApproval, CallHolds, HasTool, HasRow, Cleared
<1>10. ASSUME NEW d \in DecisionRows, pc[c] = "decide", Dispatch(c, d),
              UNCHANGED <<request, target, seen, body, upstream, audit>>
       PROVE  CallHolds(c)'
  <2>1. ApprovalCleared(c)'
    BY <1>0, <1>10
       DEF ApprovalCleared, ApprovedInLog, CallHolds, HasRow, Cleared
  <2>2. decision'[c] = d
    BY <1>10 DEF Dispatch
  <2>3. \/ pc'[c] = "commit" /\ outcome'[c] \in {"blocked", "requires_approval"}
        \/ pc'[c] = "invoke" /\ Passed(c)'
    BY <1>10, <2>2 DEF Dispatch, Passed
  <2> QED BY <1>0, <1>10, <2>1, <2>2, <2>3
          DEF CallHolds, HasTool, HasRow, Cleared,
              ExecutionStatuses
<1>11. CASE Decide(c) /\ pc'[c] # "done"
  <2>1. /\ rules \subseteq RuleSpace /\ seen[c].risk \in RiskLevels
    BY <1>11 DEF Decide, CallHolds, HasRow, Surroundings, CatalogTypeOK, ToolRows
  <2>2. \A d \in Decisions(rules, ToolAgent[target[c]], target[c], seen[c].risk) :
           d \in DecisionRows
    BY <2>1, DecisionsAreRows
  <2> QED BY <1>10, <1>11, <2>2 DEF Decide
<1>12. CASE DecideFailsClosed(c)
  BY <1>10, <1>12 DEF DecideFailsClosed, FailClosed, DecisionRows, Effects
<1>13. CASE UpstreamUnreachable(c)
  <2>1. ApprovalCleared(c)'
    BY <1>0, <1>13
       DEF UpstreamUnreachable, ApprovalCleared, ApprovedInLog, CallHolds,
           HasRow, Cleared
  <2> QED BY <1>0, <1>13, <2>1
          DEF UpstreamUnreachable, CallHolds, HasTool, HasRow, Cleared,
              Passed, ExecutionStatuses
<1>14. CASE InvokeUpstream(c)
  <2>1. ApprovalCleared(c)' /\ Passed(c)'
    BY <1>0, <1>14
       DEF InvokeUpstream, ApprovalCleared, ApprovedInLog, CallHolds,
           HasRow, Cleared, Passed
  <2> DEFINE asked == Asked(c, target[c], seen[c].name)
  <2>2. asked \in upstream' /\ asked.call = c /\ asked.tool = target[c]
    BY <1>14 DEF InvokeUpstream, Asked
  <2> HIDE DEF asked
  <2> QED BY <1>0, <1>14, <2>1, <2>2
          DEF InvokeUpstream, CallHolds, HasTool, HasRow, Cleared
<1>15. CASE UpstreamAnswers(c)
  <2>1. ApprovalCleared(c)'
    BY <1>0, <1>15
       DEF UpstreamAnswers, ApprovalCleared, ApprovedInLog, CallHolds,
           HasRow, Cleared
  <2>2. \E u \in upstream : u.call = c /\ u.tool = target[c]
    BY <1>15 DEF UpstreamAnswers, CallHolds
  <2> QED BY <1>0, <1>15, <2>1, <2>2
          DEF UpstreamAnswers, CallHolds, HasTool, HasRow, Cleared,
              Passed, ExecutionStatuses
<1>16. CASE CommitCall(c) \/ RateLimited(c) \/ Abort(c)
  BY <1>2, <1>16
     DEF CommitCall, RateLimited, Abort, InTransaction
<1>17. CASE ListTools(c) \/ ReadScope(c) \/ ReadRecord(c) \/ ReadTool(c)
            \/ ReadApproval(c) \/ Decide(c)
  <2>1. pc[c] # "idle"
    BY <1>17 DEF ListTools, ReadScope, ReadRecord, ReadTool, ReadApproval, Decide
  <2>2. ListTools(c) => pc'[c] \in {"scope", "done"}
    BY DEF ListTools
  <2> QED BY <1>2, <1>5, <1>6, <1>7, <1>8, <1>9, <1>11, <1>17, <2>1, <2>2
<1> QED BY <1>1, <1>3, <1>4, <1>12, <1>13, <1>14, <1>15, <1>16, <1>17
        DEF CallMove, CallStep

(***************************************************************************)
(* Which steps of a call write what: a step that is none of the three that *)
(* write upstream, records, executions or answers with a response.         *)
(***************************************************************************)
Quiet(c) ==
    /\ UNCHANGED <<upstream, executions, records, body>>
    /\ \A v \in audit' \ audit : v.action \notin TrailActions
    /\ pc[c] \in Sent => pc'[c] \in Sent /\ UNCHANGED <<request, target, seen, decision>>

LEMMA CallMoveWrites ==
    ASSUME NEW c \in Calls, CallMove(c), CallTypes
    PROVE  Quiet(c) \/ InvokeUpstream(c) \/ ReadRecord(c) \/ CommitCall(c)
<1> USE DEF Quiet, GoTo, Answer, StoreUnchanged, TrailActions, ExecutionStatuses,
            TokenEvent, CallEvent, Sent
<1>1. ASSUME NEW r \in CallSpace, Arrive(c, r)
      PROVE  Quiet(c)
  BY <1>1 DEF Arrive, LookUpToken
<1>2. CASE Authenticated(c)
  BY <1>2 DEF Authenticated, MarkTokenUsed
<1>3. CASE RateLimited(c)
  BY <1>3 DEF RateLimited
<1>4. CASE Admitted(c)
  BY <1>4 DEF Admitted
<1>5. CASE ListTools(c)
  BY <1>5 DEF ListTools
<1>6. CASE ReadScope(c)
  BY <1>6 DEF ReadScope
<1>7. CASE ReadTool(c)
  BY <1>7 DEF ReadTool
<1>8. CASE ReadApproval(c)
  BY <1>8 DEF ReadApproval
<1>9. CASE Decide(c)
  BY <1>9 DEF Decide, Dispatch
<1>10. CASE DecideFailsClosed(c)
  BY <1>10 DEF DecideFailsClosed, Dispatch
<1>11. CASE UpstreamUnreachable(c)
  BY <1>11 DEF UpstreamUnreachable
<1>12. CASE UpstreamAnswers(c)
  BY <1>12 DEF UpstreamAnswers, CallTypes
<1>13. CASE Abort(c)
  BY <1>13 DEF Abort, FailUse, CallTypes
<1> QED BY <1>1, <1>2, <1>3, <1>4, <1>5, <1>6, <1>7, <1>8, <1>9, <1>10, <1>11, <1>12,
           <1>13 DEF CallMove, CallStep

(***************************************************************************)
(* What went upstream was asked for by a call that keeps to its decision,  *)
(* its approval and its scope from then on.                                *)
(***************************************************************************)
LEMMA CallMoveUpstream ==
    ASSUME Surroundings, CallTypes, UpstreamInv, NEW c \in Calls, CallHolds(c),
           CallMove(c)
    PROVE  UpstreamInv' /\ upstream \subseteq upstream'
<1>0. /\ \A d \in Calls \ {c} : Untouched(d)
      /\ pc[c] # "done" /\ audit \subseteq audit'
      /\ pc[c] # "idle" => TokenOf(c)' = TokenOf(c)
  BY CallMoveTokens, CallMoveFrame DEF Surroundings, Frame, Untouched
<1>1. upstream \subseteq upstream'
  BY CallMoveWrites DEF Quiet, InvokeUpstream, ReadRecord, CommitCall, StoreUnchanged
<1>2. ASSUME NEW u \in upstream, u.call # c
      PROVE  /\ pc'[u.call] \in Sent
             /\ u.tool = target'[u.call] /\ u.name = seen'[u.call].name
             /\ SentHolds(u.call)'
  <2>1. u.call \in Calls \ {c}
    BY <1>2 DEF CallTypes
  <2>2. SentHolds(u.call)'
    BY <1>0, <1>1, <2>1, UntouchedHolds DEF UpstreamInv
  <2> QED BY <1>0, <2>1, <2>2 DEF UpstreamInv, Untouched, SameCall
<1>3. ASSUME NEW u \in upstream, u.call = c
      PROVE  /\ pc'[c] \in Sent
             /\ u.tool = target'[c] /\ u.name = seen'[c].name
             /\ SentHolds(c)'
  <2>1. pc[c] \in {"upstream", "commit"} /\ SentHolds(c)
    BY <1>0, <1>3 DEF UpstreamInv, Sent
  <2>2. pc'[c] \in Sent /\ UNCHANGED <<request, target, seen, decision>>
    BY <2>1, CallMoveWrites
       DEF Quiet, Sent, InvokeUpstream, ReadRecord, CommitCall, Answer, GoTo, CallTypes
  <2>3. SentHolds(c)'
    BY <1>0, <2>1, <2>2
       DEF SentHolds, ApprovalCleared, ApprovedInLog, ApprovalEvent, Passed
  <2> QED BY <1>3, <2>2, <2>3 DEF UpstreamInv
<1>4. ASSUME InvokeUpstream(c)
      PROVE  /\ pc'[c] \in Sent /\ SentHolds(c)'
             /\ upstream' = upstream \cup {Asked(c, target[c], seen[c].name)'}
  <2>1. SentHolds(c)
    BY <1>4 DEF InvokeUpstream, CallHolds, SentHolds, HasTool, HasRow, Cleared
  <2>2. SentHolds(c)'
    BY <1>0, <1>4, <2>1
       DEF InvokeUpstream, SentHolds, ApprovalCleared, ApprovedInLog,
           ApprovalEvent, Passed
  <2> QED BY <1>4, <2>2 DEF InvokeUpstream, GoTo, Sent, CallTypes, Asked
<1>5. CASE UNCHANGED upstream
  BY <1>2, <1>3, <1>5 DEF UpstreamInv
<1>6. CASE InvokeUpstream(c)
  BY <1>2, <1>3, <1>4, <1>6 DEF UpstreamInv, Asked
<1> QED BY <1>1, <1>5, <1>6, CallMoveWrites
        DEF Quiet, ReadRecord, CommitCall, StoreUnchanged

-----------------------------------------------------------------------------
(***************************************************************************)
(* The rows of calls that are over stay true while others go on.           *)
(***************************************************************************)
LEMMA RowsKept ==
    ASSUME CallTypes, ExecutionsInv, AuditInv, RecordsInv,
           \A d \in Calls : pc[d] = "done" => Untouched(d),
           upstream \subseteq upstream', audit \subseteq audit',
           UNCHANGED <<executions, records>>,
           \A v \in audit' \ audit : v.action \notin TrailActions
    PROVE  (ExecutionsInv /\ AuditInv /\ RecordsInv)'
<1>1. ASSUME NEW e \in executions
      PROVE  /\ pc'[e.call] = "done" /\ e = ExecutionRow(e.call)'
             /\ CallTrail(e.call)' \subseteq audit'
  <2>1. e.call \in Calls /\ pc[e.call] = "done"
    BY DEF CallTypes, ExecutionRows, ExecutionsInv
  <2>2. Untouched(e.call)
    BY <2>1
  <2> QED BY <2>1, <2>2, UntouchedHolds DEF ExecutionsInv, Untouched, SameCall
<1>2. ExecutionsInv'
  BY <1>1 DEF ExecutionsInv
<1>3. AuditInv'
  BY DEF AuditInv
<1>4. RecordsInv'
  BY DEF RecordsInv
<1> QED BY <1>2, <1>3, <1>4

\* An answer that was true stays true.
LEMMA AnswerKept ==
    ASSUME NEW d \in Calls, Untouched(d), AnswerHolds(d),
           upstream \subseteq upstream', executions \subseteq executions',
           records \subseteq records', \A u \in upstream' \ upstream : u.call # d
    PROVE  AnswerHolds(d)'
<1>1. TokenOf(d)' = TokenOf(d) /\ SlotOf(d)' = SlotOf(d)
  BY UntouchedHolds
<1>2. /\ target'[d] = target[d] /\ request'[d] = request[d]
      /\ body'[d] = body[d] /\ reply'[d] = reply[d]
  BY DEF Untouched, SameCall
<1> QED BY <1>1, <1>2 DEF AnswerHolds

(***************************************************************************)
(* A step that writes no execution, no record and no answer.               *)
(***************************************************************************)
LEMMA StoreKept ==
    ASSUME CallTypes, \A d \in Calls : CallHolds(d), StoreInv,
           \A d \in Calls : pc[d] = "done" => Untouched(d),
           upstream \subseteq upstream', audit \subseteq audit',
           \A u \in upstream' \ upstream : pc[u.call] # "done",
           UNCHANGED <<executions, records, body>>,
           \A v \in audit' \ audit : v.action \notin TrailActions
    PROVE  StoreInv'
<1>1. (ExecutionsInv /\ AuditInv /\ RecordsInv)'
  BY RowsKept DEF StoreInv
<1>2. ASSUME NEW d \in Calls, body'[d] # None
      PROVE  AnswerHolds(d)'
  <2>1. body[d] # None /\ pc[d] = "done"
    BY <1>2 DEF CallHolds
  <2>2. AnswerHolds(d)
    BY <2>1 DEF StoreInv, AnswersInv
  <2> QED BY <2>1, <2>2, AnswerKept
<1> QED BY <1>1, <1>2 DEF StoreInv, AnswersInv

(***************************************************************************)
(* A replay answers with a recorded response: of a call that is over, and  *)
(* so another one, and that this call never asked the upstream server.     *)
(***************************************************************************)
LEMMA ReplayKeepsStore ==
    ASSUME Surroundings, CallTypes, \A d \in Calls : CallHolds(d), UpstreamInv, StoreInv,
           NEW c \in Calls, ReadRecord(c)
    PROVE  StoreInv'
<1>0. CallMove(c)
  BY DEF CallMove, CallStep
<1>1. /\ \A d \in Calls \ {c} : Untouched(d)
      /\ audit \subseteq audit' /\ pc[c] = "record"
      /\ UNCHANGED <<upstream, executions, records, request, target>>
      /\ TokenOf(c)' = TokenOf(c)
  BY <1>0, CallMoveTokens, CallMoveFrame
     DEF Surroundings, Frame, Untouched, ReadRecord, StoreUnchanged
<1>2. \A v \in audit' \ audit : v.action \notin TrailActions
  BY DEF ReadRecord, CallEvent, TrailActions, ExecutionStatuses
<1>3. CASE UNCHANGED body
  BY <1>1, <1>2, <1>3, StoreKept
<1>4. ASSUME NEW r \in records, r.slot = SlotOf(c),
             body' = [body EXCEPT ![c] = r.response]
      PROVE  StoreInv'
  <2>1. (ExecutionsInv /\ AuditInv /\ RecordsInv)'
    BY <1>1, <1>2, RowsKept DEF StoreInv
  <2>2. PICK e \in executions :
           /\ r.response = [execution |-> e.call, status |-> e.status, effect |-> e.effect]
           /\ r.slot[1] = e.token /\ r.slot[2] = e.tool
    BY DEF StoreInv, RecordsInv
  <2>3. e.token = TokenOf(c) /\ e.tool = target[c] /\ e.call # c
    BY <1>1, <1>4, <2>2 DEF SlotOf, StoreInv, ExecutionsInv
  <2>4. r = [slot |-> r.slot, response |-> r.response]
    BY DEF CallTypes
  <2>5. \A u \in upstream : u.call # c
    BY <1>1 DEF UpstreamInv, Sent
  <2>6. TokenOf(c) \in Tokens /\ target[c] \in Tools
    BY <1>1 DEF CallHolds, HasTool
  <2>7. body'[c] = r.response /\ SlotOf(c)' = SlotOf(c)
    BY <1>1, <1>4 DEF CallTypes, SlotOf
  <2>8. AnswerHolds(c)'
    BY <1>1, <1>4, <2>2, <2>3, <2>4, <2>5, <2>6, <2>7 DEF AnswerHolds
  <2>9. ASSUME NEW d \in Calls \ {c}, body'[d] # None
        PROVE  AnswerHolds(d)'
    <3>1. body[d] # None
      BY <1>1, <2>9 DEF Untouched, SameCall
    <3> QED BY <1>1, <3>1, AnswerKept DEF StoreInv, AnswersInv
  <2> QED BY <2>1, <2>8, <2>9 DEF StoreInv, AnswersInv
<1> QED BY <1>3, <1>4 DEF ReadRecord

(***************************************************************************)
(* The last transaction of a call: its execution, the whole audit trail of *)
(* it and, under a key, the record, or nothing of all that.                *)
(***************************************************************************)
LEMMA CommitKeepsStore ==
    ASSUME Surroundings, CallTypes, \A d \in Calls : CallHolds(d), StoreInv,
           NEW c \in Calls, CommitCall(c)
    PROVE  StoreInv'
<1>0. CallMove(c)
  BY DEF CallMove, CallStep
<1>1. /\ \A d \in Calls \ {c} : Untouched(d)
      /\ audit \subseteq audit' /\ pc[c] = "commit" /\ pc'[c] = "done"
      /\ UNCHANGED <<upstream, request, target, decision, outcome>>
      /\ TokenOf(c)' = TokenOf(c)
  BY <1>0, CallMoveTokens, CallMoveFrame
     DEF Surroundings, Frame, Untouched, CommitCall, Answer, GoTo, CallTypes
<1>2. CASE KeyTaken(c)
  <2>1. UNCHANGED <<audit, executions, records, body>>
    BY <1>2 DEF CommitCall
  <2> QED BY <1>1, <2>1, StoreKept
<1>3. CASE ~KeyTaken(c)
  <2> DEFINE row == ExecutionRow(c)
             rec == [slot |-> SlotOf(c), response |-> Response(c)]
  <2>1. /\ executions' = executions \cup {row} /\ audit' = audit \cup CallTrail(c)
        /\ records' = IF request[c].key = None THEN records ELSE records \cup {rec}
        /\ body' = [body EXCEPT ![c] = Response(c)] /\ reply' = [reply EXCEPT ![c] = "response"]
    BY <1>3 DEF CommitCall, Answer
  <2>2. /\ row = ExecutionRow(c)' /\ SlotOf(c)' = SlotOf(c) /\ CallTrail(c)' = CallTrail(c)
    BY <1>1 DEF ExecutionRow, SlotOf, CallTrail, CallEvent
  <2>3. /\ row.call = c /\ row.token = TokenOf(c) /\ row.tool = target[c]
        /\ row.status = outcome[c] /\ row.effect = decision[c].effect
        /\ rec.slot = SlotOf(c) /\ rec.response = Response(c)
    BY DEF ExecutionRow
  <2> HIDE DEF row, rec
  <2>4. ASSUME NEW e \in executions
        PROVE  /\ pc'[e.call] = "done" /\ e = ExecutionRow(e.call)'
               /\ CallTrail(e.call)' \subseteq audit'
               /\ e.call # c
    <3>1. e.call \in Calls \ {c}
      BY <1>1 DEF CallTypes, ExecutionRows, StoreInv, ExecutionsInv
    <3>2. Untouched(e.call)
      BY <1>1, <3>1
    <3> QED BY <1>1, <3>1, <3>2, UntouchedHolds
            DEF StoreInv, ExecutionsInv, Untouched, SameCall
  <2>5. row.status = "succeeded" => \E u \in upstream : u.call = row.call /\ u.tool = row.tool
    BY <1>1, <2>3 DEF CallHolds
  <2>6. ExecutionsInv'
    BY <1>1, <2>1, <2>2, <2>3, <2>4, <2>5 DEF StoreInv, ExecutionsInv
  <2>7. AuditInv'
    <3>1. \A v \in CallTrail(c) : v.by = c
      BY DEF CallTrail, CallEvent
    <3> QED BY <2>1, <2>3, <3>1 DEF StoreInv, AuditInv
  <2>8. RecordsInv'
    <3>1. /\ rec.response = [execution |-> row.call, status |-> row.status,
                             effect |-> row.effect]
          /\ rec.slot[1] = row.token /\ rec.slot[2] = row.tool
      BY <2>3 DEF Response, SlotOf
    <3>2. request[c].key # None => \A r \in records : r.slot # rec.slot
      BY <1>3, <2>3 DEF KeyTaken
    <3> QED BY <2>1, <3>1, <3>2 DEF StoreInv, RecordsInv
  <2>9. AnswerHolds(c)'
    <3>1. body'[c] = Response(c) /\ reply'[c] = "response"
      BY <2>1 DEF CallTypes
    <3>2. TokenOf(c) \in Tokens /\ target[c] \in Tools
      BY <1>1 DEF CallHolds, HasTool
    <3>3. /\ row.call = body'[c].execution /\ row.status = body'[c].status
      BY <2>3, <3>1 DEF Response
    <3>4. request[c].key # None => [slot |-> SlotOf(c)', response |-> body'[c]] \in records'
      BY <2>1, <2>2, <3>1 DEF rec
    <3> QED BY <1>1, <2>1, <2>3, <3>1, <3>2, <3>3, <3>4 DEF AnswerHolds
  <2>10. ASSUME NEW d \in Calls \ {c}, body'[d] # None
         PROVE  AnswerHolds(d)'
    <3>1. body[d] # None
      BY <1>1, <2>10 DEF Untouched, SameCall
    <3>2. executions \subseteq executions' /\ records \subseteq records'
      BY <2>1
    <3> QED BY <1>1, <3>1, <3>2, AnswerKept DEF StoreInv, AnswersInv
  <2> QED BY <2>6, <2>7, <2>8, <2>9, <2>10 DEF StoreInv, AnswersInv
<1> QED BY <1>2, <1>3

-----------------------------------------------------------------------------
(***************************************************************************)
(* The invariant of the gateway is inductive.                              *)
(***************************************************************************)
LEMMA InitEstablishes == GatewayInit => GatewayInv
<1> SUFFICES ASSUME GatewayInit PROVE GatewayInv
  OBVIOUS
<1>1. CatalogTypeOK
  BY CatalogAssumption DEF GatewayInit, CatalogInit, CatalogTypeOK
<1>2. ApprovalsTypeOK /\ RequestsWellFormed /\ ApprovedIsLogged
  BY DEF GatewayInit, ApprovalsInit, ApprovalsTypeOK, RequestsWellFormed,
         ApprovedIsLogged, IdleDecider, DeciderStates, ApprovalStatuses
<1>3. TokensInv
  BY GatewayTokensAssumption
     DEF GatewayInit, TokensInit, TokensInv, TokensTypeOK, SecretsInv, OpsInv,
         RetiredStaysRetired, IdleOp, IdleUse, OpStates, UseStates, TokenRows, NoRow
<1>4. CallTypes
  BY DEF GatewayInit, CallTypes, Steps
<1>5. \A c \in Calls : CallHolds(c)
  BY DEF GatewayInit, CallHolds, HasTool, HasRow, Cleared
<1>6. UpstreamInv /\ StoreInv
  BY DEF GatewayInit, UpstreamInv, StoreInv, ExecutionsInv, AuditInv, RecordsInv, AnswersInv
<1> QED BY <1>1, <1>2, <1>3, <1>4, <1>5, <1>6 DEF GatewayInv, Surroundings

LEMMA CallMoveKeeps ==
    ASSUME GatewayInv, Surroundings', NEW c \in Calls, CallMove(c)
    PROVE  GatewayInv'
<1> USE DEF GatewayInv
<1>0. /\ \A d \in Calls \ {c} : Untouched(d)
      /\ pc[c] # "done" /\ audit \subseteq audit'
  BY CallMoveTokens, CallMoveFrame DEF Surroundings, Frame, Untouched
<1>1. CallTypes'
  BY CallMoveTypes
<1>2. UpstreamInv' /\ upstream \subseteq upstream'
  BY CallMoveUpstream
<1>3. CallHolds(c)'
  BY <1>1, CallMoveHolds
<1>4. \A d \in Calls : CallHolds(d)'
  BY <1>0, <1>2, <1>3, UntouchedHolds
<1>5. StoreInv'
  <2>1. CASE Quiet(c)
    BY <1>0, <1>2, <2>1, StoreKept DEF Quiet
  <2>2. CASE InvokeUpstream(c)
    <3>1. /\ pc[c] = "invoke" /\ UNCHANGED <<executions, records, body, audit>>
          /\ \A u \in upstream' \ upstream : u.call = c
      BY <2>2 DEF InvokeUpstream, Asked
    <3> QED BY <1>0, <1>2, <3>1, StoreKept
  <2>3. CASE ReadRecord(c)
    BY <2>3, ReplayKeepsStore
  <2>4. CASE CommitCall(c)
    BY <2>4, CommitKeepsStore
  <2> QED BY <2>1, <2>2, <2>3, <2>4, CallMoveWrites
<1> QED BY <1>1, <1>2, <1>4, <1>5

LEMMA AroundKeeps ==
    ASSUME GatewayInv, Surroundings', Around
    PROVE  GatewayInv'
<1> USE DEF GatewayInv
<1>1. UNCHANGED callVars /\ \A d \in Calls : Untouched(d)
  BY DEF Around, callVars, Untouched, SameCall
<1>2. CallTypes'
  BY <1>1 DEF callVars, CallTypes
<1>3. \A d \in Calls : CallHolds(d)'
  BY <1>1, UntouchedHolds DEF callVars
<1>4. UpstreamInv'
  <2>1. ASSUME NEW u \in upstream
        PROVE  /\ pc'[u.call] \in Sent
               /\ u.tool = target'[u.call] /\ u.name = seen'[u.call].name
               /\ SentHolds(u.call)'
    <3>1. u.call \in Calls
      BY DEF CallTypes
    <3> QED BY <1>1, <3>1, UntouchedHolds DEF callVars, UpstreamInv
  <2> QED BY <1>1, <2>1 DEF callVars, UpstreamInv
<1>5. StoreInv'
  BY <1>1, StoreKept DEF Around, callVars
<1> QED BY <1>2, <1>3, <1>4, <1>5

LEMMA GatewayInvariant == Spec => []GatewayInv
<1>1. GatewayInv /\ [Next /\ Bounded]_vars => GatewayInv'
  BY SurroundingsKept, AroundCases, CallMoveKeeps, AroundKeeps DEF GatewayInv
<1> QED BY <1>1, InitEstablishes, PTL DEF Spec

-----------------------------------------------------------------------------
(***************************************************************************)
(* What a call, the catalogue, the approvals and the credentials hold has  *)
(* its type throughout.                                                    *)
(***************************************************************************)
THEOREM GatewayTypeCorrect == Spec => []TypeOK
<1>1. GatewayInv => TypeOK
  BY DEF GatewayInv, Surroundings, TokensInv, CallTypes, TypeOK, DecisionRows
<1> QED BY <1>1, GatewayInvariant, PTL

(***************************************************************************)
(* Nothing reaches an upstream server that policy blocked or that needed   *)
(* an approval it does not have, under the very name it was approved for:  *)
(* the name that goes out is the one of the row the approval was compared  *)
(* with, and an approval that is approved is in the audit log for good.    *)
(***************************************************************************)
THEOREM UpstreamAuthorized == Spec => []UpstreamWasAuthorized
<1>1. GatewayInv => UpstreamWasAuthorized
  BY DEF GatewayInv, UpstreamInv, SentHolds, Passed, ApprovalCleared,
         UpstreamWasAuthorized
<1> QED BY <1>1, GatewayInvariant, PTL

(***************************************************************************)
(* Executions, audit rows and call records are written together or not at  *)
(* all, whatever aborts, and whichever of two calls on a key is refused by *)
(* the unique index.                                                       *)
(***************************************************************************)
THEOREM TrailAtomic == Spec => []TrailIsAtomic
<1>1. GatewayInv => TrailIsAtomic
  BY DEF GatewayInv, StoreInv, ExecutionsInv, AuditInv, RecordsInv, TrailActions,
         TrailIsAtomic
<1> QED BY <1>1, GatewayInvariant, PTL

(***************************************************************************)
(* What a client is told is what is recorded, and a success it is told of  *)
(* was asked of the upstream server once the call itself was its own and   *)
(* never by a call that replays it.                                        *)
(***************************************************************************)
THEOREM AnswersTrue == Spec => []AnswersAreTrue
<1>1. GatewayInv => AnswersAreTrue
  <2> SUFFICES ASSUME GatewayInv, NEW c \in Calls, body[c] # None
               PROVE  /\ \E e \in executions : /\ e.call = body[c].execution
                                               /\ e.status = body[c].status
                                               /\ e.token = TokenOf(c) /\ e.tool = target[c]
                      /\ body[c].status = "succeeded" =>
                            \E u \in upstream : u.call = body[c].execution /\ u.tool = target[c]
                      /\ reply[c] = "replay" =>
                            body[c].execution # c /\ \A u \in upstream : u.call # c
    BY DEF AnswersAreTrue
  <2>1. AnswerHolds(c)
    BY DEF GatewayInv, StoreInv, AnswersInv
  <2>2. PICK e \in executions : /\ e.call = body[c].execution /\ e.status = body[c].status
                                /\ e.token = TokenOf(c) /\ e.tool = target[c]
    BY <2>1 DEF AnswerHolds
  <2>3. e.status = "succeeded" => \E u \in upstream : u.call = e.call /\ u.tool = e.tool
    BY DEF GatewayInv, StoreInv, ExecutionsInv
  <2> QED BY <2>1, <2>2, <2>3 DEF AnswerHolds
<1> QED BY <1>1, GatewayInvariant, PTL

-----------------------------------------------------------------------------
(***************************************************************************)
(* The refinement of CallLedger.  What the ledger calls the answer of call *)
(* c, and how a step of the gateway changes the answers.                   *)
(***************************************************************************)
AnswerOf(c) == IF body[c] # None /\ request[c].key # None
               THEN [slot |-> SlotOf(c), response |-> body[c]]
               ELSE None

Answers == [c \in Calls |-> AnswerOf(c)]

LEMMA AnswersChange ==
    ASSUME GatewayInv, NEW c \in Calls, CallMove(c)
    PROVE  /\ Answers[c] = None
           /\ Answers' = [Answers EXCEPT ![c] = AnswerOf(c)']
           /\ body'[c] = None => Answers' = Answers
<1>1. \A d \in Calls \ {c} : Untouched(d)
  BY CallMoveTokens, CallMoveFrame DEF GatewayInv, Surroundings, Frame, Untouched
<1>2. body[c] = None
  BY CallMoveFrame DEF GatewayInv, CallHolds, Frame
<1>3. AnswerOf(c) = None /\ (body'[c] = None => AnswerOf(c)' = None)
  BY <1>2 DEF AnswerOf
<1>4. \A d \in Calls \ {c} : AnswerOf(d)' = AnswerOf(d)
  BY <1>1 DEF AnswerOf, SlotOf, TokenOf, Untouched, SameCall
<1>5. Answers' = [d \in Calls |-> AnswerOf(d)']
  BY DEF Answers
<1> QED BY <1>3, <1>4, <1>5 DEF Answers

\* The steps that leave the ledger as it is, that read it, and that add to it.
LEMMA CallMoveLedger ==
    ASSUME GatewayInv, NEW c \in Calls, CallMove(c)
    PROVE  \/ UNCHANGED <<records, Answers>>
           \/ /\ \E e \in records : Answers' = [Answers EXCEPT ![c] = e]
              /\ UNCHANGED records
           \/ \E e \in [slot : Tokens \X Tools \X Keys, response : Responses] :
                 /\ \A f \in records : f.slot # e.slot
                 /\ records' = records \cup {e}
                 /\ Answers' = [Answers EXCEPT ![c] = e]
<1>1. /\ body[c] = None
      /\ pc[c] # "idle" => request'[c] = request[c] /\ TokenOf(c)' = TokenOf(c)
  BY CallMoveTokens, CallMoveFrame DEF GatewayInv, Surroundings, CallHolds, Frame
<1>2. CASE Quiet(c) \/ InvokeUpstream(c)
  BY <1>1, <1>2, AnswersChange DEF Quiet, InvokeUpstream
<1>3. CASE ReadRecord(c)
  <2>1. pc[c] = "record" /\ request[c].key # None /\ UNCHANGED <<records, target>>
    BY <1>3 DEF ReadRecord, StoreUnchanged, GatewayInv, CallHolds
  <2>2. CASE UNCHANGED body
    BY <1>1, <2>1, <2>2, AnswersChange
  <2>3. ASSUME NEW r \in records, r.slot = SlotOf(c),
               body' = [body EXCEPT ![c] = r.response]
        PROVE  Answers' = [Answers EXCEPT ![c] = r]
    <3>1. r = [slot |-> r.slot, response |-> r.response] /\ r.response # None
      BY GatewayAssumption DEF GatewayInv, CallTypes
    <3>2. body'[c] = r.response /\ SlotOf(c)' = r.slot
      BY <1>1, <2>1, <2>3 DEF GatewayInv, CallTypes, SlotOf
    <3>3. AnswerOf(c)' = r
      BY <1>1, <2>1, <3>1, <3>2 DEF AnswerOf
    <3> QED BY <3>3, AnswersChange
  <2> QED BY <1>3, <2>1, <2>2, <2>3 DEF ReadRecord
<1>4. CASE CommitCall(c)
  <2>1. pc[c] = "commit" /\ UNCHANGED <<request, target>>
    BY <1>4 DEF CommitCall
  <2>2. CASE KeyTaken(c)
    BY <1>1, <1>4, <2>2, AnswersChange DEF CommitCall
  <2>3. CASE ~KeyTaken(c)
    <3> DEFINE e == [slot |-> SlotOf(c), response |-> Response(c)]
    <3>1. /\ body'[c] = Response(c) /\ SlotOf(c)' = SlotOf(c)
          /\ records' = IF request[c].key = None THEN records ELSE records \cup {e}
      BY <1>1, <1>4, <2>1, <2>3 DEF CommitCall, GatewayInv, CallTypes, SlotOf
    <3>2. /\ Response(c) \in Responses /\ Response(c) # None
          /\ request[c].key # None => SlotOf(c) \in Tokens \X Tools \X Keys
      BY <2>1, CommittedRows, GatewayAssumption DEF GatewayInv
    <3>3. CASE request[c].key = None
      <4>1. AnswerOf(c)' = None
        BY <2>1, <3>3 DEF AnswerOf
      <4>2. Answers' = Answers
        BY <4>1, AnswersChange DEF Answers
      <4> QED BY <3>1, <3>3, <4>2
    <3>4. CASE request[c].key # None
      <4>1. AnswerOf(c)' = e
        BY <2>1, <3>1, <3>2, <3>4 DEF AnswerOf
      <4>2. \A f \in records : f.slot # e.slot
        BY <2>3, <3>4 DEF KeyTaken
      <4>3. e \in [slot : Tokens \X Tools \X Keys, response : Responses]
        BY <3>2, <3>4
      <4> HIDE DEF e
      <4> QED BY <3>1, <3>4, <4>1, <4>2, <4>3, AnswersChange
    <3> QED BY <3>3, <3>4
  <2> QED BY <2>2, <2>3
<1> QED BY <1>2, <1>3, <1>4, CallMoveWrites DEF GatewayInv

(***************************************************************************)
(* The gateway implements the ledger: a commit under a key fixes the       *)
(* response of its slot, a replay repeats it, and every other step leaves  *)
(* ledger and answers alone.                                               *)
(***************************************************************************)
THEOREM GatewayImplementsLedger == Spec => ImplementsLedger
<1>1. GatewayInit => Ledger!Init
  BY DEF GatewayInit, Ledger!Init
<1>2. GatewayInv /\ [Next /\ Bounded]_vars => [Ledger!Next]_<<records, Answers>>
  <2> SUFFICES ASSUME GatewayInv, [Next /\ Bounded]_vars
               PROVE  Ledger!Next \/ UNCHANGED <<records, Answers>>
    OBVIOUS
  <2>1. ASSUME NEW c \in Calls, CallMove(c)
        PROVE  Ledger!Next \/ UNCHANGED <<records, Answers>>
    <3>1. \A e \in Ledger!Entries :
             /\ Answers[c] = None /\ (\A f \in records : f.slot # e.slot)
             /\ records' = records \cup {e} /\ Answers' = [Answers EXCEPT ![c] = e]
             => Ledger!Fix(c, e)
      BY DEF Ledger!Fix, Answers, AnswerOf
    <3>2. \A e \in records :
             /\ Answers[c] = None /\ UNCHANGED records
             /\ Answers' = [Answers EXCEPT ![c] = e]
             => Ledger!Repeat(c, e)
      BY DEF Ledger!Repeat, Answers, AnswerOf
    <3>3. (\E e \in Ledger!Entries : Ledger!Fix(c, e))
             \/ (\E e \in records : Ledger!Repeat(c, e)) => Ledger!Next
      BY DEF Ledger!Next
    <3> QED BY <2>1, <3>1, <3>2, <3>3, CallMoveLedger, AnswersChange DEF Ledger!Entries
  <2>2. CASE Around
    BY <2>2 DEF Around, callVars, Answers, AnswerOf, SlotOf, TokenOf
  <2> QED BY <2>1, <2>2, AroundCases DEF GatewayInv
<1> QED BY <1>1, <1>2, GatewayInvariant, PTL
        DEF Spec, ImplementsLedger, Ledger!Spec, Answers, AnswerOf

(***************************************************************************)
(* Two answers with a response under one idempotency key are the same      *)
(* response, also when the calls overlapped.                               *)
(***************************************************************************)
THEOREM AnswersAgree == Spec => []Ledger!AnswersAgree
<1>1. GatewayInv => Ledger!AnswersAgree
  <2> SUFFICES ASSUME GatewayInv, NEW c \in Calls, NEW d \in Calls,
                      AnswerOf(c) # None, AnswerOf(d) # None,
                      AnswerOf(c).slot = AnswerOf(d).slot
               PROVE  AnswerOf(c) = AnswerOf(d)
    BY DEF Ledger!AnswersAgree, AnswerOf
  <2>1. \A x \in Calls : AnswerOf(x) # None => AnswerOf(x) \in records
    BY DEF AnswerOf, GatewayInv, StoreInv, AnswersInv, AnswerHolds
  <2> QED BY <2>1 DEF GatewayInv, StoreInv, RecordsInv
<1> QED BY <1>1, GatewayInvariant, PTL

-----------------------------------------------------------------------------
(***************************************************************************)
(* Late retries.  Under HistorySpec the gateway is the one of Spec.        *)
(***************************************************************************)
LEMMA HistoryRefines == HistorySpec => Spec
<1>1. HistoryInit => GatewayInit
  BY DEF HistoryInit
<1>2. [HistoryNext]_<<vars, historyVars>> => [Next /\ Bounded]_vars
  BY DEF HistoryNext
<1> QED BY <1>1, <1>2, PTL DEF HistorySpec, Spec

(***************************************************************************)
(* A late retry that was under way does not go past the reading of the     *)
(* record that was there when it began.                                    *)
(***************************************************************************)
StaysLate(c) ==
    /\ pc[c] \in {"credential", "limiter", "scope", "record", "done"}
    /\ target[c] \in Tools /\ request[c].via # "mcp" /\ KeyTaken(c)
    /\ \A u \in upstream : u.call # c

LEMMA LateCallMoves ==
    ASSUME GatewayInv, NEW c \in Calls, StaysLate(c), CallMove(c)
    PROVE  StaysLate(c)'
<1> USE DEF StaysLate
<1>1. /\ TokenOf(c)' = TokenOf(c) /\ request'[c] = request[c] /\ pc[c] # "done"
  BY CallMoveTokens, CallMoveFrame DEF GatewayInv, Surroundings, Frame
<1>2. /\ pc'[c] \in {"limiter", "scope", "record", "done"}
      /\ UNCHANGED <<target, upstream, records>>
  <2> USE DEF GoTo, Answer, StoreUnchanged, GatewayInv, CallTypes
  <2>1. ~(\E r \in CallSpace : Arrive(c, r))
    BY DEF Arrive
  <2>2. CASE Authenticated(c) \/ RateLimited(c) \/ Admitted(c) \/ Abort(c)
    BY <2>2 DEF Authenticated, RateLimited, Admitted, Abort
  <2>3. CASE ReadScope(c)
    BY <2>3 DEF ReadScope, KeyTaken
  <2>4. CASE ReadRecord(c)
    BY <2>4 DEF ReadRecord, KeyTaken
  <2>5. pc[c] \in {"credential", "limiter", "scope", "record"}
    BY <1>1
  <2> QED BY <2>1, <2>2, <2>3, <2>4, <2>5
          DEF CallMove, CallStep, ListTools, ReadTool, ReadApproval, Decide,
              DecideFailsClosed, UpstreamUnreachable, InvokeUpstream, UpstreamAnswers,
              CommitCall
<1>3. KeyTaken(c)'
  BY <1>1, <1>2 DEF KeyTaken, SlotOf
<1> QED BY <1>1, <1>2, <1>3

LEMMA LateOthersMove ==
    ASSUME NEW d \in Calls, StaysLate(d), Untouched(d), records \subseteq records',
           \A u \in upstream' \ upstream : u.call # d
    PROVE  StaysLate(d)'
<1>1. SlotOf(d)' = SlotOf(d) /\ request'[d] = request[d]
  BY DEF Untouched, SameCall, SlotOf, TokenOf
<1>2. KeyTaken(d)'
  BY <1>1 DEF StaysLate, KeyTaken
<1> QED BY <1>1, <1>2 DEF StaysLate, Untouched, SameCall

\* A call that begins when its slot has a record names a tool, by its id.
LEMMA LateCallBegins ==
    ASSUME GatewayInv, GatewayInv', NEW c \in Calls, NEW r \in CallSpace, Arrive(c, r),
           pc'[c] = "credential", KeyTaken(c)'
    PROVE  StaysLate(c)'
<1>1. target'[c] = r.tool /\ request'[c] = r /\ UNCHANGED upstream
  BY DEF Arrive, StoreUnchanged, GatewayInv, CallTypes
<1>2. PICK e \in records' : e.slot = SlotOf(c)'
  BY DEF KeyTaken
<1>3. target'[c] \in Tools
  BY <1>2 DEF SlotOf, GatewayInv, CallTypes
<1>4. r.via # "mcp"
  BY <1>1, <1>3, GatewayAssumption
<1>5. \A u \in upstream' : u.call # c
  BY DEF GatewayInv, UpstreamInv, Sent
<1> QED BY <1>1, <1>3, <1>4, <1>5 DEF StaysLate

LateInv == late \subseteq Calls /\ \A c \in late : StaysLate(c)

LEMMA LateKept ==
    ASSUME GatewayInv, GatewayInv', LateInv, HistoryNext
    PROVE  LateInv'
<1>1. [Next /\ Bounded]_vars
  BY DEF HistoryNext
<1>2. ASSUME NEW c \in Calls, CallMove(c)
      PROVE  LateInv'
  <2>1. /\ \A d \in Calls \ {c} : Untouched(d) /\ pc'[d] = pc[d]
        /\ records \subseteq records' /\ \A u \in upstream' \ upstream : u.call = c
    BY <1>2, CallMoveTokens, CallMoveFrame, CallMoveWrites
       DEF GatewayInv, Surroundings, Frame, Untouched, SameCall, Quiet, InvokeUpstream,
           Asked, ReadRecord, CommitCall, StoreUnchanged
  <2>2. \A d \in late : StaysLate(d)'
    BY <1>2, <2>1, LateCallMoves, LateOthersMove DEF LateInv
  <2>3. ASSUME NEW d \in Calls, pc[d] = "idle", pc'[d] = "credential", KeyTaken(d)'
        PROVE  StaysLate(d)'
    <3>1. d = c
      BY <2>1, <2>3
    <3>2. PICK r \in CallSpace : Arrive(c, r)
      BY <1>2, <2>3, <3>1
         DEF CallMove, CallStep, Authenticated, RateLimited, Admitted, ListTools,
             ReadScope, ReadRecord, ReadTool, ReadApproval, Decide, DecideFailsClosed,
             UpstreamUnreachable, InvokeUpstream, UpstreamAnswers, CommitCall, Abort,
             InTransaction
    <3> QED BY <2>3, <3>1, <3>2, LateCallBegins
  <2> QED BY <2>2, <2>3 DEF LateInv, HistoryNext
<1>3. CASE Around
  <2>1. /\ UNCHANGED <<pc, records, upstream>> /\ \A d \in Calls : Untouched(d)
    BY <1>3 DEF Around, callVars, Untouched, SameCall
  <2>2. \A d \in late : StaysLate(d)'
    BY <2>1, LateOthersMove DEF LateInv
  <2> QED BY <2>1, <2>2 DEF LateInv, HistoryNext
<1> QED BY <1>1, <1>2, <1>3, AroundCases DEF GatewayInv

(***************************************************************************)
(* A retry that begins after the outcome of the first call is committed    *)
(* never reaches the upstream server, whatever is disabled, renamed,       *)
(* revoked or rotated meanwhile: it finds the record, or it is refused     *)
(* before it looks for it.                                                 *)
(***************************************************************************)
THEOREM LateRetriesStayLocal == HistorySpec => []LateRetryStaysLocal
<1>1. HistoryInit => LateInv
  BY DEF HistoryInit, LateInv
<1>2. GatewayInv /\ GatewayInv' /\ LateInv /\ [HistoryNext]_<<vars, historyVars>>
        => LateInv'
  <2>1. CASE HistoryNext
    BY <2>1, LateKept
  <2>2. CASE UNCHANGED <<vars, historyVars>>
    BY <2>2 DEF vars, callVars, tokenVars, historyVars, LateInv, StaysLate, KeyTaken,
                SlotOf, TokenOf
  <2> QED BY <2>1, <2>2
<1>3. LateInv => LateRetryStaysLocal
  BY DEF LateInv, StaysLate, LateRetryStaysLocal
<1> QED BY <1>1, <1>2, <1>3, HistoryRefines, GatewayInvariant, PTL DEF HistorySpec

-----------------------------------------------------------------------------
(***************************************************************************)
(* The scope of a call.  Under ScopeSpec the gateway is the one of Spec.   *)
(***************************************************************************)
LEMMA ScopeRefines == ScopeSpec => Spec
<1>1. ScopeInit => GatewayInit
  BY DEF ScopeInit
<1>2. [ScopeNext]_<<vars, scopeVars>> => [Next /\ Bounded]_vars
  BY DEF ScopeNext
<1> QED BY <1>1, <1>2, PTL DEF ScopeSpec, Spec

\* The server has been found in scope; the tool has been loaded, too.
PastScope == {"record", "tool", "approval", "decide", "invoke"}
PastTool  == {"approval", "decide", "invoke"}

(***************************************************************************)
(* What the checks of the code have established by the step a call has     *)
(* come to, in terms of what its client was entitled to.  The first and    *)
(* the third part make the history complete: what holds now is in it.      *)
(***************************************************************************)
ScopeHolds(c) ==
    /\ ScopedNow(c) => c \in scoped
    /\ pc[c] \in PastScope => c \in scoped
    /\ c \in scoped /\ pc[c] \in PastScope => OfferedNow(c) \subseteq offered
    /\ pc[c] \in PastTool => Asked(c, target[c], seen[c].name) \in offered

ScopeInv == (\A c \in Calls : ScopeHolds(c)) /\ upstream \subseteq offered

\* A call passes the scope check only when its client is entitled to the server.
LEMMA PassesScope ==
    ASSUME GatewayInv, NEW c \in Calls, CallMove(c), pc'[c] \in PastScope
    PROVE  pc[c] \in PastScope \/ ScopedNow(c)
<1> USE DEF PastScope, GoTo, Answer, GatewayInv, CallTypes
<1>1. CASE ReadScope(c)
  <2>1. pc[c] = "scope" /\ InScope(c)
    BY <1>1 DEF ReadScope
  <2>2. request[c].server \in Servers
    BY <2>1, GatewayAssumption DEF CallHolds, Requests
  <2>3. servers[request[c].server] \in [agent : Agents \cup {None}, deleted : BOOLEAN]
    BY <2>2 DEF Surroundings, CatalogTypeOK
  <2>4. servers[request[c].server] = [agent |-> TokenAgent[TokenOf(c)], deleted |-> FALSE]
    BY <2>1, <2>3 DEF InScope
  <2> QED BY <2>1, <2>4 DEF InScope, ScopedNow, ServerEntitled, TokenAllowsServer, Preparing
<1>2. ASSUME NEW r \in CallSpace, Arrive(c, r)
      PROVE  pc'[c] \in {"credential", "done"}
  BY <1>2 DEF Arrive
<1>3. CASE Authenticated(c) \/ RateLimited(c) \/ Admitted(c) \/ ListTools(c) \/ Abort(c)
  BY <1>3 DEF Authenticated, RateLimited, Admitted, ListTools, Abort
<1>4. CASE ReadRecord(c) \/ ReadTool(c) \/ ReadApproval(c) \/ Decide(c)
           \/ DecideFailsClosed(c) \/ UpstreamUnreachable(c) \/ InvokeUpstream(c)
  BY <1>4 DEF ReadRecord, ReadTool, ReadApproval, Decide, DecideFailsClosed,
              UpstreamUnreachable, InvokeUpstream
<1>5. CASE UpstreamAnswers(c) \/ CommitCall(c)
  BY <1>5 DEF UpstreamAnswers, CommitCall
<1> QED BY <1>1, <1>2, <1>3, <1>4, <1>5 DEF CallMove, CallStep

\* The row it uses from then on is of a tool its client may use at that moment.
LEMMA PassesTool ==
    ASSUME GatewayInv, NEW c \in Calls, ScopeHolds(c), CallMove(c), pc'[c] \in PastTool
    PROVE  Asked(c, target[c], seen[c].name)' \in offered
<1> USE DEF PastTool, GoTo, Answer, GatewayInv, CallTypes
<1>1. CASE ReadTool(c)
  <2>1. /\ pc[c] = "tool" /\ ToolOffered(c, target[c])
        /\ seen' = [seen EXCEPT ![c] = tools[target[c]]]
        /\ UNCHANGED <<request, target>>
    BY <1>1 DEF ReadTool
  <2>2. target[c] \in Tools
    BY <2>1 DEF CallHolds, HasTool
  <2>3. Asked(c, target[c], tools[target[c]].name) \in OfferedNow(c)
    BY <2>1, <2>2 DEF OfferedNow, Asked, ToolOffered, Callable
  <2>4. Asked(c, target[c], tools[target[c]].name) \in offered
    BY <2>1, <2>3 DEF ScopeHolds, PastScope
  <2> QED BY <2>1, <2>4 DEF Asked
<1>2. CASE pc[c] \in PastTool /\ UNCHANGED <<request, target, seen>>
  BY <1>2 DEF ScopeHolds, Asked
<1>3. CASE ReadApproval(c) \/ Decide(c) \/ DecideFailsClosed(c)
  BY <1>2, <1>3 DEF ReadApproval, Decide, DecideFailsClosed
<1>4. ASSUME NEW r \in CallSpace, Arrive(c, r)
      PROVE  pc'[c] \in {"credential", "done"}
  BY <1>4 DEF Arrive
<1>5. CASE Authenticated(c) \/ RateLimited(c) \/ Admitted(c) \/ ListTools(c) \/ Abort(c)
  BY <1>5 DEF Authenticated, RateLimited, Admitted, ListTools, Abort
<1>6. CASE ReadScope(c) \/ ReadRecord(c) \/ UpstreamUnreachable(c) \/ InvokeUpstream(c)
           \/ UpstreamAnswers(c) \/ CommitCall(c)
  BY <1>6 DEF ReadScope, ReadRecord, UpstreamUnreachable, InvokeUpstream,
              UpstreamAnswers, CommitCall
<1> QED BY <1>1, <1>3, <1>4, <1>5, <1>6 DEF CallMove, CallStep

LEMMA ScopeKept ==
    ASSUME GatewayInv, ScopeInv, ScopeNext
    PROVE  ScopeInv'
<1> DEFINE past(c) == pc'[c] \in PastScope => c \in scoped
           held(c) == pc'[c] \in PastTool => Asked(c, target[c], seen[c].name)' \in offered
<1>1. [Next /\ Bounded]_vars /\ scoped \subseteq scoped' /\ offered \subseteq offered'
  BY DEF ScopeNext
<1>2. /\ \A c \in Calls : ScopedNow(c)' => c \in scoped'
      /\ \A c \in Calls : c \in scoped' /\ pc'[c] \in PastScope
                             => OfferedNow(c)' \subseteq offered'
  BY DEF ScopeNext, PastScope, Preparing
<1>3. ASSUME NEW c \in Calls,
             UNCHANGED <<pc[c], request[c], target[c], seen[c]>>
      PROVE  past(c) /\ held(c)
  BY <1>3 DEF ScopeInv, ScopeHolds, Asked
<1>4. ASSUME NEW c \in Calls, CallMove(c)
      PROVE  /\ \A d \in Calls : past(d) /\ held(d)
             /\ upstream' \subseteq offered
  <2>1. \A d \in Calls \ {c} : past(d) /\ held(d)
    BY <1>3, <1>4, CallMoveFrame DEF GatewayInv, Frame, SameCall
  <2>2. past(c)
    BY <1>4, PassesScope DEF ScopeInv, ScopeHolds
  <2>3. held(c)
    BY <1>4, PassesTool DEF ScopeInv
  <2>4. InvokeUpstream(c) => Asked(c, target[c], seen[c].name) \in offered
    BY DEF InvokeUpstream, ScopeInv, ScopeHolds, PastTool
  <2>5. upstream' \subseteq offered
    BY <1>4, <2>4, CallMoveWrites
       DEF ScopeInv, GatewayInv, Quiet, InvokeUpstream, ReadRecord, CommitCall,
           StoreUnchanged
  <2> QED BY <2>1, <2>2, <2>3, <2>5
<1>5. ASSUME Around
      PROVE  (\A d \in Calls : past(d) /\ held(d)) /\ upstream' \subseteq offered
  <2>1. /\ \A d \in Calls : UNCHANGED <<pc[d], request[d], target[d], seen[d]>>
        /\ UNCHANGED upstream
    BY <1>5 DEF Around, callVars
  <2> QED BY <1>3, <2>1 DEF ScopeInv
<1>6. (\A d \in Calls : past(d) /\ held(d)) /\ upstream' \subseteq offered
  <2> HIDE DEF past, held
  <2> QED BY <1>1, <1>4, <1>5, AroundCases DEF GatewayInv
<1>7. ASSUME NEW c \in Calls
      PROVE  ScopeHolds(c)'
  BY <1>1, <1>2, <1>6 DEF ScopeHolds
<1> QED BY <1>1, <1>6, <1>7 DEF ScopeInv

(***************************************************************************)
(* Whatever is called upstream was, in the transaction that calls it and   *)
(* before it went out, the client's to call, on the server and under the   *)
(* name that are used - for any number of calls, syncs that move tools,    *)
(* relinked servers and edited tools: the row a call loads is checked      *)
(* there as it is then, however long ago the tool was listed.              *)
(***************************************************************************)
THEOREM UpstreamInScope == ScopeSpec => []UpstreamStaysInScope
<1>1. ScopeInit => ScopeInv
  BY DEF ScopeInit, GatewayInit, ScopeInv, ScopeHolds, ScopedNow, Preparing, PastScope,
         PastTool
<1>2. GatewayInv /\ ScopeInv /\ [ScopeNext]_<<vars, scopeVars>> => ScopeInv'
  <2>1. CASE UNCHANGED <<vars, scopeVars>>
    BY <2>1
       DEF vars, catalogVars, tokenVars, callVars, scopeVars, ScopeInv, ScopeHolds,
           ScopedNow, ServerEntitled, OfferedNow, Asked, TokenOf
  <2> QED BY <2>1, ScopeKept
<1>3. ScopeInv => UpstreamStaysInScope
  BY DEF ScopeInv, UpstreamStaysInScope
<1> QED BY <1>1, <1>2, <1>3, ScopeRefines, GatewayInvariant, PTL DEF ScopeSpec
=============================================================================
