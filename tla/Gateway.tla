------------------------------ MODULE Gateway ------------------------------
(***************************************************************************)
(* The MCP gateway of AgentHQ: call_gateway_tool of services/mcp_gateway.py*)
(* and what surrounds it in a request, from the credential to the commit   *)
(* of the outcome, while administrators change the catalogue and the       *)
(* credentials and approvers decide approvals.                             *)
(*                                                                         *)
(* Each request runs in a thread of its own with a database session of its *)
(* own, at READ COMMITTED: every statement sees what is committed when it  *)
(* runs.  One action below is one statement that reads (or the part of the *)
(* handler up to the next one) and one action is the final transaction's   *)
(* commit; between any two of them other requests run.                     *)
(***************************************************************************)
EXTENDS Approvals, GatewayTokens, FiniteSets

CONSTANTS
    Calls,         \* the requests that call a tool
    Keys,          \* idempotency keys
    CallSpace,     \* the requests clients send
    MaxManaged     \* bound on the management requests made beside the calls

VARIABLES
    pc,          \* pc[c]: the step call c is at
    request,     \* request[c]: what its client sent
    target,      \* target[c]: the tool it is about
    seen,        \* seen[c]: the tool's row as the call loaded it
    decision,    \* decision[c]: the policy decision
    outcome,     \* outcome[c]: the status the execution will have
    reply,       \* reply[c]: the kind of answer the client gets
    body,        \* body[c]: the gateway response in it, or None
    upstream,    \* what upstream servers were asked: [call, tool, server, name]
    executions,  \* the committed rows of executions
    records      \* the committed rows of mcp_gateway_call_records

callVars == <<pc, request, target, seen, decision, outcome, reply, body,
              upstream, executions, records>>

vars == <<catalogVars, approvalVars, tokenVars, audit, callVars>>

\* A client names the server, and the tool by its id (via REST, or the older
\* path of a server) or by its name (via MCP).
Requests == [via : {"rest", "legacy", "mcp"}, secret : 0..MaxSecret,
             server : Servers, tool : Tools \cup {None}, name : Names \cup {None},
             key : Keys \cup {None}, approval : Approvals \cup {None}]

ExecutionStatuses ==
    {"succeeded", "failed", "blocked", "requires_approval"}

Responses == [execution : Calls, status : ExecutionStatuses, effect : Effects]

ASSUME GatewayAssumption ==
    /\ CallSpace \subseteq Requests
    /\ \A r \in CallSpace : IF r.via = "mcp" THEN r.name # None /\ r.tool = None
                                            ELSE r.tool # None
    /\ Uses = Calls
    /\ None \notin Tokens \cup Tools \cup Names \cup Keys \cup Approvals
    /\ None \notin Responses
    /\ None \notin [slot : Tokens \X Tools \X Keys, response : Responses]

Steps == {"idle", "credential", "limiter", "list", "scope", "record", "tool",
          "approval", "decide", "invoke", "upstream", "commit", "done"}

\* The second transaction of a request is open, from its first statement on.
InTransaction == {"scope", "record", "tool", "approval", "decide", "invoke",
                  "upstream", "commit"}

GatewayInit ==
    /\ CatalogInit /\ ApprovalsInit /\ TokensInit /\ audit = {}
    /\ pc = [c \in Calls |-> "idle"]
    /\ request = [c \in Calls |-> None]
    /\ target = [c \in Calls |-> None]
    /\ seen = [c \in Calls |-> None]
    /\ decision = [c \in Calls |-> None]
    /\ outcome = [c \in Calls |-> None]
    /\ reply = [c \in Calls |-> None]
    /\ body = [c \in Calls |-> None]
    /\ upstream = {} /\ executions = {} /\ records = {}

TokenOf(c) == uses[c].token

CallEvent(action, c) == [action |-> action, by |-> c, about |-> target[c]]

GoTo(c, step) == pc' = [pc EXCEPT ![c] = step]

Answer(c, kind) == /\ GoTo(c, "done")
                   /\ reply' = [reply EXCEPT ![c] = kind]

StoreUnchanged == UNCHANGED <<upstream, executions, records>>

-----------------------------------------------------------------------------
(***************************************************************************)
(* The first transaction: the credential (require_agent_gateway_token and, *)
(* on the older path, require_gateway_token, which checks the server too). *)
(***************************************************************************)
Arrive(c, r) ==
    /\ pc[c] = "idle"
    /\ LookUpToken(c, r.secret, IF r.via = "legacy" THEN r.server ELSE None)
    /\ request' = [request EXCEPT ![c] = r]
    /\ target' = [target EXCEPT ![c] = r.tool]
    /\ IF uses'[c].pc = "found" THEN GoTo(c, "credential") /\ UNCHANGED reply
                                ELSE Answer(c, "unauthorized")
    /\ UNCHANGED <<seen, decision, outcome, body>> /\ StoreUnchanged

Authenticated(c) ==
    /\ pc[c] = "credential"
    /\ MarkTokenUsed(c)
    /\ GoTo(c, "limiter")
    /\ UNCHANGED <<request, target, seen, decision, outcome, reply, body>>
    /\ StoreUnchanged

\* enforce_gateway_rate_limit: what the limiter decides is not modelled here.
RateLimited(c) ==
    /\ pc[c] = "limiter"
    /\ \/ Answer(c, "rate_limited")
          /\ audit' = audit \cup {CallEvent("rate_limited", c)}
       \/ Answer(c, "unavailable") /\ UNCHANGED audit
    /\ UNCHANGED <<tokenVars, request, target, seen, decision, outcome, body>>
    /\ StoreUnchanged

Admitted(c) ==
    /\ pc[c] = "limiter"
    /\ GoTo(c, IF request[c].via = "mcp" THEN "list" ELSE "scope")
    /\ UNCHANGED <<tokenVars, audit, request, target, seen, decision, outcome,
                   reply, body>>
    /\ StoreUnchanged

-----------------------------------------------------------------------------
\* require_allowed_server; the older path goes to the credential's only
\* server.  The status of the credential is not read again.
InScope(c) ==
    LET t == TokenOf(c)
        s == request[c].server
    IN  /\ agents[TokenAgent[t]] = "enabled"
        /\ ~servers[s].deleted
        /\ servers[s].agent = TokenAgent[t]
        /\ TokenAllowsServer(t, s)
        /\ request[c].via = "legacy" => TokenServers[t] = {s}

Callable(row) == /\ row.enabled
                 /\ row.permission \in {"execute", "admin"}
                 /\ row.reviewed

ToolOffered(c, t) ==
    /\ ~tools[t].deleted
    /\ ToolAgent[t] = TokenAgent[TokenOf(c)]
    /\ tools[t].server = request[c].server
    /\ Callable(tools[t])

\* A call by name lists the tools, commits, and goes on with the id of the
\* first tool listed under the name (names are unique among an agent's tools).
ListTools(c) ==
    /\ pc[c] = "list"
    /\ IF InScope(c)
       THEN /\ audit' = audit \cup {CallEvent("tools_listed", c)}
            /\ \/ \E t \in Tools :
                     /\ ToolOffered(c, t) /\ tools[t].name = request[c].name
                     /\ target' = [target EXCEPT ![c] = t]
                     /\ GoTo(c, "scope") /\ UNCHANGED reply
               \/ /\ \A t \in Tools :
                        ToolOffered(c, t) => tools[t].name # request[c].name
                  /\ Answer(c, "not_found") /\ UNCHANGED target
       ELSE Answer(c, "not_found") /\ UNCHANGED <<audit, target>>
    /\ UNCHANGED <<tokenVars, request, seen, decision, outcome, body>>
    /\ StoreUnchanged

ReadScope(c) ==
    /\ pc[c] = "scope"
    /\ IF InScope(c)
       THEN /\ GoTo(c, IF request[c].key = None THEN "tool" ELSE "record")
            /\ UNCHANGED reply
       ELSE Answer(c, "not_found")
    /\ UNCHANGED <<tokenVars, audit, request, target, seen, decision, outcome, body>>
    /\ StoreUnchanged

SlotOf(c) == <<TokenOf(c), target[c], request[c].key>>

\* Variant: only a success is replayed.
ReplaySuccesses(c) ==
    LET found == {r \in records : r.slot = SlotOf(c) /\ r.response.status = "succeeded"}
    IN  /\ pc[c] = "record"
        /\ \/ \E r \in found :
                 /\ body' = [body EXCEPT ![c] = r.response]
                 /\ audit' = audit \cup {CallEvent("call_replayed", c)}
                 /\ Answer(c, "replay")
           \/ found = {} /\ GoTo(c, "tool") /\ UNCHANGED <<audit, reply, body>>
        /\ UNCHANGED <<tokenVars, request, target, seen, decision, outcome>>
        /\ StoreUnchanged

\* Variant: a call waits for the record while another one is on its slot.
AwaitRecord(c) ==
    LET found == {r \in records : r.slot = SlotOf(c)}
    IN  /\ pc[c] = "record"
        /\ \/ \E r \in found :
                 /\ body' = [body EXCEPT ![c] = r.response]
                 /\ audit' = audit \cup {CallEvent("call_replayed", c)}
                 /\ Answer(c, "replay")
           \/ /\ found = {}
              /\ \A d \in Calls \ {c} : pc[d] \in InTransaction => SlotOf(d) # SlotOf(c)
              /\ GoTo(c, "tool") /\ UNCHANGED <<audit, reply, body>>
        /\ UNCHANGED <<tokenVars, request, target, seen, decision, outcome>>
        /\ StoreUnchanged

\* get_call_record: a recorded response is replayed, in a transaction that
\* only adds an audit row.
ReadRecord(c) ==
    /\ pc[c] = "record"
    /\ \/ \E r \in records :
             /\ r.slot = SlotOf(c)
             /\ body' = [body EXCEPT ![c] = r.response]
             /\ audit' = audit \cup {CallEvent("call_replayed", c)}
             /\ Answer(c, "replay")
       \/ /\ \A r \in records : r.slot # SlotOf(c)
          /\ GoTo(c, "tool")
          /\ UNCHANGED <<audit, reply, body>>
    /\ UNCHANGED <<tokenVars, request, target, seen, decision, outcome>>
    /\ StoreUnchanged

\* Variant: a tool found by its name a moment ago is not checked again.
ReadListedTool(c) ==
    /\ pc[c] = "tool"
    /\ IF request[c].via = "mcp" \/ ToolOffered(c, target[c])
       THEN /\ seen' = [seen EXCEPT ![c] = tools[target[c]]]
            /\ GoTo(c, IF request[c].approval = None THEN "decide" ELSE "approval")
            /\ UNCHANGED reply
       ELSE Answer(c, "not_found") /\ UNCHANGED seen
    /\ UNCHANGED <<tokenVars, audit, request, target, decision, outcome, body>>
    /\ StoreUnchanged

\* require_gateway_tool: the row loaded here is the one the rest of the call
\* uses; later SELECTs of it do not refresh it.
ReadTool(c) ==
    /\ pc[c] = "tool"
    /\ IF ToolOffered(c, target[c])
       THEN /\ seen' = [seen EXCEPT ![c] = tools[target[c]]]
            /\ GoTo(c, IF request[c].approval = None THEN "decide" ELSE "approval")
            /\ UNCHANGED reply
       ELSE Answer(c, "not_found") /\ UNCHANGED seen
    /\ UNCHANGED <<tokenVars, audit, request, target, decision, outcome, body>>
    /\ StoreUnchanged

ApprovalValid(c) ==
    LET a == request[c].approval
    IN  /\ approvals[a] = "approved"
        /\ ApprovalAgent[a] = ToolAgent[target[c]]
        /\ ApprovalAction[a] = seen[c].name

\* validate_gateway_approval: an invalid approval is audited at once.
ReadApproval(c) ==
    /\ pc[c] = "approval"
    /\ IF ApprovalValid(c)
       THEN GoTo(c, "decide") /\ UNCHANGED <<reply, audit>>
       ELSE /\ Answer(c, "approval_invalid")
            /\ audit' = audit \cup {CallEvent("access_denied", c)}
    /\ UNCHANGED <<tokenVars, request, target, seen, decision, outcome, body>>
    /\ StoreUnchanged

-----------------------------------------------------------------------------
\* What follows from the decision d: an outcome at once, or the upstream call.
Dispatch(c, d) ==
    /\ decision' = [decision EXCEPT ![c] = d]
    /\ \/ d.effect = "block"
          /\ outcome' = [outcome EXCEPT ![c] = "blocked"] /\ GoTo(c, "commit")
       \/ d.effect = "require_approval" /\ request[c].approval = None
          /\ outcome' = [outcome EXCEPT ![c] = "requires_approval"] /\ GoTo(c, "commit")
       \/ /\ d.effect # "block"
          /\ d.effect = "require_approval" => request[c].approval # None
          /\ GoTo(c, "invoke") /\ UNCHANGED outcome

\* evaluate_policy_decision reads whether the agent and the tool exist, and
\* the rules; a row that is gone by now is an error nobody handles.
Decide(c) ==
    /\ pc[c] = "decide"
    /\ IF agents[ToolAgent[target[c]]] # "deleted" /\ ~tools[target[c]].deleted
       THEN /\ \E d \in Decisions(rules, ToolAgent[target[c]], target[c], seen[c].risk) :
                  Dispatch(c, d)
            /\ UNCHANGED reply
       ELSE Answer(c, "error") /\ UNCHANGED <<decision, outcome>>
    /\ UNCHANGED <<tokenVars, audit, request, target, seen, body>>
    /\ StoreUnchanged

\* An unexpected failure of the evaluation blocks the call.
DecideFailsClosed(c) ==
    /\ pc[c] = "decide"
    /\ Dispatch(c, FailClosed)
    /\ UNCHANGED <<tokenVars, audit, request, target, seen, reply, body>>
    /\ StoreUnchanged

\* The adapter fails before the tool call goes out (connecting, initializing).
UpstreamUnreachable(c) ==
    /\ pc[c] = "invoke"
    /\ outcome' = [outcome EXCEPT ![c] = "failed"]
    /\ GoTo(c, "commit")
    /\ UNCHANGED <<tokenVars, audit, request, target, seen, decision, reply, body>>
    /\ StoreUnchanged

\* What the adapter sends for a call: to the server the client named, whichever
\* one the tool belongs to by now.
Asked(c, t, name) == [call |-> c, tool |-> t, server |-> request[c].server, name |-> name]

\* Variant: the row is read again for its name.
InvokeUnderCurrentName(c) ==
    /\ pc[c] = "invoke"
    /\ upstream' = upstream \cup {Asked(c, target[c], tools[target[c]].name)}
    /\ GoTo(c, "upstream")
    /\ UNCHANGED <<tokenVars, audit, request, target, seen, decision, outcome,
                   reply, body, executions, records>>

\* The tool call goes out, under the name the row had when it was loaded.
InvokeUpstream(c) ==
    /\ pc[c] = "invoke"
    /\ upstream' = upstream \cup {Asked(c, target[c], seen[c].name)}
    /\ GoTo(c, "upstream")
    /\ UNCHANGED <<tokenVars, audit, request, target, seen, decision, outcome,
                   reply, body, executions, records>>

\* Variant: a timeout is a status of its own.
UpstreamMayTimeOut(c) ==
    /\ pc[c] = "upstream"
    /\ \E o \in {"succeeded", "failed", "timeout"} : outcome' = [outcome EXCEPT ![c] = o]
    /\ GoTo(c, "commit")
    /\ UNCHANGED <<tokenVars, audit, request, target, seen, decision, reply, body>>
    /\ StoreUnchanged

\* It returns, or fails or times out without telling what it did.
UpstreamAnswers(c) ==
    /\ pc[c] = "upstream"
    /\ \E o \in {"succeeded", "failed"} : outcome' = [outcome EXCEPT ![c] = o]
    /\ GoTo(c, "commit")
    /\ UNCHANGED <<tokenVars, audit, request, target, seen, decision, reply, body>>
    /\ StoreUnchanged

-----------------------------------------------------------------------------
Response(c) == [execution |-> c, status |-> outcome[c], effect |-> decision[c].effect]

\* The rows one call leaves in the audit log, all in its last transaction.
CallTrail(c) == {CallEvent(a, c) : a \in
    {"policy_evaluated", "call_requested", "execution_created", outcome[c]}}

ExecutionRow(c) ==
    [call |-> c, token |-> TokenOf(c), tool |-> target[c], status |-> outcome[c],
     approval |-> request[c].approval, effect |-> decision[c].effect]

\* Variant: there is no unique index.
NoKeyIsTaken(c) == FALSE

\* The unique index ix_mcp_gateway_call_records_idempotency.
KeyTaken(c) == /\ request[c].key # None
               /\ \E r \in records : r.slot = SlotOf(c)

\* Variant: the audit rows are committed before the call record is written.
CommitTrailFirst(c) ==
    /\ pc[c] = "commit"
    /\ audit' = audit \cup CallTrail(c)
    /\ IF KeyTaken(c)
       THEN Answer(c, "error") /\ UNCHANGED <<body, executions, records>>
       ELSE /\ executions' = executions \cup {ExecutionRow(c)}
            /\ records' = IF request[c].key = None THEN records
                          ELSE records \cup
                                 {[slot |-> SlotOf(c), response |-> Response(c)]}
            /\ body' = [body EXCEPT ![c] = Response(c)]
            /\ Answer(c, "response")
    /\ UNCHANGED <<tokenVars, request, target, seen, decision, outcome, upstream>>

\* Variant: a duplicate key is rolled back and the response returned all the same.
CommitAnswersAnyway(c) ==
    /\ pc[c] = "commit"
    /\ body' = [body EXCEPT ![c] = Response(c)]
    /\ Answer(c, "response")
    /\ IF KeyTaken(c)
       THEN UNCHANGED <<audit, executions, records>>
       ELSE /\ executions' = executions \cup {ExecutionRow(c)}
            /\ audit' = audit \cup CallTrail(c)
            /\ records' = IF request[c].key = None THEN records
                          ELSE records \cup
                                 {[slot |-> SlotOf(c), response |-> Response(c)]}
    /\ UNCHANGED <<tokenVars, request, target, seen, decision, outcome, upstream>>

\* The execution, its audit rows and the call record, in one transaction;
\* a duplicate key rolls all of it back and is an error nobody handles.
CommitCall(c) ==
    /\ pc[c] = "commit"
    /\ IF KeyTaken(c)
       THEN Answer(c, "error") /\ UNCHANGED <<audit, body, executions, records>>
       ELSE /\ executions' = executions \cup {ExecutionRow(c)}
            /\ audit' = audit \cup CallTrail(c)
            /\ records' = IF request[c].key = None THEN records
                          ELSE records \cup
                                 {[slot |-> SlotOf(c), response |-> Response(c)]}
            /\ body' = [body EXCEPT ![c] = Response(c)]
            /\ Answer(c, "response")
    /\ UNCHANGED <<tokenVars, request, target, seen, decision, outcome, upstream>>

\* The process dies, the connection is lost or an audit row cannot be
\* written: the open transaction is rolled back and the client gets no
\* response.
Abort(c) ==
    /\ pc[c] \in InTransaction \cup {"credential", "limiter", "list"}
    /\ Answer(c, "error")
    /\ IF pc[c] = "credential" THEN FailUse(c) ELSE UNCHANGED <<tokenVars, audit>>
    /\ UNCHANGED <<request, target, seen, decision, outcome, body>>
    /\ StoreUnchanged

CallStep(c) ==
    \/ Authenticated(c) \/ RateLimited(c) \/ Admitted(c)
    \/ ListTools(c) \/ ReadScope(c) \/ ReadRecord(c) \/ ReadTool(c)
    \/ ReadApproval(c) \/ Decide(c) \/ DecideFailsClosed(c)
    \/ UpstreamUnreachable(c) \/ InvokeUpstream(c) \/ UpstreamAnswers(c)
    \/ CommitCall(c)

CallNext ==
    \E c \in Calls : (\E r \in CallSpace : Arrive(c, r)) \/ CallStep(c) \/ Abort(c)

Managed == changes + Cardinality({d \in Deciders : deciders[d].pc # "idle"})
                   + Cardinality({o \in AdminOps : ops[o].pc # "idle"})

Next ==
    \/ CallNext /\ UNCHANGED <<catalogVars, approvalVars>>
    \/ CatalogNext /\ UNCHANGED <<approvalVars, tokenVars, audit, callVars>>
    \/ ApprovalsNext /\ UNCHANGED <<catalogVars, tokenVars, callVars>>
    \/ TokenAdminNext /\ UNCHANGED <<catalogVars, approvalVars, callVars>>

Bounded == Managed' <= MaxManaged

Spec == GatewayInit /\ [][Next /\ Bounded]_vars

\* A request that has been received is processed: its thread is scheduled,
\* and the adapter returns within connect_timeout + request_timeout.  That
\* it aborts is never relied upon.
FairSpec ==
    /\ Spec
    /\ \A c \in Calls :
          WF_vars(CallStep(c) /\ UNCHANGED <<catalogVars, approvalVars>>)
=============================================================================
