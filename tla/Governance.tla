----------------------------- MODULE Governance -----------------------------
(***************************************************************************)
(* The governance of tools: alerts (services/governance_alerts.py), the    *)
(* risk register (services/risk_compliance.py), and the operations on      *)
(* rules, tools, servers and agents that feed them.                        *)
(*                                                                         *)
(* Alerts and risk records are projections of the catalogue.  A            *)
(* reconciliation reads the rules, then the tools with their active alerts *)
(* and records, and commits the difference; nothing is locked and alerts   *)
(* have no unique index, so what it commits may be about rows that others  *)
(* have changed since.  PostgreSQL at READ COMMITTED: each query sees what *)
(* is committed when it starts; the ORM writes the attributes that differ  *)
(* from the ones it loaded.                                                *)
(*                                                                         *)
(* Audit rows are not kept: those of rules, tools and servers are          *)
(* transactions of their own and those of alerts are in the transaction    *)
(* of the alert.  A request that is refused changes nothing else, and is   *)
(* not a step.                                                             *)
(***************************************************************************)
EXTENDS Posture, Functions

CONSTANTS
    Agents, Servers, Tools, RuleIds, Requests,
    Names, Texts,     \* the names of tools; their schemas and descriptions
    RuleBodies,       \* the bodies a rule may be written with
    Reviews,          \* the bodies of a review: [risk, permission]
    ToolPatches,      \* the bodies of a PATCH of a tool
    Operations,       \* the operations a behaviour may begin
    InitialCatalogs,  \* [agents, servers, tools, rules] to start from
    MaxInProgress     \* bound on the requests in progress at once

VARIABLES
    agents,     \* the agents: "absent", "live" or "deleted"
    servers,    \* servers[s]: the row of an MCP server
    tools,      \* tools[t]: the row of a tool
    rules,      \* rules[i]: the row of a policy rule, None before it exists
    alerts,     \* the rows of governance_alerts
    records,    \* records[t]: the row of ai_risk_register of t, or None
    controls,   \* whether the built-in controls are in compliance_controls
    snapshot,   \* whether risk_snapshots has a row for the day
    requests,   \* requests[r]: where request r is, and what its session holds
    trusted,    \* history: nothing has disturbed the projections since a
                \*   complete reconciliation
    doubled,    \* history: the alerts that have been active twice at once
    mishaps     \* history: what happened that may disturb an alert

catalogue == <<agents, servers, tools, rules>>
projections == <<alerts, records, controls, snapshot, doubled>>
governanceVars == <<catalogue, projections, requests, trusted, mishaps>>

-----------------------------------------------------------------------------
(* The rows of the tables.                                                 *)

Permissions == {"read", "write", "execute", "admin"}

ServerRows == [agent : Agents \cup {None}, deleted : BOOLEAN,
               status : {"disconnected", "connected", "error"}]

ToolRows ==
    [id : Tools, state : {"absent", "live", "deleted"}, agent : Agents,
     server : Servers \cup {None}, name : Names, schema : Texts \cup {None},
     version : Nat, description : Texts \cup {None}, reviewed : BOOLEAN,
     risk : RiskLevels, permission : Permissions, enabled : BOOLEAN]

RuleRows ==
    [id : RuleIds, scope : Scopes, agent : Agents \cup {None}, tool : Tools \cup {None},
     risk : RiskLevels, effect : Effects, priority : Int, enabled : BOOLEAN,
     deleted : BOOLEAN]

AlertRows ==
    [kind : ToolAlertKinds \cup RiskAlertKinds \cup EventAlertKinds,
     tool : Tools, server : Servers, number : Nat,
     severity : RiskLevels, status : {"open", "acknowledged", "resolved"},
     acked : BOOLEAN, closed : BOOLEAN, closer : BOOLEAN]

RecordRows ==
    [risk : RiskLevels, governance : {"unreviewed", "reviewed", "governed"},
     coverage : {"covered", "partially_covered", "uncovered"},
     compliance : {"compliant", "warning", "non_compliant"}]

\* What validate_scope lets a rule be written with: the agent and the tool that
\* its scope needs, and no others.
RuleBodySpace ==
    {b \in [scope : Scopes, agent : Agents \cup {None}, tool : Tools \cup {None},
            risk : RiskLevels, effect : Effects, priority : Int, enabled : BOOLEAN] :
        /\ b.agent = None <=> b.scope = "global"
        /\ b.tool = None <=> b.scope # "tool"}

\* The fields of AgentToolUpdate.
IsToolPatch(patch) ==
    /\ DOMAIN patch \subseteq {"name", "description", "permission", "risk", "enabled"}
    /\ "name" \in DOMAIN patch => patch.name \in Names
    /\ "description" \in DOMAIN patch => patch.description \in Texts \cup {None}
    /\ "permission" \in DOMAIN patch => patch.permission \in Permissions
    /\ "risk" \in DOMAIN patch => patch.risk \in RiskLevels
    /\ "enabled" \in DOMAIN patch => patch.enabled \in BOOLEAN

\* Foreign keys lead to rows that exist.
IsCatalog(c) ==
    /\ c.agents \in [Agents -> {"absent", "live", "deleted"}]
    /\ c.servers \in [Servers -> ServerRows]
    /\ c.tools \in [Tools -> ToolRows]
    /\ c.rules \in [RuleIds -> RuleRows \cup {None}]
    /\ \A t \in Tools : c.tools[t].id = t
    /\ \A t \in Tools : c.tools[t].state # "absent" => c.agents[c.tools[t].agent] # "absent"
    /\ \A s \in Servers : c.servers[s].agent # None => c.agents[c.servers[s].agent] # "absent"
    /\ \A i \in RuleIds : c.rules[i] # None =>
          /\ c.rules[i].id = i
          /\ c.rules[i].scope = "tool" =>
                c.rules[i].tool \in Tools /\ c.tools[c.rules[i].tool].agent = c.rules[i].agent

ASSUME GovernanceAssumption ==
    /\ IsFiniteSet(Tools) /\ IsFiniteSet(Servers) /\ IsFiniteSet(RuleIds)
    /\ None \notin Agents \cup Servers \cup Tools
    /\ None \notin ToolRows \cup RuleRows \cup RecordRows \cup {"sync"}
    /\ RuleBodies \subseteq RuleBodySpace
    /\ Reviews \subseteq [risk : RiskLevels, permission : Permissions]
    /\ \A patch \in ToolPatches : IsToolPatch(patch)
    /\ \A c \in InitialCatalogs : IsCatalog(c)

\* A record with the given fields replaced.
With(record, fields) ==
    [f \in DOMAIN record |-> IF f \in DOMAIN fields THEN fields[f] ELSE record[f]]

-----------------------------------------------------------------------------
(* Requests.                                                               *)

NoView == [rules |-> {}, tools |-> {}, active |-> {}, records |-> {}, controls |-> TRUE]

\* turn: what the next reconciliation is about.  alone: no other request has
\* been in progress with this one.
IdleRequest == [pc |-> "idle", op |-> None, turn |-> None, target |-> None,
                body |-> None, seen |-> None, covered |-> {}, view |-> NoView,
                alone |-> TRUE]

Ended == {"idle", "done", "conflict", "crashed"}
InProgress(r) == requests[r].pc \notin Ended
Others(r) == {q \in Requests \ {r} : InProgress(q)}

\* The operations that compare alerts with the catalogue.
Reconcilers == {"create rule", "update rule", "delete rule", "review tool",
                "update tool", "register", "summary", "sync"}
AlertOperations == {"acknowledge", "resolve", "reopen"}

Mishaps(r, op) ==
    (IF op = "reopen" THEN {"reopened"} ELSE {}) \cup
    (IF \E q \in Others(r) : {op, requests[q].op} \subseteq Reconcilers
     THEN {"reconciliations met"} ELSE {}) \cup
    (IF \E q \in Others(r) : {op, requests[q].op} \cap AlertOperations # {}
     THEN {"transition met"} ELSE {})

\* Request r begins operation op, and is no longer alone if others run.
Begins(r, op, state) ==
    /\ requests[r].pc = "idle" /\ op \in Operations
    /\ Cardinality(Others(r)) < MaxInProgress
    /\ requests' = [q \in Requests |->
          IF q = r THEN [With(IdleRequest, state) EXCEPT !.op = op,
                                                         !.alone = Others(r) = {}]
          ELSE IF InProgress(q) THEN [requests[q] EXCEPT !.alone = FALSE]
          ELSE requests[q]]
    /\ mishaps' = mishaps \cup Mishaps(r, op)
    /\ trusted' = (trusted /\ Others(r) = {} /\ op \notin AlertOperations)

\* The session is closed; what it had not committed is lost.
Ends(r, pc) == requests' = [requests EXCEPT ![r] = [IdleRequest EXCEPT !.pc = pc]]

\* The ORM's UPDATE of a row loaded as seen and changed to new.
NetChange(row, seen, new) ==
    [f \in DOMAIN row |-> IF new[f] # seen[f] THEN new[f] ELSE row[f]]

-----------------------------------------------------------------------------
(* What the queries return.                                                *)

EnabledRules == {r \in Range(rules) : r # None /\ ~r.deleted /\ r.enabled}

\* list_discovered_tools
IsDiscovered(t) ==
    /\ tools[t].state = "live" /\ tools[t].server # None
    /\ agents[tools[t].agent] = "live"
    /\ ~servers[tools[t].server].deleted

Discovered == {t \in Tools : IsDiscovered(t)}
DiscoveredRows == {tools[t] : t \in Discovered}

\* covered_tool_ids
CoveredTools == {t \in Discovered : IsCovered(tools[t], EnabledRules)}

ActiveAlerts == {a \in alerts : a.status \in {"open", "acknowledged"}}

\* get_active_alert looks an alert up by its kind, its tool and its server.
AlertKey(a) == <<a.kind, a.tool, a.server>>
Of(rows, key) == {a \in rows : AlertKey(a) = key}
SameAlert(a, b) == AlertKey(a) = AlertKey(b) /\ a.number = b.number

-----------------------------------------------------------------------------
(* What a reconciliation does to alerts.  A want is a verdict on a key.    *)

Want(kind, tool, verdict) ==
    [kind |-> kind, tool |-> tool.id, server |-> tool.server,
     severity |-> AlertSeverity(kind, tool), verdict |-> verdict]

ToolWants(tool, ruleSet, lost) ==
    {Want(k, tool, ToolAlertOpinion(k, tool, ruleSet, lost)) : k \in ToolAlertKinds}

RiskWants(rows, ruleSet) ==
    UNION {{Want(k, t, RiskAlertOpinion(k, t, RiskRecord(t, ruleSet))) :
               k \in RiskAlertKinds} : t \in rows}

\* The numbers that tell the alerts of a key apart.
Numbers(key) == {a.number : a \in Of(alerts, key)}

NewAlert(w) ==
    [kind |-> w.kind, tool |-> w.tool, server |-> w.server, severity |-> w.severity,
     number |-> Cardinality(Numbers(AlertKey(w))) + 1,
     status |-> "open", acked |-> FALSE, closed |-> FALSE, closer |-> FALSE]

\* Variant: an alert that has been acknowledged does not count as active.
CreatedUnlessOpen(wants, active) ==
    {NewAlert(w) : w \in {v \in wants : /\ v.verdict = "active"
                                        /\ \A a \in Of(active, AlertKey(v)) :
                                              a.status # "open"}}

\* create_alert_pending: unless an active one was found.
Created(wants, active) ==
    {NewAlert(w) : w \in {v \in wants : /\ v.verdict = "active"
                                        /\ Of(active, AlertKey(v)) = {}}}

\* Variant: only open alerts are found and resolved.
ResolvableIfOpen(wants, active) ==
    LET keys == {AlertKey(w) : w \in {v \in wants : v.verdict = "resolved"}}
    IN  {{a \in active : a.status = "open" /\ AlertKey(a) \in keys}}

\* resolve_active_alert_pending resolves one of the active alerts it finds:
\* the sets of alerts it may resolve.
Resolvable(wants, active) ==
    LET keys == {AlertKey(w) : w \in {v \in wants : v.verdict = "resolved"}}
        found == {a \in active : AlertKey(a) \in keys}
    IN  {picked \in SUBSET found :
            \A k \in keys : Cardinality(Of(picked, k)) =
                               IF Of(found, k) = {} THEN 0 ELSE 1}

Doubles(rows) ==
    {AlertKey(a) : a \in {b \in rows : \E c \in rows :
        /\ AlertKey(b) = AlertKey(c) /\ b.number # c.number
        /\ {b.status, c.status} \subseteq {"open", "acknowledged"}}}

SetAlerts(rows) ==
    /\ alerts' = rows
    /\ doubled' = doubled \cup Doubles(rows)

\* The part of a transaction that writes the alerts.
Reconciles(wants, active) ==
    \E picked \in Resolvable(wants, active) :
        SetAlerts({IF \E p \in picked : SameAlert(a, p)
                   THEN [a EXCEPT !.status = "resolved", !.closed = TRUE] ELSE a :
                      a \in alerts}
                  \cup Created(wants, active))

-----------------------------------------------------------------------------
(* What a reconciliation does to the risk register.                        *)

\* Variant: every reconciliation inserts its records.
RegisterInserts(v) == \E t \in v.tools : records[t.id] # None

\* The unique indexes refuse controls and records that another transaction
\* has inserted since; the ORM refuses an UPDATE that finds no row.
RegisterConflict(v) ==
    \/ ~v.controls /\ controls
    \/ \E t \in v.tools :
          LET seen == v.records[t.id]
          IN  IF seen = None THEN records[t.id] # None
              ELSE records[t.id] = None /\ RiskRecord(t, v.rules) # seen

\* upsert_risk_record of each tool, and delete_stale_records.
RegisterAfter(v) ==
    [t \in Tools |->
        LET own == {row \in v.tools : row.id = t}
            new == RiskRecord(CHOOSE row \in own : TRUE, v.rules)
        IN  IF own = {} THEN None
            ELSE IF v.records[t] = None THEN new
            ELSE IF records[t] = None THEN None
            ELSE NetChange(records[t], v.records[t], new)]

SetRegister(v) == records' = RegisterAfter(v) /\ controls' = TRUE

-----------------------------------------------------------------------------
(* The queries of a reconciliation.  Rows the session has changed and not  *)
(* committed are as the session sees them: own.                            *)

ReadRules(r) ==
    /\ requests[r].pc = "reconcile"
    /\ requests' = [requests EXCEPT ![r].pc = "ruled",
                                    ![r].view = [@ EXCEPT !.rules = EnabledRules]]
    /\ UNCHANGED <<catalogue, projections, trusted, mishaps>>

ViewWith(r, own) ==
    [rules |-> requests[r].view.rules,
     tools |-> {t \in DiscoveredRows : \A o \in own : o.id # t.id} \cup
               {o \in own : o.id \in Discovered},
     active |-> ActiveAlerts, records |-> records, controls |-> controls]

\* The queries after the one of the rules, as one.  That of the controls comes
\* before the rules in reconcile; it is taken together with the others, for
\* all it decides is whether the transaction will create the built-in ones.
\* The row of a review is the one its session has written to.
ReadTools(r) ==
    LET q == requests[r]
        own == IF q.turn = "review" THEN {With(q.seen, q.body)} ELSE {}
    IN  /\ q.pc = "ruled"
        /\ requests' = [requests EXCEPT ![r] =
              [@ EXCEPT !.pc = "read", !.view = ViewWith(r, own),
                        !.seen = IF q.turn = "tool" THEN tools[q.target] ELSE q.seen]]
        /\ UNCHANGED <<catalogue, projections, trusted, mishaps>>

\* reconcile_all_tools: the transaction of the alerts of all tools.
ReconcileAllTools(r) ==
    LET v == requests[r].view
        Lost(t) == t.id \in requests[r].covered /\ ~IsCovered(t, v.rules)
    IN  /\ requests[r].pc = "read" /\ requests[r].turn = "all"
        /\ Reconciles(UNION {ToolWants(t, v.rules, Lost(t)) : t \in v.tools}, v.active)
        /\ requests' = [requests EXCEPT ![r] =
              [@ EXCEPT !.pc = "reconcile", !.turn = "risk",
                        !.view = NoView, !.covered = {}]]
        /\ UNCHANGED <<catalogue, records, controls, snapshot, trusted, mishaps>>

\* A constraint or a vanished row ends the request with an error.
Conflict(r) ==
    /\ requests[r].pc = "read" /\ requests[r].turn \in {"risk", "tool", "review"}
    /\ RegisterConflict(requests[r].view)
    /\ Ends(r, "conflict")
    /\ trusted' = FALSE
    /\ UNCHANGED <<catalogue, projections, mishaps>>

\* reconcile: the transaction of the risk register and its alerts.  It is the
\* last of an operation on a rule, and the first of a read of the register.
ReconcileRisk(r) ==
    LET v == requests[r].view
        reads == requests[r].op \in {"register", "summary"}
    IN  /\ requests[r].pc = "read" /\ requests[r].turn = "risk"
        /\ ~RegisterConflict(v)
        /\ Reconciles(RiskWants(v.tools, v.rules), v.active)
        /\ SetRegister(v)
        /\ IF reads THEN requests' = [requests EXCEPT ![r].pc = "projected"]
                    ELSE Ends(r, "done")
        /\ trusted' = (trusted \/ (~reads /\ requests[r].alone))
        /\ UNCHANGED <<catalogue, snapshot, mishaps>>

\* The transaction that ends review_tool, with the row it reviewed, or that
\* follows update_agent_tool.
ReconcileTool(r) ==
    LET q == requests[r]
        v == q.view
        tool == IF q.turn = "review" THEN With(q.seen, q.body) ELSE q.seen
    IN  /\ q.pc = "read" /\ q.turn \in {"tool", "review"}
        /\ ~RegisterConflict(v)
        /\ Reconciles(ToolWants(tool, v.rules, FALSE) \cup RiskWants(v.tools, v.rules),
                      v.active)
        /\ SetRegister(v)
        /\ tools' = IF q.turn = "review"
                    THEN [tools EXCEPT ![q.target] = NetChange(@, q.seen, tool)]
                    ELSE tools
        /\ Ends(r, "done")
        /\ UNCHANGED <<agents, servers, rules, snapshot, trusted, mishaps>>

-----------------------------------------------------------------------------
(* Policy rules.                                                           *)

\* validate_scope
ScopeExists(b) ==
    /\ b.scope \in {"agent", "tool"} => agents[b.agent] = "live"
    /\ b.scope = "tool" => tools[b.tool].state = "live" /\ tools[b.tool].agent = b.agent

RuleExists(i) == rules[i] # None /\ ~rules[i].deleted

\* A rule is known by its name, which no other live rule has; the name of a
\* deleted rule is not used again.
LoadRuleToCreate(r, i, body) ==
    /\ rules[i] = None /\ ScopeExists(body)
    /\ Begins(r, "create rule", [pc |-> "loaded", target |-> i, body |-> body])
    /\ UNCHANGED <<catalogue, projections>>

LoadRule(r, i, op, body) ==
    /\ op \in {"update rule", "delete rule"}
    /\ RuleExists(i)
    /\ op = "update rule" => ScopeExists(body)
    /\ Begins(r, op, [pc |-> "loaded", target |-> i, seen |-> rules[i],
                      body |-> IF op = "delete rule" THEN [deleted |-> TRUE] ELSE body,
                      covered |-> CoveredTools])
    /\ UNCHANGED <<catalogue, projections>>

NewRule(i, body) ==
    [id |-> i, scope |-> body.scope, agent |-> body.agent, tool |-> body.tool,
     risk |-> body.risk, effect |-> body.effect, priority |-> body.priority,
     enabled |-> body.enabled, deleted |-> FALSE]

\* The transaction of the rule; two creations of one name meet its index.
CommitRule(r) ==
    LET q == requests[r]
        i == q.target
    IN  /\ q.pc = "loaded" /\ q.op \in {"create rule", "update rule", "delete rule"}
        /\ IF q.op = "create rule" /\ rules[i] # None
           THEN /\ Ends(r, "conflict")
                /\ UNCHANGED rules
           ELSE /\ rules' = [rules EXCEPT ![i] =
                      IF q.op = "create rule"
                      THEN NewRule(i, q.body)
                      ELSE NetChange(@, q.seen, With(q.seen, q.body))]
                /\ requests' = [requests EXCEPT ![r] =
                      [@ EXCEPT !.pc = "reconcile", !.turn = "all"]]
        /\ UNCHANGED <<agents, servers, tools, projections, trusted, mishaps>>

-----------------------------------------------------------------------------
(* Tools, servers and agents.                                              *)

\* review_tool writes the row in the transaction that reconciles it.
ReviewTool(r, t, review) ==
    /\ tools[t].state = "live" /\ tools[t].server # None
    /\ Begins(r, "review tool",
              [pc |-> "reconcile", turn |-> "review", target |-> t, seen |-> tools[t],
               body |-> [risk |-> review.risk, permission |-> review.permission,
                        reviewed |-> TRUE]])
    /\ UNCHANGED <<catalogue, projections>>

NameTaken(agent, name) ==
    \E u \in Tools : /\ tools[u].state = "live"
                     /\ tools[u].agent = agent /\ tools[u].name = name

LoadTool(r, t, patch) ==
    /\ tools[t].state = "live" /\ agents[tools[t].agent] = "live"
    /\ "name" \in DOMAIN patch =>
          patch.name = tools[t].name \/ ~NameTaken(tools[t].agent, patch.name)
    /\ Begins(r, "update tool",
              [pc |-> "loaded", target |-> t, seen |-> tools[t], body |-> patch])
    /\ UNCHANGED <<catalogue, projections>>

\* The transaction of the tool; what follows is for discovered tools only.
CommitTool(r) ==
    LET q == requests[r]
        t == q.target
        row == NetChange(tools[t], q.seen, With(q.seen, q.body))
        taken == \E u \in Tools \ {t} :
                    /\ row.name # tools[t].name
                    /\ {tools[u].state, row.state} = {"live"}
                    /\ tools[u].agent = row.agent /\ tools[u].name = row.name
    IN  /\ q.pc = "loaded" /\ q.op = "update tool"
        /\ tools' = IF taken THEN tools ELSE [tools EXCEPT ![t] = row]
        /\ IF taken THEN Ends(r, "conflict")
           ELSE IF row.server = None THEN Ends(r, "done")
           ELSE requests' = [requests EXCEPT ![r] =
                   [@ EXCEPT !.pc = "reconcile", !.turn = "tool"]]
        /\ UNCHANGED <<agents, servers, rules, projections, trusted, mishaps>>

\* Deleting a tool, a server or an agent touches neither alerts nor records.
DeleteTool(r, t) ==
    /\ tools[t].state = "live" /\ agents[tools[t].agent] = "live"
    /\ Begins(r, "delete", [pc |-> "done"])
    /\ tools' = [tools EXCEPT ![t].state = "deleted"]
    /\ UNCHANGED <<agents, servers, rules, projections>>

DeleteServer(r, s) ==
    /\ ~servers[s].deleted
    /\ Begins(r, "delete", [pc |-> "done"])
    /\ servers' = [servers EXCEPT ![s].deleted = TRUE]
    /\ UNCHANGED <<agents, tools, rules, projections>>

DeleteAgent(r, a) ==
    /\ agents[a] = "live"
    /\ Begins(r, "delete", [pc |-> "done"])
    /\ agents' = [agents EXCEPT ![a] = "deleted"]
    /\ UNCHANGED <<servers, tools, rules, projections>>

\* update_mcp_server with a linked agent, which validate_linked_agent finds,
\* or with none.
RelinkServer(r, s, a) ==
    /\ ~servers[s].deleted
    /\ a # None => agents[a] = "live"
    /\ Begins(r, "relink", [pc |-> "done"])
    /\ servers' = [servers EXCEPT ![s].agent = a]
    /\ UNCHANGED <<agents, tools, rules, projections>>

-----------------------------------------------------------------------------
(* Alerts: acknowledge, resolve, reopen.                                   *)

\* The statuses transition_alert goes from.
From(op) ==
    CASE op = "acknowledge" -> {"open"}
      [] op = "resolve" -> {"open", "acknowledged"}
      [] op = "reopen" -> {"resolved"}

LoadAlert(r, a, op) ==
    /\ op \in AlertOperations /\ a.status \in From(op)
    /\ Begins(r, op, [pc |-> "loaded", seen |-> a])
    /\ UNCHANGED <<catalogue, projections>>

\* Variant: reopening changes the status alone.
TransitionedOnly(op, row, seen) ==
    CASE op = "acknowledge" -> [row EXCEPT !.status = "acknowledged", !.acked = TRUE]
      [] op = "resolve" -> [row EXCEPT !.status = "resolved",
                                       !.closed = TRUE, !.closer = TRUE]
      [] op = "reopen" -> [row EXCEPT !.status = "open"]

\* The times are always written; reopening clears what was seen set.
Transitioned(op, row, seen) ==
    CASE op = "acknowledge" -> [row EXCEPT !.status = "acknowledged", !.acked = TRUE]
      [] op = "resolve" -> [row EXCEPT !.status = "resolved",
                                       !.closed = TRUE, !.closer = TRUE]
      [] op = "reopen" ->
            NetChange(row, seen, [seen EXCEPT !.status = "open", !.acked = FALSE,
                                              !.closed = FALSE, !.closer = FALSE])

CommitAlert(r) ==
    LET q == requests[r]
    IN  /\ q.pc = "loaded" /\ q.op \in AlertOperations
        /\ SetAlerts({IF SameAlert(a, q.seen) THEN Transitioned(q.op, a, q.seen) ELSE a :
                         a \in alerts})
        /\ Ends(r, "done")
        /\ UNCHANGED <<catalogue, records, controls, snapshot, trusted, mishaps>>

-----------------------------------------------------------------------------
(* The risk register and its summary.                                      *)

ReadRegister(r, op) ==
    /\ op \in {"register", "summary"}
    /\ Begins(r, op, [pc |-> "reconcile", turn |-> "risk"])
    /\ UNCHANGED <<catalogue, projections>>

\* build_items looks each tool it lists again up among the records it wrote:
\* a tool that has come since, or a record that has gone, is an error.
BuildItems(r) ==
    LET q == requests[r]
        own == {t.id : t \in q.view.tools}
    IN  /\ q.pc = "projected"
        /\ IF \E t \in Discovered : t \notin own \/ records[t] = None
           THEN Ends(r, "conflict")
           ELSE IF q.op = "register" THEN Ends(r, "done")
           ELSE requests' = [requests EXCEPT ![r] =
                   [@ EXCEPT !.pc = "built", !.seen = snapshot, !.view = NoView]]
        /\ UNCHANGED <<catalogue, projections, trusted, mishaps>>

\* upsert_snapshot
CommitSnapshot(r) ==
    /\ requests[r].pc = "built"
    /\ snapshot' = TRUE
    /\ Ends(r, IF ~requests[r].seen /\ snapshot THEN "conflict" ELSE "done")
    /\ UNCHANGED <<catalogue, alerts, records, controls, doubled, trusted, mishaps>>

-----------------------------------------------------------------------------
\* The process dies or the database fails between two transactions.  In the
\* first transaction of a request that loses all of it, and in a later one it
\* leaves what it leaves here.
Crash(r) ==
    /\ \/ /\ requests[r].pc = "reconcile"
          /\ \/ requests[r].op \in {"create rule", "update rule", "delete rule"}
             \/ requests[r].turn = "tool"
       \/ requests[r].pc \in {"projected", "built"}
    /\ Ends(r, "crashed")
    /\ trusted' = FALSE
    /\ UNCHANGED <<catalogue, projections, mishaps>>

GovernanceInit ==
    /\ \E c \in InitialCatalogs :
          /\ agents = c.agents /\ servers = c.servers
          /\ tools = c.tools /\ rules = c.rules
    /\ alerts = {}
    /\ records = [t \in Tools |-> None]
    /\ controls = FALSE /\ snapshot = FALSE
    /\ requests = [r \in Requests |-> IdleRequest]
    /\ trusted = FALSE /\ doubled = {} /\ mishaps = {}

RuleNext(r) ==
    \/ \E i \in RuleIds :
          \/ \E b \in RuleBodies : LoadRuleToCreate(r, i, b) \/ LoadRule(r, i, "update rule", b)
          \/ LoadRule(r, i, "delete rule", None)
    \/ CommitRule(r)

CatalogueNext(r) ==
    \/ \E t \in Tools :
          \/ \E b \in Reviews : ReviewTool(r, t, b)
          \/ \E b \in ToolPatches : LoadTool(r, t, b)
          \/ DeleteTool(r, t)
    \/ CommitTool(r)
    \/ \E s \in Servers : DeleteServer(r, s) \/ \E a \in Agents \cup {None} : RelinkServer(r, s, a)
    \/ \E a \in Agents : DeleteAgent(r, a)

AlertNext(r) ==
    \/ \E a \in alerts, op \in AlertOperations : LoadAlert(r, a, op)
    \/ CommitAlert(r)

RegisterNext(r) ==
    \/ \E op \in {"register", "summary"} : ReadRegister(r, op)
    \/ BuildItems(r) \/ CommitSnapshot(r)

GovernanceNext(r) ==
    \/ RuleNext(r) \/ CatalogueNext(r) \/ AlertNext(r) \/ RegisterNext(r)
    \/ ReadRules(r) \/ ReadTools(r)
    \/ ReconcileAllTools(r) \/ ReconcileRisk(r) \/ ReconcileTool(r) \/ Conflict(r)
    \/ Crash(r)
=============================================================================
