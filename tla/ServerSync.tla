----------------------------- MODULE ServerSync -----------------------------
(***************************************************************************)
(* The synchronization of an MCP server: sync_mcp_server of                *)
(* services/mcp_servers.py.  The row of the server is loaded, the tools it *)
(* offers are asked for over the network, and one transaction then         *)
(* creates, updates, adopts and removes tools, raises their alerts and     *)
(* recomputes the risk register.  The session keeps the row of the server  *)
(* as it loaded it before the discovery.  When the discovery or the        *)
(* transaction fails, another transaction records the failure.             *)
(***************************************************************************)
EXTENDS Governance

CONSTANTS
    Namesake,      \* the agent that has the name of a server
    Discoveries    \* what a server may answer: [name -> [schema, description]]

ASSUME ServerSyncAssumption ==
    /\ Namesake \in [Servers -> Agents]
    /\ \A offer \in Discoveries :
          /\ DOMAIN offer \subseteq Names /\ IsFiniteSet(DOMAIN offer)
          /\ offer \in [DOMAIN offer -> [schema : Texts, description : Texts]]

\* The transport, the credentials and the time-outs of the adapter decide
\* whether the discovery fails, which is a choice here.
LoadServer(r, s) ==
    /\ ~servers[s].deleted
    /\ Begins(r, "sync", [pc |-> "discovering", turn |-> "sync", target |-> s,
                          seen |-> servers[s]])
    /\ UNCHANGED <<catalogue, projections>>

Discover(r, offer) ==
    /\ requests[r].pc = "discovering"
    /\ requests' = [requests EXCEPT ![r].pc = "discovered", ![r].body = offer]
    /\ UNCHANGED <<catalogue, projections, trusted, mishaps>>

\* record_sync_failure after a failed discovery: the row is still loaded.
DiscoveryFails(r) ==
    LET q == requests[r]
    IN  /\ q.pc = "discovering"
        /\ servers' = [servers EXCEPT ![q.target] =
              NetChange(@, q.seen, [q.seen EXCEPT !.status = "error"])]
        /\ Ends(r, "done")
        /\ UNCHANGED <<agents, tools, rules, projections, trusted, mishaps>>

\* record_sync_failure after a rollback, which has expired the row.
RecordSyncFailure(r) ==
    /\ requests[r].pc = "failing"
    /\ servers' = [servers EXCEPT ![requests[r].target].status = "error"]
    /\ Ends(r, IF requests[r].turn = "sync" THEN "conflict" ELSE "done")
    /\ UNCHANGED <<agents, tools, rules, projections, trusted, mishaps>>

\* ensure_linked_agent: the agent of the server as loaded.  An agent with the
\* name of the server is created when there is none.
LinkedAgent(server, s) == IF server.agent # None THEN server.agent ELSE Namesake[s]

LinkFails(server, s) == agents[LinkedAgent(server, s)] = "deleted"

-----------------------------------------------------------------------------
(* The tools of the transaction: for each name the row that is to be       *)
(* updated, and the rows to be removed.                                    *)

Live == {t \in Tools : tools[t].state = "live"}

\* The dictionary of the tools of the server by name keeps one tool of each
\* name, any of them.
ByName(s) ==
    LET own == {t \in Live : tools[t].server = s}
    IN  {f \in [{tools[t].name : t \in own} -> own] :
            \A n \in DOMAIN f : tools[f[n]].name = n}

\* A tool of the linked agent that no sync has found is adopted.
Adoptable(agent, name) ==
    {t \in Live : tools[t].agent = agent /\ tools[t].name = name}

Matched(offer, dict, agent) ==
    [n \in DOMAIN offer |->
        IF n \in DOMAIN dict THEN tools[dict[n]]
        ELSE LET found == Adoptable(agent, n)
             IN  IF found = {} THEN None ELSE tools[CHOOSE t \in found : TRUE]]

Updated(row, s, content) ==
    [row EXCEPT !.server = s, !.description = content.description,
                !.schema = content.schema,
                !.version = IF row.schema = content.schema THEN @ ELSE @ + 1]

NewTool(t, agent, s, name, content) ==
    [id |-> t, state |-> "live", agent |-> agent, server |-> s, name |-> name,
     schema |-> content.schema, version |-> 1, description |-> content.description,
     reviewed |-> FALSE, risk |-> "medium", permission |-> "execute", enabled |-> TRUE]

\* The queries of the transaction, up to those of the risk register.  The
\* name of a deleted agent is not used again.
ReadSync(r) ==
    LET q == requests[r]
        s == q.target
        agent == LinkedAgent(q.seen, s)
    IN  /\ q.pc = "discovered"
        /\ q.seen.agent # None \/ agents[agent] # "deleted"
        /\ IF LinkFails(q.seen, s)
           THEN requests' = [requests EXCEPT ![r].pc = "failing", ![r].turn = None]
           ELSE \E dict \in ByName(s) :
                LET match == Matched(q.body, dict, agent)
                    kept == {n \in DOMAIN match : match[n] # None}
                    own == {Updated(match[n], s, q.body[n]) : n \in kept}
                    gone == {tools[dict[n]] : n \in DOMAIN dict \ DOMAIN match}
                    Shown(o) == agents[o.agent] = "live" /\ ~servers[s].deleted
                IN  requests' = [requests EXCEPT ![r] =
                       [@ EXCEPT !.pc = "read",
                                 !.body = [offer |-> q.body, match |-> match, gone |-> gone,
                                          names |-> agents[agent] = "absent"],
                                 !.view = [rules |-> EnabledRules,
                                           tools |-> {t \in DiscoveredRows :
                                              \A o \in own \cup gone : o.id # t.id}
                                              \cup {o \in own : Shown(o)},
                                           active |-> ActiveAlerts, records |-> records,
                                           controls |-> controls]]]
        /\ UNCHANGED <<catalogue, projections, trusted, mishaps>>

-----------------------------------------------------------------------------
(* The transaction.                                                        *)

Event(kind, tool) == Want(kind, tool, "active")

\* The names without a row, and rows for them.
Unmatched(r) == {n \in DOMAIN requests[r].body.match : requests[r].body.match[n] = None}

\* The bound on the rows of a behaviour.
Free == {t \in Tools : tools[t].state = "absent"}

RowsLeft(r) ==
    \E f \in [Unmatched(r) -> Free] : IsInjective(f)

NewTools(r) ==
    LET q == requests[r]
        ids == CHOOSE f \in [Unmatched(r) -> Free] : IsInjective(f)
    IN  {NewTool(ids[n], LinkedAgent(q.seen, q.target), q.target, n, q.body.offer[n]) :
            n \in Unmatched(r)}

EventWants(r, created) ==
    LET q == requests[r]
        match == q.body.match
        kept == DOMAIN match \ Unmatched(r)
        Row(n) == Updated(match[n], q.target, q.body.offer[n])
    IN  {Event("new_tool_discovered", t) : t \in created}
        \cup {Event("description_changed", Row(n)) :
                 n \in {m \in kept : Row(m).description # match[m].description}}
        \cup {Event("schema_changed", Row(n)) :
                 n \in {m \in kept : Row(m).schema # match[m].schema}}
        \cup {Event("tool_removed", t) : t \in q.body.gone}

SyncView(r, created) ==
    [requests[r].view EXCEPT !.tools = @ \cup
        (IF servers[requests[r].target].deleted THEN {} ELSE created)]

\* The unique indexes on the names of agents, on the live tools of an agent,
\* and those of the register.
SyncConflict(r) ==
    \/ requests[r].body.names /\ agents[Namesake[requests[r].target]] # "absent"
    \/ \E n \in Unmatched(r) :
          Adoptable(LinkedAgent(requests[r].seen, requests[r].target), n) # {}
    \/ RegisterConflict(requests[r].view)

\* An error of the transaction is rolled back and recorded as a failure of the
\* server.  That of the audit log is raised instead: it leaves nothing, as a
\* request that goes no further from here.
FailSync(r) ==
    /\ requests[r].pc = "read" /\ requests[r].turn = "sync"
    /\ SyncConflict(r)
    /\ requests' = [requests EXCEPT ![r].pc = "failing"]
    /\ UNCHANGED <<catalogue, projections, trusted, mishaps>>

\* Variant: the rows are written as they were loaded, with the changes.
ToolsOverwritten(r, created) ==
    LET q == requests[r]
        kept == DOMAIN q.body.match \ Unmatched(r)
        new == {Updated(q.body.match[n], q.target, q.body.offer[n]) : n \in kept}
               \cup {[t EXCEPT !.state = "deleted"] : t \in q.body.gone} \cup created
    IN  [t \in Tools |-> IF \E o \in new : o.id = t THEN CHOOSE o \in new : o.id = t
                         ELSE tools[t]]

\* Variant: tools the server no longer offers are left alone.
ToolsWithoutRemovals(r, created) ==
    LET q == requests[r]
        kept == DOMAIN q.body.match \ Unmatched(r)
        Change(t) == {n \in kept : q.body.match[n].id = t}
    IN  [t \in Tools |->
            IF \E c \in created : c.id = t THEN CHOOSE c \in created : c.id = t
            ELSE IF Change(t) # {}
            THEN LET n == CHOOSE n \in Change(t) : TRUE
                 IN  NetChange(tools[t], q.body.match[n],
                               Updated(q.body.match[n], q.target, q.body.offer[n]))
            ELSE tools[t]]

ToolsAfterSync(r, created) ==
    LET q == requests[r]
        kept == DOMAIN q.body.match \ Unmatched(r)
        Change(t) == {n \in kept : q.body.match[n].id = t}
    IN  [t \in Tools |->
            IF \E c \in created : c.id = t THEN CHOOSE c \in created : c.id = t
            ELSE IF Change(t) # {}
            THEN LET n == CHOOSE n \in Change(t) : TRUE
                 IN  NetChange(tools[t], q.body.match[n],
                               Updated(q.body.match[n], q.target, q.body.offer[n]))
            ELSE IF \E g \in q.body.gone : g.id = t
            THEN [tools[t] EXCEPT !.state = "deleted"]
            ELSE tools[t]]

CommitSync(r) ==
    LET q == requests[r]
        s == q.target
        agent == LinkedAgent(q.seen, s)
        created == NewTools(r)
        v == SyncView(r, created)
        kept == {Updated(q.body.match[n], s, q.body.offer[n]) :
                    n \in DOMAIN q.body.match \ Unmatched(r)}
    IN  /\ q.pc = "read" /\ q.turn = "sync"
        /\ ~SyncConflict(r) /\ RowsLeft(r)
        /\ Reconciles(EventWants(r, created)
                      \cup (UNION {ToolWants(t, v.rules, FALSE) : t \in kept \cup created})
                      \cup RiskWants(v.tools, v.rules), v.active)
        /\ SetRegister(v)
        /\ tools' = ToolsAfterSync(r, created)
        /\ agents' = [agents EXCEPT ![agent] = IF @ = "absent" THEN "live" ELSE @]
        /\ servers' = [servers EXCEPT ![s] =
              NetChange(@, q.seen, [q.seen EXCEPT !.agent = agent, !.status = "connected"])]
        /\ Ends(r, "done")
        /\ UNCHANGED <<rules, snapshot, trusted, mishaps>>

SyncNext(r) ==
    \/ \E s \in Servers : LoadServer(r, s)
    \/ \E offer \in Discoveries : Discover(r, offer)
    \/ DiscoveryFails(r) \/ RecordSyncFailure(r)
    \/ ReadSync(r) \/ FailSync(r) \/ CommitSync(r)
=============================================================================
