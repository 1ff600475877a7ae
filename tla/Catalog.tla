------------------------------ MODULE Catalog ------------------------------
(***************************************************************************)
(* What an organization administers and the gateway consults: its agents,  *)
(* MCP servers, discovered tools and policy rules.  One action per         *)
(* operation of the management API that changes them; each is one          *)
(* committed transaction.  MaxChanges bounds the number of such operations *)
(* in a behaviour.                                                         *)
(*                                                                         *)
(* No operation changes the agent of a tool: ToolAgent is a constant.  The *)
(* server a tool was discovered from changes when a sync adopts it.        *)
(***************************************************************************)
EXTENDS PolicyDecision

CONSTANTS
    Agents, Servers, Tools,
    InitialLinks,    \* the agent each server is linked to at first
    ToolAgent,       \* agent_tools.agent_id
    Names,           \* names a tool can have
    InitialTools,    \* the tool rows a behaviour starts from
    ToolEdits,       \* bodies of a PATCH of a tool: None is a field not set
    ToolReviews,     \* the permission and the risk a reviewer may settle on
    RuleSpace,       \* the policy rules an administrator may write
    InitialRules,    \* the sets of rules a behaviour may start from
    MaxChanges       \* bound on the number of administrative changes

VARIABLES
    agents,    \* agents[a]: "enabled", "disabled" or "deleted"
    servers,   \* servers[s]: [agent, deleted], its link and soft deletion
    tools,     \* tools[t]: the tool's row
    rules,     \* the enabled, not deleted policy rules
    changes,   \* number of administrative changes so far
    audit      \* committed audit rows of credentials, approvals and calls

\* The audit rows of the operations of this module are not kept: audit is
\* declared here for the components that share it.
catalogVars == <<agents, servers, tools, rules, changes>>

Permissions == {"read", "write", "execute", "admin"}

\* server is discovered_from_mcp_server_id, None of a tool no sync has found.
ToolRows == [name : Names, server : Servers \cup {None}, enabled : BOOLEAN,
             deleted : BOOLEAN, reviewed : BOOLEAN, permission : Permissions,
             risk : RiskLevels]

ASSUME CatalogAssumption ==
    /\ InitialLinks \in [Servers -> Agents]
    /\ ToolAgent \in [Tools -> Agents]
    /\ InitialTools \in [Tools -> ToolRows]
    /\ ToolEdits \subseteq [name : Names \cup {None}, enabled : BOOLEAN \cup {None},
                            permission : Permissions \cup {None},
                            risk : RiskLevels \cup {None}]
    /\ ToolReviews \subseteq [permission : Permissions, risk : RiskLevels]
    /\ \A r \in RuleSpace : r.effect \in Effects
    /\ InitialRules \subseteq SUBSET RuleSpace
    /\ MaxChanges \in Nat

CatalogInit ==
    /\ agents = [a \in Agents |-> "enabled"]
    /\ servers = [s \in Servers |-> [agent |-> InitialLinks[s], deleted |-> FALSE]]
    /\ tools = InitialTools
    /\ rules \in InitialRules
    /\ changes = 0

Change == changes < MaxChanges /\ changes' = changes + 1

\* PATCH of an agent: its status enables or disables it for the gateway.
UpdateAgent(a, s) ==
    /\ Change
    /\ agents[a] # "deleted"
    /\ agents' = [agents EXCEPT ![a] = s]
    /\ UNCHANGED <<servers, tools, rules>>

SoftDeleteAgent(a) ==
    /\ Change
    /\ agents[a] # "deleted"
    /\ agents' = [agents EXCEPT ![a] = "deleted"]
    /\ UNCHANGED <<servers, tools, rules>>

\* PATCH of a server's linked agent: an existing agent, or none.
RelinkServer(s, a) ==
    /\ Change
    /\ ~servers[s].deleted
    /\ a # None => agents[a] # "deleted"
    /\ servers' = [servers EXCEPT ![s].agent = a]
    /\ UNCHANGED <<agents, tools, rules>>

SoftDeleteServer(s) ==
    /\ Change
    /\ ~servers[s].deleted
    /\ servers' = [servers EXCEPT ![s].deleted = TRUE]
    /\ UNCHANGED <<agents, tools, rules>>

NameTaken(t, n) ==
    \E u \in Tools \ {t} : /\ ToolAgent[u] = ToolAgent[t]
                           /\ ~tools[u].deleted /\ tools[u].name = n

\* The row after a PATCH: fields the body does not set keep their value.
Edited(row, e) ==
    [f \in DOMAIN row |-> IF f \in DOMAIN e /\ e[f] # None THEN e[f] ELSE row[f]]

\* PATCH of a tool: any of its editable fields, under a name no other live
\* tool of the agent has.
UpdateTool(t, e) ==
    /\ Change
    /\ agents[ToolAgent[t]] # "deleted" /\ ~tools[t].deleted
    /\ e.name \in {None, tools[t].name} \/ ~NameTaken(t, e.name)
    /\ tools' = [tools EXCEPT ![t] = Edited(@, e)]
    /\ UNCHANGED <<agents, servers, rules>>

\* A human review sets the risk and the permission and marks the tool reviewed.
ReviewTool(t, v) ==
    /\ Change
    /\ ~tools[t].deleted
    /\ tools' = [tools EXCEPT ![t] = [Edited(@, v) EXCEPT !.reviewed = TRUE]]
    /\ UNCHANGED <<agents, servers, rules>>

\* DELETE of a tool, and its removal by a sync that no longer finds it.
SoftDeleteTool(t) ==
    /\ Change
    /\ ~tools[t].deleted
    /\ tools' = [tools EXCEPT ![t] = [@ EXCEPT !.deleted = TRUE]]
    /\ UNCHANGED <<agents, servers, rules>>

\* A sync of server s is offered the name of a tool of the agent it has loaded
\* the server with, has no tool of its own under that name, and takes the tool
\* over.  The server may have been relinked or deleted since it was loaded.
AdoptTool(t, s) ==
    /\ Change
    /\ agents[ToolAgent[t]] # "deleted" /\ ~tools[t].deleted
    /\ \A u \in Tools : tools[u].server = s /\ tools[u].name = tools[t].name
                          => tools[u].deleted
    /\ tools' = [tools EXCEPT ![t].server = s]
    /\ UNCHANGED <<agents, servers, rules>>

\* validate_scope: the agent and the tool a rule names exist.
ScopeExists(r) ==
    /\ r.scope \in {"agent", "tool"} => agents[r.agent] # "deleted"
    /\ r.scope = "tool" => ToolAgent[r.tool] = r.agent /\ ~tools[r.tool].deleted

CreateRule(r) ==
    /\ Change
    /\ ScopeExists(r)
    /\ \A s \in rules : s.id # r.id
    /\ rules' = rules \cup {r}
    /\ UNCHANGED <<agents, servers, tools>>

\* PATCH of a rule: the row r becomes s, under the same id.
UpdateRule(r, s) ==
    /\ Change
    /\ r \in rules /\ s.id = r.id /\ s # r
    /\ ScopeExists(s)
    /\ rules' = (rules \ {r}) \cup {s}
    /\ UNCHANGED <<agents, servers, tools>>

\* DELETE of a rule, or a PATCH that disables it.
RemoveRule(r) ==
    /\ Change
    /\ r \in rules
    /\ rules' = rules \ {r}
    /\ UNCHANGED <<agents, servers, tools>>

CatalogNext ==
    \/ \E a \in Agents : \/ \E s \in {"enabled", "disabled"} : UpdateAgent(a, s)
                         \/ SoftDeleteAgent(a)
    \/ \E s \in Servers : \/ \E a \in Agents \cup {None} : RelinkServer(s, a)
                          \/ SoftDeleteServer(s)
    \/ \E t \in Tools :
          \/ \E e \in ToolEdits : UpdateTool(t, e)
          \/ \E v \in ToolReviews : ReviewTool(t, v)
          \/ SoftDeleteTool(t)
          \/ \E s \in Servers : AdoptTool(t, s)
    \/ \E r \in RuleSpace : \/ CreateRule(r) \/ RemoveRule(r)
                            \/ \E s \in RuleSpace : UpdateRule(r, s)

CatalogTypeOK ==
    /\ agents \in [Agents -> {"enabled", "disabled", "deleted"}]
    /\ servers \in [Servers -> [agent : Agents \cup {None}, deleted : BOOLEAN]]
    /\ tools \in [Tools -> ToolRows]
    /\ rules \subseteq RuleSpace
    /\ changes \in 0..MaxChanges
=============================================================================
