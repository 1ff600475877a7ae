---------------------------- MODULE GatewayScope ----------------------------
(***************************************************************************)
(* The gateway with two history variables, for the scope of a call: what   *)
(* its client could have called while the call was being prepared.         *)
(***************************************************************************)
EXTENDS GatewayProperties

VARIABLES
    scoped,      \* the calls whose server was in the scope of their credential
                 \* at some instant of the transaction that calls the tool
    offered      \* what they could have asked upstream at that instant, or at
                 \* a later one before they went upstream

scopeVars == <<scoped, offered>>

\* From the scope check of that transaction to the upstream call.
Preparing == {"scope", "record", "tool", "approval", "decide", "invoke"}

\* What a client is entitled to, apart from the checks of the code: a server of
\* its credential, while it is the server of the credential's enabled agent ...
ServerEntitled(c) ==
    LET t == TokenOf(c)
        s == request[c].server
    IN  /\ s \in TokenServers[t]
        /\ servers[s] = [agent |-> TokenAgent[t], deleted |-> FALSE]
        /\ agents[TokenAgent[t]] = "enabled"

\* ... and the tools of that agent which are now on the server, live, enabled,
\* reviewed and executable, each under the name it has now.
OfferedNow(c) ==
    {[call |-> c, tool |-> t, server |-> request[c].server, name |-> tools[t].name] :
        t \in {u \in Tools :
                 /\ ToolAgent[u] = TokenAgent[TokenOf(c)]
                 /\ tools[u].server = request[c].server
                 /\ ~tools[u].deleted /\ tools[u].enabled /\ tools[u].reviewed
                 /\ tools[u].permission \in {"execute", "admin"}}}

ScopedNow(c) == pc[c] \in Preparing /\ ServerEntitled(c)

ScopeInit == GatewayInit /\ scoped = {} /\ offered = {}

ScopeNext ==
    /\ Next /\ Bounded
    /\ scoped' = scoped \cup {c \in Calls : ScopedNow(c)'}
    /\ offered' = offered \cup
         UNION {OfferedNow(c)' : c \in {d \in scoped' : pc'[d] \in Preparing \ {"scope"}}}

ScopeSpec == ScopeInit /\ [][ScopeNext]_<<vars, scopeVars>>

(***************************************************************************)
(* What goes upstream was the client's to call.  In the transaction that   *)
(* calls it, at one instant the server named was in the credential's scope *)
(* (allowed to it, and linked to its agent, which is enabled), and at that *)
(* or a later one, before it went out, the tool was live, enabled,         *)
(* reviewed, executable, of that agent, on the very server that is asked   *)
(* and under the very name - although a call by name has found its tool in *)
(* an earlier transaction, syncs move tools to other servers, servers are  *)
(* relinked and tools edited throughout.  (call_gateway_tool_by_name,      *)
(* require_allowed_server and require_gateway_tool.)                       *)
(***************************************************************************)
UpstreamStaysInScope == upstream \subseteq offered
=============================================================================
