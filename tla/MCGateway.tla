----------------------------- MODULE MCGateway -----------------------------
(***************************************************************************)
(* A small organization for the gateway: one agent with one server, one    *)
(* tool and one credential, and the requests each .cfg allows; Scope*, a   *)
(* larger one.                                                             *)
(***************************************************************************)
EXTENDS GatewayProperties, TLC

CONSTANTS agent1, agent2, server1, server2, tool1, tool2, tool3, send, drop, wipe,
          token1, token2, a1, k1, c1, c2, c3, d1, d2, o1

MCLinks      == server1 :> agent1
MCToolAgent  == tool1 :> agent1
Row(n, s)    == [name |-> n, server |-> s, enabled |-> TRUE, deleted |-> FALSE,
                 reviewed |-> TRUE, permission |-> "execute", risk |-> "low"]
MCTools      == tool1 :> Row(send, server1)

\* PATCHes of one field, and reviews.
Edit(f, v)    == [[g \in {"name", "enabled", "permission", "risk"} |-> None] EXCEPT ![f] = v]
MCToolEdits   == {Edit("name", wipe), Edit("enabled", FALSE), Edit("risk", "high")}
MCToolReviews == {[permission |-> "write", risk |-> "high"]}

MCApprovalAgent  == a1 :> agent1
MCApprovalAction == a1 :> send
MCTokenAgent     == token1 :> agent1
MCTokenServers   == token1 :> {server1}

\* Rules for every call, for the tool alone, and one only for high risk.
Rule(i, s, t, k, e) == [id |-> i, scope |-> s, tool |-> t, risk |-> k, effect |-> e,
                        agent |-> IF s = "global" THEN None ELSE agent1, priority |-> 1]
ApproveAll == Rule(1, "global", None, "low", "require_approval")
BlockAll   == Rule(2, "global", None, "low", "block")
BlockHigh  == Rule(2, "global", None, "high", "block")
AllowTool  == Rule(3, "tool", tool1, "low", "allow")

MCRuleSpace == {ApproveAll, BlockAll, BlockHigh, AllowTool}
TwoRules    == {{ApproveAll}, {BlockAll, AllowTool}}
NoRules     == {{}}
OnlyBlock   == {{BlockAll}}
RetryRules  == {{}, {ApproveAll}, {BlockAll}}

Ask(via, t, n, k, a) == [via |-> via, secret |-> 1, server |-> server1,
                         tool |-> t, name |-> n, key |-> k, approval |-> a]
ApprovalCalls == {Ask("rest", tool1, None, None, a1), Ask("mcp", None, send, None, None),
                  Ask("legacy", tool1, None, None, None)}
KeyedCalls    == {Ask("rest", tool1, None, k1, None)}
PlainCalls    == {Ask("rest", tool1, None, None, None)}
MixedCalls    == {Ask("rest", tool1, None, k1, None), Ask("mcp", None, send, k1, a1)}

\* For GatewayCalls: a second server of agent1, with a tool of agent1 and one
\* that agent2 has kept from when the server was its own; a second credential
\* that an administrator may create, for both servers.
ScopeLinks      == (server1 :> agent1) @@ (server2 :> agent1)
ScopeToolAgent  == (tool1 :> agent1) @@ (tool2 :> agent1) @@ (tool3 :> agent2)
ScopeTools      == (tool1 :> Row(send, server1)) @@ (tool2 :> Row(drop, server2))
                   @@ (tool3 :> Row(drop, server2))
ScopeTokenAgent   == (token1 :> agent1) @@ (token2 :> agent1)
ScopeTokenServers == (token1 :> {server1}) @@ (token2 :> {server1, server2})
At(s, r)   == [r EXCEPT !.server = s]
With(n, r) == [r EXCEPT !.secret = n]
ScopeCalls ==
    {At(server2, Ask("rest", tool2, None, None, None))}
    \cup {With(2, r) : r \in
            {Ask("rest", tool2, None, None, None),
             At(server2, Ask("rest", tool3, None, None, None)),
             At(server2, Ask("mcp", None, drop, None, None))}}
AllCalls == ApprovalCalls \cup ScopeCalls

CallSymmetry == Permutations(Calls) \cup Permutations(Deciders)
=============================================================================
