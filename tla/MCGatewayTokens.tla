-------------------------- MODULE MCGatewayTokens --------------------------
(***************************************************************************)
(* A small instance of GatewayTokens: one credential that exists, one that *)
(* may be created, three management requests that may all overlap, and two *)
(* requests that authenticate meanwhile.                                   *)
(***************************************************************************)
EXTENDS GatewayTokens, TLC

CONSTANTS agent1, server1, tool1, send, t1, t2, o1, o2, o3, u1, u2

MCLinks        == server1 :> agent1
MCToolAgent    == tool1 :> agent1
MCNoEdits == {}
MCTools        == tool1 :> [name |-> send, server |-> server1, enabled |-> TRUE,
                            deleted |-> FALSE, reviewed |-> TRUE,
                            permission |-> "execute", risk |-> "low"]
MCRuleSpace    == {}
MCRules        == {{}}
MCTokenAgent   == (t1 :> agent1) @@ (t2 :> agent1)
MCTokenServers == (t1 :> {server1}) @@ (t2 :> {server1})

MCSymmetry == Permutations({o1, o2, o3}) \cup Permutations({u1, u2})
=============================================================================
