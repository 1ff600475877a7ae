---------------------------- MODULE MCApprovals ----------------------------
(***************************************************************************)
(* A small organization for Approvals: one agent, two approvals, and       *)
(* enough requests for two decisions to race on the one approval while the *)
(* other is created.                                                       *)
(***************************************************************************)
EXTENDS Approvals, TLC

CONSTANTS agent1, server1, tool1, send, a1, a2, d1, d2, d3, d4

MCLinks      == server1 :> agent1
MCToolAgent  == tool1 :> agent1
MCNoEdits == {}
MCTools      == tool1 :> [name |-> send, server |-> server1, enabled |-> TRUE,
                          deleted |-> FALSE, reviewed |-> TRUE,
                          permission |-> "execute", risk |-> "high"]
MCRuleSpace  == {}
MCRules      == {{}}
MCApprovalAgent  == (a1 :> agent1) @@ (a2 :> agent1)
MCApprovalAction == (a1 :> send) @@ (a2 :> send)

MCSymmetry == Permutations({d1, d2, d3, d4})


=============================================================================
