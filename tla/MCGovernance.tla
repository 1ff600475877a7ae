--------------------------- MODULE MCGovernance ---------------------------
(***************************************************************************)
(* A small catalogue: two agents, one server, up to four tools, two rules. *)
(***************************************************************************)
EXTENDS GovernanceProperties, TLC

CONSTANTS ann, bob, srv, p1, p2, send, read, c1, c2, c3

Plain == [schema |-> "s1", description |-> "d1"]

Tool(t, agent, server, name, reviewed, risk, permission) ==
    [id |-> t, state |-> "live", agent |-> agent, server |-> server, name |-> name,
     schema |-> IF server = None THEN None ELSE "s1",
     version |-> IF server = None THEN 0 ELSE 1, description |-> "d1",
     reviewed |-> reviewed, risk |-> risk, permission |-> permission, enabled |-> TRUE]

NoTool(t) == [Tool(t, ann, None, send, FALSE, "low", "read") EXCEPT !.state = "absent"]

Rule(scope, agent, tool, risk, effect, priority, enabled) ==
    [scope |-> scope, agent |-> agent, tool |-> tool, risk |-> risk, effect |-> effect,
     priority |-> priority, enabled |-> enabled]

MCRuleBodies ==
    { Rule("agent", ann, None, "high", "require_approval", 2, TRUE),
      Rule("tool", ann, 1, "medium", "block", 2, FALSE) }

MCProposals ==
    { Rule("global", None, None, "low", "block", 1, TRUE),
      Rule("global", None, None, "high", "require_approval", 0, TRUE),
      Rule("agent", ann, None, "high", "block", 3, TRUE),
      Rule("agent", ann, None, "medium", "allow", 3, FALSE),
      Rule("tool", ann, 1, "critical", "allow", 5, TRUE) }

MCReviews == { [risk |-> "critical", permission |-> "write"] }
MCPatches == { [risk |-> "critical"], [name |-> read] }

MCDiscoveries == { send :> Plain,
                   (send :> [Plain EXCEPT !.schema = "s2"]) @@ (read :> Plain) }

MCNamesake == srv :> bob

Unlinked == srv :> [agent |-> None, deleted |-> FALSE, status |-> "disconnected"]

MCCatalogs ==
    { [agents |-> (ann :> "live") @@ (bob :> "absent"),
       servers |-> Unlinked,
       tools |-> <<Tool(1, ann, srv, send, FALSE, "high", "execute"),
                   Tool(2, ann, None, read, TRUE, "low", "read"),
                   NoTool(3), NoTool(4)>>,
       rules |-> (p1 :> (Rule("global", None, None, "low", "allow", 1, TRUE)
                           @@ [id |-> p1, deleted |-> FALSE])) @@ (p2 :> None)] }

MCSymmetry == Permutations({c1, c2, c3})
=============================================================================
