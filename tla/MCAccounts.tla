---------------------------- MODULE MCAccounts -----------------------------
(***************************************************************************)
(* An empty database, or an organization with one administrator, ann, of   *)
(* which bob is no longer a member and dan has no account.  Invites are    *)
(* for an agent owner, and changes are deactivations.                      *)
(***************************************************************************)
EXTENDS Accounts, TLC

CONSTANTS ann, bob, dan, c1, i1, i2

MCMembers == [p \in People |->
    CASE p = ann -> [status |-> "active", role |-> "admin"]
      [] p = bob -> [status |-> "inactive", role |-> "agent_owner"]
      [] OTHER -> [status |-> "absent", role |-> None]]

MCRequests == 1..MaxRequests

MCBound ==
    /\ \A r \in InviteRequests : inviteRequests[r].role \in {None, "agent_owner"}
    /\ \A c \in Changes : /\ changes[c].role = None
                          /\ changes[c].pc = "loaded" => changes[c].deactivate

MCSymmetry == Permutations(Invites)
=============================================================================
