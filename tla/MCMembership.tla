---------------------------- MODULE MCMembership ---------------------------
(***************************************************************************)
(* An administrator and an operator, and as many overlapping requests as   *)
(* it takes to promote the one, demote the other and act on a stale row;   *)
(* and two administrators, whose requests can wait for each other at once. *)
(***************************************************************************)
EXTENDS Membership, TLC

CONSTANTS ann, bob, c1, c2, c3

MCMembers ==
    (ann :> [status |-> "active", role |-> "admin"]) @@
    (bob :> [status |-> "active", role |-> "operator"])

MCAdmins == [p \in {ann, bob} |-> [status |-> "active", role |-> "admin"]]

MCSymmetry == Permutations(Changes)
=============================================================================
