---------------------------- MODULE MCRateLimit ----------------------------
(***************************************************************************)
(* Requests for RateLimit: logins from one address under two identifiers,  *)
(* with a key for each, and an action that the whole organization shares.  *)
(***************************************************************************)
EXTENDS RateLimit, TLC

CONSTANTS r1, r2, r3, r4

MCBackends == {"memory", "redis", "none", "off"}

MCRequests == {r1, r2, r3, r4}

MCSymmetry == Permutations(MCRequests)

Login(identifier) ==
    [family |-> "auth", scope |-> "login", ip |-> "home", identifier |-> identifier]

CreateToken(actor) ==
    [family |-> "authenticated", scope |-> "gateway_token", organization |-> "acme",
     actor |-> actor, shared |-> TRUE, resource |-> None]

MCLimits == [scope \in {"login", "gateway_token"} |-> IF scope = "login" THEN 2 ELSE 1]

MCCalls == {Login("ann"), Login("bob"), CreateToken("ann")}

\* Over Redis, as many requests as two windows of its counter let log in, all
\* of one name, or three that also create tokens and have a second more; over
\* the others three requests.
MCBound ==
    /\ backend = "redis" => \A r \in Requests : checks[r].call # Login("bob")
    /\ \/ \E r \in Requests : checks[r].pc = "idle"
       \/ backend = "redis" /\ \A r \in Requests : checks[r].call # CreateToken("ann")
    /\ \/ clock < MaxTime
       \/ backend = "redis" /\ \E r \in Requests : checks[r].pc = "idle"
=============================================================================
