------------------------- MODULE GatewayProperties -------------------------
(***************************************************************************)
(* What the gateway of Gateway.tla guarantees, and what its documentation  *)
(* says that it does not.                                                  *)
(***************************************************************************)
EXTENDS Gateway

TypeOK ==
    /\ CatalogTypeOK /\ ApprovalsTypeOK /\ TokensTypeOK
    /\ pc \in [Calls -> Steps]
    /\ request \in [Calls -> CallSpace \cup {None}]
    /\ target \in [Calls -> Tools \cup {None}]
    /\ seen \in [Calls -> ToolRows \cup {None}]
    /\ \A c \in Calls : decision[c] # None => decision[c].effect \in Effects
    /\ outcome \in [Calls -> ExecutionStatuses \cup {None}]
    /\ body \in [Calls -> Responses \cup {None}]
    /\ upstream \subseteq [call : Calls, tool : Tools, server : Servers, name : Names]
    /\ records \subseteq [slot : Tokens \X Tools \X Keys, response : Responses]

(***************************************************************************)
(* Whatever reached an upstream server was not blocked by the decision of  *)
(* its call, and if the decision required an approval (or the client sent  *)
(* one) the audit log shows that an approver approved that approval, for   *)
(* the agent of the tool and for the very name the server was asked for -  *)
(* although tools are renamed and approvals are decided while the call is  *)
(* under way.  (HARDENING_AUDIT.md, "Gateway Checks".)                     *)
(***************************************************************************)
ApprovedInLog(a, agent, name) ==
    /\ ApprovalAgent[a] = agent /\ ApprovalAction[a] = name
    /\ \E d \in Deciders : ApprovalEvent("approved", d, a) \in audit

UpstreamWasAuthorized ==
    \A u \in upstream :
        LET c == u.call
        IN  /\ decision[c].effect # "block"
            /\ decision[c].effect = "require_approval" => request[c].approval # None
            /\ request[c].approval # None =>
                  ApprovedInLog(request[c].approval, ToolAgent[u.tool], u.name)

(***************************************************************************)
(* The executions, the audit log and the call records agree although       *)
(* calls abort, are rolled back by a duplicate key, or are replayed: each  *)
(* execution has its whole audit trail and none has a part of it without   *)
(* the execution; and each call record holds the response of a committed   *)
(* execution of the same credential and tool.                              *)
(***************************************************************************)
TrailIsAtomic ==
    /\ \A e \in executions : CallTrail(e.call) \subseteq audit
    /\ \A v \in audit : v.action \in ExecutionStatuses \cup
                           {"policy_evaluated", "call_requested", "execution_created"}
          => \E e \in executions : e.call = v.by
    /\ \A r \in records : \E e \in executions :
          /\ r.response = [execution |-> e.call, status |-> e.status, effect |-> e.effect]
          /\ r.slot[1] = e.token /\ r.slot[2] = e.tool

(***************************************************************************)
(* What a client is told happened is in the database: an answer carries an *)
(* execution that is committed with that status, and a status of success   *)
(* means that the server of the tool was asked, by the execution's own     *)
(* call and not by the one that replays it.                                *)
(***************************************************************************)
AnswersAreTrue ==
    \A c \in Calls : body[c] # None =>
        /\ \E e \in executions : /\ e.call = body[c].execution
                                 /\ e.status = body[c].status
                                 /\ e.token = TokenOf(c) /\ e.tool = target[c]
        /\ body[c].status = "succeeded" =>
              \E u \in upstream : u.call = body[c].execution /\ u.tool = target[c]
        /\ reply[c] = "replay" =>
              body[c].execution # c /\ \A u \in upstream : u.call # c

(***************************************************************************)
(* The gateway implements the ledger of idempotency keys of CallLedger.    *)
(***************************************************************************)
Ledger == INSTANCE CallLedger WITH
    Requests  <- Calls,
    Slots     <- Tokens \X Tools \X Keys,
    Responses <- Responses,
    NoAnswer  <- None,
    ledger    <- records,
    answers   <- [c \in Calls |->
                     IF body[c] # None /\ request[c].key # None
                     THEN [slot |-> SlotOf(c), response |-> body[c]]
                     ELSE None]

ImplementsLedger == Ledger!Spec

(***************************************************************************)
(* Every request that presents a credential is answered in the end: no     *)
(* step waits for something that may never come.                           *)
(***************************************************************************)
CallsAreAnswered == \A c \in Calls : pc[c] # "idle" ~> pc[c] = "done"

-----------------------------------------------------------------------------
(***************************************************************************)
(* "repeated calls using the same gateway token and tool return the        *)
(* previous execution status and safe summary without calling the upstream *)
(* tool again" (DEPLOYMENT.md): no two calls on one slot go upstream.      *)
(***************************************************************************)
OneUpstreamCallPerKey ==
    \A u, v \in upstream :
        /\ request[u.call].key # None /\ SlotOf(u.call) = SlotOf(v.call)
        => u = v
=============================================================================
