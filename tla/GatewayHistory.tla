--------------------------- MODULE GatewayHistory ---------------------------
(***************************************************************************)
(* The gateway with two history variables, for properties that compare a   *)
(* call with what held at other times of its life.                         *)
(***************************************************************************)
EXTENDS GatewayProperties

VARIABLES
    late,        \* the calls that began when their slot had a record already
    permitted    \* the calls that policy did not block at some instant of
                 \* their life

historyVars == <<late, permitted>>

\* The decisions that the rules and the tool's row give now for call c.
DecisionsNow(c) ==
    Decisions(rules, ToolAgent[target[c]], target[c], tools[target[c]].risk)

PermittedNow(c) ==
    /\ pc[c] # "idle" /\ target[c] # None
    /\ \E d \in DecisionsNow(c) : d.effect # "block"

HistoryInit == GatewayInit /\ late = {} /\ permitted = {}

HistoryNext ==
    /\ Next /\ Bounded
    /\ late' = late \cup
         {c \in Calls : pc[c] = "idle" /\ pc'[c] = "credential" /\ KeyTaken(c)'}
    /\ permitted' = permitted \cup {c \in Calls : PermittedNow(c)'}

HistorySpec == HistoryInit /\ [][HistoryNext]_<<vars, historyVars>>

\* The fairness of Gateway's FairSpec, of steps that keep the history too.
FairHistorySpec ==
    /\ HistorySpec
    /\ \A c \in Calls :
          WF_<<vars, historyVars>>(/\ CallStep(c) /\ UNCHANGED <<catalogVars, approvalVars>>
                                  /\ HistoryNext)

(***************************************************************************)
(* A retry that starts after the first call's outcome is committed does    *)
(* not reach the upstream server, whatever administrators change meanwhile *)
(* (test_gateway_idempotency_prevents_duplicate_upstream_call).  A call by *)
(* name knows no tool yet when it starts, and is not among the late ones.  *)
(***************************************************************************)
LateRetryStaysLocal == \A u \in upstream : u.call \notin late

(***************************************************************************)
(* "Block upstream calls when policy denies them."  (README.md): a call    *)
(* that goes upstream was not blocked by policy at every instant of its    *)
(* life.                                                                   *)
(***************************************************************************)
UpstreamWasPermitted == \A u \in upstream : u.call \in permitted
=============================================================================
