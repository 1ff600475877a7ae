---------------------------- MODULE CallLedger ----------------------------
(***************************************************************************)
(* What the gateway promises of idempotency keys to the clients that use   *)
(* them, whatever happens inside: a slot (a credential, a tool and a key)  *)
(* is given a response at most once, by the call it is the response of,    *)
(* and from then on every call on the slot that is answered with a         *)
(* response is given that one.  Unlike the upstream effect, of which the   *)
(* code does not bound the number, this holds for concurrent calls too.    *)
(***************************************************************************)
CONSTANTS Requests, Slots, Responses, NoAnswer

VARIABLES
    ledger,    \* the set of pairs [slot, response] that have been fixed
    answers    \* answers[c]: NoAnswer, or the pair call c was answered with

Entries == [slot : Slots, response : Responses]

Init == ledger = {} /\ answers = [c \in Requests |-> NoAnswer]

\* A call on a slot without a response fixes it.
Fix(c, e) ==
    /\ answers[c] = NoAnswer
    /\ \A f \in ledger : f.slot # e.slot
    /\ ledger' = ledger \cup {e}
    /\ answers' = [answers EXCEPT ![c] = e]

\* A call on a slot that has a response is given that response.
Repeat(c, e) ==
    /\ answers[c] = NoAnswer
    /\ e \in ledger
    /\ answers' = [answers EXCEPT ![c] = e]
    /\ UNCHANGED ledger

Next == \E c \in Requests : \/ \E e \in Entries : Fix(c, e)
                            \/ \E e \in ledger : Repeat(c, e)

Spec == Init /\ [][Next]_<<ledger, answers>>

(***************************************************************************)
(* Two answers on one slot are the same answer.                            *)
(***************************************************************************)
AnswersAgree ==
    \A c, d \in Requests :
        /\ answers[c] # NoAnswer /\ answers[d] # NoAnswer
        /\ answers[c].slot = answers[d].slot
        => answers[c] = answers[d]
=============================================================================
