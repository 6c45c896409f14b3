------------------------------ MODULE Rendezvous ------------------------------
(***************************************************************************)
(* What signaling promises: of all the clients that come, the first two    *)
(* are paired, and between them exactly one offer/answer exchange takes    *)
(* place, in order.  Nobody else ever holds a session description.  There  *)
(* are no packets here: a description is read where it was made.           *)
(***************************************************************************)
CONSTANTS Clients, Nobody

VARIABLES
    caller, callee, \* the pair, Nobody until they arrive
    made, remote    \* the description each client made, and the one it took

vars == <<caller, callee, made, remote>>

Init ==
    /\ caller = Nobody
    /\ callee = Nobody
    /\ made = [c \in Clients |-> "none"]
    /\ remote = [c \in Clients |-> "none"]

ArriveFirst(c) ==
    /\ caller = Nobody
    /\ caller' = c
    /\ UNCHANGED <<callee, made, remote>>

ArriveSecond(c) ==
    /\ caller \notin {c, Nobody}
    /\ callee = Nobody
    /\ callee' = c
    /\ UNCHANGED <<caller, made, remote>>

Paired == callee # Nobody

\* The caller offers, once, to the callee it was paired with.
Offer ==
    /\ Paired
    /\ made[caller] = "none"
    /\ made' = [made EXCEPT ![caller] = "offer"]
    /\ UNCHANGED <<caller, callee, remote>>

\* The callee takes the caller's offer.
Take ==
    /\ Paired
    /\ made[caller] = "offer"
    /\ remote[callee] = "none"
    /\ remote' = [remote EXCEPT ![callee] = "offer"]
    /\ UNCHANGED <<caller, callee, made>>

\* The callee answers the offer it took.
Answer ==
    /\ Paired
    /\ remote[callee] = "offer"
    /\ made[callee] = "none"
    /\ made' = [made EXCEPT ![callee] = "answer"]
    /\ UNCHANGED <<caller, callee, remote>>

\* The caller takes the answer: the exchange is complete.
Complete ==
    /\ Paired
    /\ made[callee] = "answer"
    /\ remote[caller] = "none"
    /\ remote' = [remote EXCEPT ![caller] = "answer"]
    /\ UNCHANGED <<caller, callee, made>>

Next ==
    \/ \E c \in Clients : ArriveFirst(c) \/ ArriveSecond(c)
    \/ Offer \/ Take \/ Answer \/ Complete

Spec == Init /\ [][Next]_vars

=============================================================================
