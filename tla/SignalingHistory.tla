--------------------------- MODULE SignalingHistory ---------------------------
(***************************************************************************)
(* SignalingSession with a history: told[c] is what the server has told a  *)
(* client, as AndroidDataChannel and CombinedClient keep it.               *)
(***************************************************************************)
EXTENDS SignalingSession

VARIABLE told

varsH == <<vars, told>>

InitH == Init /\ told = [c \in Clients |-> {}]

\* What told keeps of an event.
Kind(ev) ==
    IF ev \in {"set-as-caller", "set-as-callee"} THEN {"role"}
    ELSE {ev} \cap {"ready", "offer", "answer"}

ListenerH(c) ==
    /\ Listener(c)
    /\ told' = [told EXCEPT ![c] = @ \cup Kind(Head(down[c]).ev)]

NextH ==
    \/ \E c \in Clients :
        \/ ListenerH(c)
        \/ (ServerStep(c) \/ Observer(c) \/ Environment(c)) /\ UNCHANGED told
    \/ \E p \in calls : TimeOut(p) /\ UNCHANGED told

SpecH == InitH /\ [][NextH]_varsH

FairSpecH == SpecH /\ Fairness

\* The connection as a client sees it.
Socket(c) ==
    CASE link[c] = "idle" -> "pending"
      [] link[c] \in {"open", "detached"} -> "open"
      [] link[c] = "closed" -> "closed"

Events == INSTANCE ClientEvents WITH
    connection <- [c \in Clients |-> TRUE],
    socket <- [c \in Clients |-> Socket(c)],
    creating <- [c \in Clients |-> {creating[c]} \ {"none"}],
    local <- [c \in Clients |-> local[c] # "none"],
    remote <- [c \in Clients |-> remote[c] # "none"]

\* Whatever the server and the other clients do, each client is told its role
\* once, and once at most to be ready, of an offer and of an answer.
ToldOnce == Events!Spec

=============================================================================
