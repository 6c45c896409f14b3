---------------------------- MODULE ClientEvents ----------------------------
(***************************************************************************)
(* What signaling does to a client, whichever program it runs in: the      *)
(* server gives it one role, and one each of ready, offer and answer, and  *)
(* nothing else leads to a session description.  There are no packets and  *)
(* no other peer here.  SignalingHistory shows that the server and the     *)
(* clients together do no more than this; AndroidDataChannel and           *)
(* CombinedClient, which leave them out, rely on it.                       *)
(***************************************************************************)
CONSTANT Clients

VARIABLES
    connection, \* connection[c]: init_webrtc has made peer_connection_
    socket,     \* socket[c]: the connection to the server
    type_,      \* type_[c]
    told,       \* told[c]: what the server has sent c
    creating,   \* creating[c]: the descriptions under way
    local,      \* local[c]: the local description is set
    remote      \* remote[c]: the remote description is set

vars == <<connection, socket, type_, told, creating, local, remote>>
sdpVars == <<creating, local, remote>>

Init ==
    /\ connection \in [Clients -> BOOLEAN]
    /\ socket = [c \in Clients |-> "pending"]
    /\ type_ = [c \in Clients |-> "Undefined"]
    /\ told = [c \in Clients |-> {}]
    /\ creating = [c \in Clients |-> {}]
    /\ local = [c \in Clients |-> FALSE]
    /\ remote = [c \in Clients |-> FALSE]

\* init_webrtc comes before anything is received.
Starts(c) ==
    /\ socket[c] = "pending"
    /\ connection' = [connection EXCEPT ![c] = TRUE]
    /\ UNCHANGED <<socket, type_, told, sdpVars>>

\* The connection to the server opens or does not; once closed it stays closed.
Connects(c) ==
    /\ \/ socket[c] = "pending" /\ socket' = [socket EXCEPT ![c] = "open"]
       \/ socket[c] \in {"pending", "open"} /\ socket' = [socket EXCEPT ![c] = "closed"]
    /\ UNCHANGED <<connection, type_, told, sdpVars>>

\* An event comes on an open connection, and once.
Receives(c, ev) ==
    /\ socket[c] = "open"
    /\ ev \notin told[c]
    /\ told' = [told EXCEPT ![c] = @ \cup {ev}]
    /\ UNCHANGED <<connection, socket>>

Role(c) ==
    /\ Receives(c, "role")
    /\ \E t \in {"Caller", "Callee"} : type_' = [type_ EXCEPT ![c] = t]
    /\ UNCHANGED sdpVars

\* The making of a description begins; without peer_connection_ it cannot.
Creates(c, d) ==
    creating' = IF connection[c] THEN [creating EXCEPT ![c] = @ \cup {d}] ELSE creating

\* The caller, and only the caller, begins an offer.
Ready(c) ==
    /\ Receives(c, "ready")
    /\ IF type_[c] = "Caller" THEN Creates(c, "offer") ELSE UNCHANGED creating
    /\ UNCHANGED <<type_, local, remote>>

\* Only the callee takes an offer and begins an answer, unless the offer does not
\* parse.
Offer(c) ==
    /\ Receives(c, "offer")
    /\ \/ UNCHANGED <<creating, remote>>
       \/ /\ type_[c] = "Callee"
          /\ Creates(c, "answer")
          /\ remote' \in {remote, [remote EXCEPT ![c] = TRUE]}
    /\ UNCHANGED <<type_, local>>

\* Only the caller takes an answer, to the offer it has set.
Answer(c) ==
    /\ Receives(c, "answer")
    /\ \/ UNCHANGED remote
       \/ type_[c] = "Caller" /\ local[c] /\ remote' = [remote EXCEPT ![c] = TRUE]
    /\ UNCHANGED <<type_, creating, local>>

\* A description is made, and set, or that fails.  An answer is to a remote offer.
Created(c, d) ==
    /\ d \in creating[c]
    /\ creating' = [creating EXCEPT ![c] = @ \ {d}]
    /\ \/ UNCHANGED local
       \/ (d = "answer" => remote[c]) /\ local' = [local EXCEPT ![c] = TRUE]
    /\ UNCHANGED <<connection, socket, type_, told, remote>>

Next ==
    \E c \in Clients :
        \/ Starts(c) \/ Connects(c) \/ Role(c) \/ Ready(c) \/ Offer(c) \/ Answer(c)
        \/ Created(c, "offer") \/ Created(c, "answer")

Spec == Init /\ [][Next]_vars

=============================================================================
