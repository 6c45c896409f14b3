---------------------------- MODULE PeerSignaling ----------------------------
(***************************************************************************)
(* The signaling half of a peer client: PeerClient (peer_client.hpp) and   *)
(* the session handlers of PeerDataChannelClient                           *)
(* (peer_datachannel_client.cpp), which the audio, video and combined      *)
(* clients repeat.                                                         *)
(*                                                                         *)
(* The socket.io listeners and acks of a client run one after another on   *)
(* its network thread.  OnSuccess, OnFailure and OnIceCandidate run on the *)
(* signaling thread of the WebRTC library.  A listener calls into the peer *)
(* connection through a proxy that waits for the signaling thread, so a    *)
(* listener is one action; what CreateOffer and CreateAnswer lead to comes *)
(* later, as an action of its own.                                         *)
(***************************************************************************)
EXTENDS SignalingNet

VARIABLES
    type_,    \* type_[c]
    creating, \* creating[c]: the description CreateOffer/CreateAnswer is making
    local,    \* local[c]: local description of peer_connection_
    made,     \* made[c]: the description OnSuccess was given and emitted
    remote,   \* remote[c]: remote description of peer_connection_
    gathered, \* gathered[c]: number of candidates OnIceCandidate was given
    added,    \* added[c]: the remote candidates AddIceCandidate took, by number
    sentOk,   \* sentOk[c]: the calls of c that were acknowledged with ok
    failed,   \* failed[c]: a WebRTC call of c reported a failure
    unset     \* unset[c]: a remote description that could not be set, and yet was
              \* acknowledged with ok

peerVars ==
    <<type_, creating, local, made, remote, gathered, added, sentOk, failed,
      unset>>

PeerType == {"Undefined", "Caller", "Callee"}
Description == {"none", "offer", "answer"}

PeerTypeOK ==
    /\ type_ \in [Clients -> PeerType]
    /\ creating \in [Clients -> Description]
    /\ local \in [Clients -> Description]
    /\ made \in [Clients -> Description]
    /\ remote \in [Clients -> Description]
    /\ gathered \in [Clients -> 0 .. MaxIce]
    /\ added \in [Clients -> SUBSET (0 .. MaxIce)]
    /\ sentOk \in [Clients -> SUBSET Call]
    /\ failed \in [Clients -> BOOLEAN]
    /\ unset \in [Clients -> Description]

PeerInit ==
    /\ type_ = [c \in Clients |-> "Undefined"]
    /\ creating = [c \in Clients |-> "none"]
    /\ local = [c \in Clients |-> "none"]
    /\ made = [c \in Clients |-> "none"]
    /\ remote = [c \in Clients |-> "none"]
    /\ gathered = [c \in Clients |-> 0]
    /\ added = [c \in Clients |-> {}]
    /\ sentOk = [c \in Clients |-> {}]
    /\ failed = [c \in Clients |-> FALSE]
    /\ unset = [c \in Clients |-> "none"]

\* connected_: on_connected sets it, on_close clears it.
is_connected(c) == link[c] \in {"open", "detached"}

------------------------------------------------------------------------------
\* socket()->emit: the packet is lost when the socket is gone.
emit(c, p) == up' = IF link[c] = "open" THEN Put(up, {c}, p) ELSE up

\* connect() reached the server: the socket asks for its session and the
\* open listener on_connected sets connected_.
on_connected(c) ==
    /\ link[c] = "idle"
    /\ link' = [link EXCEPT ![c] = "open"]
    /\ up' = Put(up, {c}, Notice("connect"))
    /\ UNCHANGED <<down, online, peerVars>>

\* The connection could not be opened: connected_ stays false.
on_fail(c) ==
    /\ link[c] = "idle"
    /\ link' = [link EXCEPT ![c] = "closed"]
    /\ UNCHANGED <<up, down, online, peerVars>>

\* The transport is gone; what it had not delivered to c is lost.
on_close(c) ==
    /\ is_connected(c)
    /\ link' = [link EXCEPT ![c] = "closed"]
    /\ down' = [down EXCEPT ![c] = <<>>]
    /\ UNCHANGED <<up, online, peerVars>>

\* The network thread of c takes an ev packet.
Receives(c, ev) ==
    /\ link[c] = "open"
    /\ HeadIs(down, c, ev)
    /\ down' = Take(down, c)
    /\ UNCHANGED online

\* The server ended the session of c.  Whether the library then closes the
\* transport, and so calls on_close, is not decided by the clients' code.
SessionEnded(c) ==
    /\ Receives(c, "disconnect")
    /\ \E l \in {"detached", "closed"} : link' = [link EXCEPT ![c] = l]
    /\ UNCHANGED <<up, peerVars>>

\* The first of two peers is the caller.
set_as_caller(c) ==
    /\ Receives(c, "set-as-caller")
    /\ type_' = [type_ EXCEPT ![c] = "Caller"]
    /\ UNCHANGED <<link, up, creating, local, made, remote, gathered, added, sentOk,
                   failed, unset>>

\* The second is the callee.
set_as_callee(c) ==
    /\ Receives(c, "set-as-callee")
    /\ type_' = [type_ EXCEPT ![c] = "Callee"]
    /\ UNCHANGED <<link, up, creating, local, made, remote, gathered, added, sentOk,
                   failed, unset>>

\* Mutant: no test of type_.
ReadyForAll(c) ==
    /\ Receives(c, "ready")
    /\ creating' = [creating EXCEPT ![c] = "offer"]
    /\ UNCHANGED <<link, up, type_, local, made, remote, gathered, added, sentOk, failed,
                   unset>>
\* CreateOffer reports to OnSuccess or OnFailure; create_offer returns true.
create_offer(c) == creating' = [creating EXCEPT ![c] = "offer"]

\* "ready": the caller starts an offer.
ready(c) ==
    /\ Receives(c, "ready")
    /\ IF type_[c] = "Caller" THEN create_offer(c) ELSE UNCHANGED creating
    /\ UNCHANGED <<link, up, type_, local, made, remote, gathered, added, sentOk, failed,
                   unset>>

------------------------------------------------------------------------------
(***************************************************************************)
(* "offer" and "answer".  A description that does not parse is refused     *)
(* with ok = false.  SetRemoteDescription reports to an observer that only *)
(* logs, so the handler acknowledges ok = true whatever came of it, and    *)
(* also when the client's type says the description was not for it.        *)
(***************************************************************************)
ParseFails(c) ==
    /\ WebRtcFails
    /\ emit(c, Ack(Head(down[c]).call, FALSE))
    /\ failed' = [failed EXCEPT ![c] = TRUE]
    /\ UNCHANGED <<creating, remote, unset>>

SetRemoteFails(c) ==
    /\ WebRtcFails \/ (type_[c] = "Caller" /\ local[c] # "offer")
    /\ emit(c, Ack(Head(down[c]).call, TRUE))
    /\ failed' = [failed EXCEPT ![c] = TRUE]
    /\ unset' = [unset EXCEPT ![c] = Head(down[c]).ev]
    /\ UNCHANGED remote

Unexpected(c) ==
    /\ emit(c, Ack(Head(down[c]).call, TRUE))
    /\ UNCHANGED <<creating, remote, failed, unset>>

\* CreateAnswer is called on a description that was set or failed to be set.
receive_offer_create_answer(c) ==
    \/ ParseFails(c)
    \/ /\ SetRemoteFails(c)
       /\ creating' = [creating EXCEPT ![c] = "answer"]
    \/ /\ emit(c, Ack(Head(down[c]).call, TRUE))
       /\ remote' = [remote EXCEPT ![c] = "offer"]
       /\ creating' = [creating EXCEPT ![c] = "answer"]
       /\ UNCHANGED <<failed, unset>>

offer(c) ==
    /\ Receives(c, "offer")
    /\ IF type_[c] = "Callee" THEN receive_offer_create_answer(c) ELSE Unexpected(c)
    /\ UNCHANGED <<link, type_, local, made, gathered, added, sentOk>>

\* The library takes an answer only after a local offer.
receive_answer(c) ==
    \/ ParseFails(c)
    \/ /\ SetRemoteFails(c)
       /\ UNCHANGED creating
    \/ /\ local[c] = "offer"
       /\ emit(c, Ack(Head(down[c]).call, TRUE))
       /\ remote' = [remote EXCEPT ![c] = "answer"]
       /\ UNCHANGED <<creating, failed, unset>>

answer(c) ==
    /\ Receives(c, "answer")
    /\ IF type_[c] = "Caller" THEN receive_answer(c) ELSE Unexpected(c)
    /\ UNCHANGED <<link, type_, local, made, gathered, added, sentOk>>

\* The library refuses a candidate before the remote description.
add_ice_candidate(c) ==
    \/ /\ remote[c] # "none"
       /\ emit(c, Ack(Head(down[c]).call, TRUE))
       /\ added' = [added EXCEPT ![c] = @ \cup {Head(down[c]).call.n}]
       /\ UNCHANGED failed
    \/ /\ remote[c] = "none" \/ WebRtcFails
       /\ emit(c, Ack(Head(down[c]).call, FALSE))
       /\ failed' = [failed EXCEPT ![c] = TRUE]
       /\ UNCHANGED added

ice(c) ==
    /\ Receives(c, "ice")
    /\ add_ice_candidate(c)
    /\ UNCHANGED <<link, type_, creating, local, made, remote, gathered, sentOk, unset>>

\* The ack callbacks of emit only log; sentOk keeps what they logged as sent.
ack(c) ==
    /\ Receives(c, "ack")
    /\ LET a == Head(down[c])
       IN  sentOk' = IF a.ok THEN [sentOk EXCEPT ![c] = @ \cup {a.call}] ELSE sentOk
    /\ UNCHANGED <<link, up, type_, creating, local, made, remote, gathered, added, failed,
                   unset>>

------------------------------------------------------------------------------
\* Mutant: a callee's answer emitted as an offer.
AlwaysOffer(c) == "offer"
\* The event a description is emitted under.
SdpEvent(c) == IF type_[c] = "Caller" THEN "offer" ELSE "answer"

\* Mutant: sets the local description and emits it later, in a task of its own.
EmitLater(c) ==
    \/ /\ creating[c] = "offer" \/ (creating[c] = "answer" /\ remote[c] = "offer")
       /\ local[c] = "none"
       /\ local' = [local EXCEPT ![c] = creating[c]]
       /\ UNCHANGED <<netVars, type_, creating, made, remote, gathered, added, sentOk,
                      failed, unset>>
    \/ /\ creating[c] # "none" /\ local[c] = creating[c]
       /\ creating' = [creating EXCEPT ![c] = "none"]
       /\ made' = [made EXCEPT ![c] = creating[c]]
       /\ emit(c, Emit(Sdp(SdpEvent(c), c)))
       /\ UNCHANGED <<link, down, online, type_, local, remote, gathered, added, sentOk,
                      failed, unset>>
\* OnSuccess sets the local description, to an observer that only logs, and
\* emits it under the name the client's type calls for.
OnSuccess(c) ==
    /\ creating[c] = "offer" \/ (creating[c] = "answer" /\ remote[c] = "offer")
    /\ creating' = [creating EXCEPT ![c] = "none"]
    /\ made' = [made EXCEPT ![c] = creating[c]]
    /\ \/ /\ local' = [local EXCEPT ![c] = creating[c]]
          /\ UNCHANGED failed
       \/ /\ WebRtcFails
          /\ failed' = [failed EXCEPT ![c] = TRUE]
          /\ UNCHANGED local
    /\ emit(c, Emit(Sdp(SdpEvent(c), c)))
    /\ UNCHANGED <<link, down, online, type_, remote, gathered, added, sentOk, unset>>

\* OnFailure logs, and the session stays as it is.
OnFailure(c) ==
    /\ WebRtcFails
    /\ creating[c] # "none"
    /\ creating' = [creating EXCEPT ![c] = "none"]
    /\ failed' = [failed EXCEPT ![c] = TRUE]
    /\ UNCHANGED <<netVars, type_, local, made, remote, gathered, added, sentOk, unset>>

\* Candidates are gathered once the local description is set.
MayGather(c) == local[c] # "none"

OnIceCandidate(c) ==
    /\ MayGather(c)
    /\ gathered[c] < MaxIce
    /\ gathered' = [gathered EXCEPT ![c] = @ + 1]
    /\ emit(c, Emit(Ice(c, gathered[c] + 1)))
    /\ UNCHANGED <<link, down, online, type_, creating, local, made, remote, added, sentOk,
                   failed, unset>>

=============================================================================
