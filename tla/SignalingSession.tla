--------------------------- MODULE SignalingSession ---------------------------
(***************************************************************************)
(* The signaling server and the peer clients together.                     *)
(***************************************************************************)
EXTENDS SignalingServer, PeerSignaling

CONSTANT Nobody
ASSUME NobodyAssumption == Nobody \notin Clients

vars == <<netVars, serverVars, peerVars>>

Init == NetInit /\ ServerInit /\ PeerInit

ServerStep(c) ==
    \/ Refuse(c) /\ UNCHANGED peerVars
    \/ Admit(c) /\ UNCHANGED peerVars
    \/ Relay(c) /\ UNCHANGED peerVars
    \/ CallReturns(c) /\ UNCHANGED peerVars

Listener(c) ==
    \/ set_as_caller(c) /\ UNCHANGED serverVars
    \/ set_as_callee(c) /\ UNCHANGED serverVars
    \/ ready(c) /\ UNCHANGED serverVars
    \/ offer(c) /\ UNCHANGED serverVars
    \/ answer(c) /\ UNCHANGED serverVars
    \/ ice(c) /\ UNCHANGED serverVars
    \/ ack(c) /\ UNCHANGED serverVars
    \/ SessionEnded(c) /\ UNCHANGED serverVars

Observer(c) ==
    \/ OnSuccess(c) /\ UNCHANGED serverVars
    \/ OnIceCandidate(c) /\ UNCHANGED serverVars

\* What no fairness is assumed of: connections, timeouts and failures.
Environment(c) ==
    \/ on_connected(c) /\ UNCHANGED serverVars
    \/ on_fail(c) /\ UNCHANGED serverVars
    \/ on_close(c) /\ UNCHANGED serverVars
    \/ OnFailure(c) /\ UNCHANGED serverVars
    \/ Disconnect(c) /\ UNCHANGED peerVars

TimeOut(p) == CallTimesOut(p) /\ UNCHANGED peerVars

Next ==
    \/ \E c \in Clients :
        ServerStep(c) \/ Listener(c) \/ Observer(c) \/ Environment(c)
    \/ \E p \in calls : TimeOut(p)

Spec == Init /\ [][Next]_vars

\* Every variable of the three parts has its type.
TypeOK == NetTypeOK /\ ServerTypeOK /\ PeerTypeOK

------------------------------------------------------------------------------
(***************************************************************************)
(* Fairness.  A green thread that can run is run, the network thread takes *)
(* the packet it has, and the signaling thread runs the observer callback  *)
(* it owes.  Nothing makes a connection open or break.                     *)
(***************************************************************************)
Fairness ==
    \A c \in Clients :
        WF_vars(ServerStep(c)) /\ WF_vars(Listener(c)) /\ WF_vars(Observer(c))

FairSpec == Spec /\ Fairness

------------------------------------------------------------------------------
(***************************************************************************)
(* Roles.  There is never more than one caller, nor more than one callee,  *)
(* and they are the first and the second client the server admitted: a     *)
(* type_ the client learnt by packet agrees with self.peers.               *)
(***************************************************************************)
Roles ==
    \A c \in Clients :
        /\ type_[c] = "Caller" => Len(peers) >= 1 /\ peers[1] = c
        /\ type_[c] = "Callee" => Len(peers) >= 2 /\ peers[2] = c

\* get_counter_sid would send what a refused client emits to peers[0].  No
\* client without a role emits or is sent a call, so that never happens: a
\* call is between the two peers, and is never relayed back to its sender.
OnlyPeersTalk ==
    /\ \A p \in calls :
        /\ IsPeer(p.to) /\ IsPeer(p.call.from)
        /\ p.to # p.call.from
    /\ \A c \in Clients : \A i \in DOMAIN up[c] :
        up[c][i].ev \in {"offer", "answer", "ice"} =>
            type_[c] # "Undefined" /\ up[c][i].call.from = c

\* The server never holds more than two peers, all different, and the flag
\* that refuses a third client is up exactly when there are two.
PeersInOrder ==
    /\ Len(peers) <= 2
    /\ flag_peer_connection <=> Len(peers) = 2
    /\ \A i, j \in DOMAIN peers : peers[i] = peers[j] => i = j

\* A client asks for a session once, before anything else it sends, and is a
\* peer only after the server took that packet.
ConnectsOnce ==
    \A c \in Clients :
        /\ link[c] = "idle" => up[c] = <<>> /\ ~IsPeer(c)
        /\ \A i \in DOMAIN up[c] : up[c][i].ev = "connect" => i = 1 /\ ~IsPeer(c)

\* A role packet under way names the place its receiver has in self.peers.
RolePackets ==
    \A c \in Clients :
        /\ Queued(down, c, "set-as-caller") => Len(peers) >= 1 /\ peers[1] = c
        /\ Queued(down, c, "set-as-callee") => Len(peers) >= 2 /\ peers[2] = c

\* Only a client with a role starts a description or has one.
RoleFirst ==
    \A c \in Clients :
        creating[c] # "none" \/ local[c] # "none" => type_[c] # "Undefined"

\* The inductive invariant behind Roles, OnlyPeersTalk and RoleIsKept.
RoleInv ==
    PeersInOrder /\ ConnectsOnce /\ RolePackets /\ Roles /\ RoleFirst /\ OnlyPeersTalk

\* Roles and the calls between the peers, whatever is lost, late or refused: the
\* only caller is the first client admitted and the only callee the second, and
\* no client that was refused is relayed to anybody.
SessionInv == TypeOK /\ RoleInv

\* The branches that log "Unexpected Offer" and "Unexpected Answer" and yet
\* acknowledge are never taken: the client that receives an offer already
\* knows it is the callee, and an answer finds the caller with its offer set.
NothingUnexpected ==
    \A c \in Clients :
        link[c] = "open" =>
            /\ HeadIs(down, c, "offer") => type_[c] = "Callee" /\ remote[c] = "none"
            /\ HeadIs(down, c, "answer") =>
                type_[c] = "Caller" /\ made[c] = "offer" /\ remote[c] = "none"

\* AddIceCandidate fails before the remote description is set.  No candidate
\* overtakes the description it belongs to, although description and candidate
\* are relayed by different green threads and nobody waits for the former.
IceAfterDescription ==
    \A c \in Clients :
        link[c] = "open" /\ HeadIs(down, c, "ice") => remote[c] # "none" \/ failed[c]

\* With a WebRTC library that reports no failure of its own, nothing a client
\* does ever fails: no candidate and no description comes before its time.
NothingFails == \A c \in Clients : ~failed[c]

\* What an ok tells its sender, whatever was lost, late or relayed beside it.  An
\* ok for a description: another client was given that very description, and has
\* set it unless that very SetRemoteDescription failed, which the handlers
\* acknowledge too.  An ok for a candidate: another client took the candidate of
\* that number.
AcceptedMeansHandled ==
    \A c \in Clients : \A k \in sentOk[c] :
        \E d \in Clients \ {c} :
            /\ k.ev \in {"offer", "answer"} => k.ev \in {remote[d], unset[d]}
            /\ k.ev = "ice" => k.n \in added[d]

\* The exchange the peers see is the one Rendezvous describes.
Pair == INSTANCE Rendezvous WITH
    caller <- IF Len(peers) >= 1 THEN peers[1] ELSE Nobody,
    callee <- IF Len(peers) >= 2 THEN peers[2] ELSE Nobody

\* Implementation: every behaviour of the server and its clients, seen through
\* this mapping, is one of Rendezvous.
PairSpec == Pair!Spec

\* OnSuccess reads type_ on another thread than the one that writes it, with no
\* lock: harmless because a client that has its role keeps it.
RoleIsKept ==
    [][\A c \in Clients : type_[c] # "Undefined" => type_'[c] = type_[c]]_vars

\* The two peers, and where the exchange between a caller a and a callee b is:
\* ready, the offer or the answer under way, or a description being made.
First(c) == Len(peers) >= 1 /\ peers[1] = c
Second(c) == Len(peers) >= 2 /\ peers[2] = c

Stages == 1 .. 7

At(a, b, s) ==
    \/ s = 1 /\ Queued(down, a, "ready")
    \/ s = 2 /\ creating[a] = "offer"
    \/ s = 3 /\ Queued(up, a, "offer")
    \/ s = 4 /\ Queued(down, b, "offer")
    \/ s = 5 /\ creating[b] = "answer"
    \/ s = 6 /\ Queued(up, b, "answer")
    \/ s = 7 /\ Queued(down, a, "answer")

\* Two admitted peers that stay connected complete the exchange.
Together ==
    /\ Len(peers) = 2
    /\ \A i \in 1 .. 2 : peers[i] \in online /\ link[peers[i]] = "open"

Exchanged ==
    /\ Len(peers) = 2
    /\ \A i \in 1 .. 2 : local[peers[i]] # "none" /\ remote[peers[i]] # "none"
    /\ \A i \in 1 .. 2 : added[peers[i]] = 1 .. MaxIce

ExchangeCompletes == Together ~> (Exchanged \/ ~Together)

\* Nothing the server or the clients do loses the exchange of two peers that stay
\* connected: it is complete, or in one of its places with what the next step
\* needs, unless the library has failed.
ExchangeNeverLost ==
    \A a, b \in Clients :
        Together /\ First(a) /\ Second(b) /\ ~failed[a] /\ ~failed[b] =>
            /\ remote[a] = "answer" \/ \E s \in Stages : At(a, b, s)
            /\ creating[b] = "answer" => remote[b] = "offer"
            /\ Queued(down, a, "answer") => local[a] = "offer"

\* The candidates in a queue, by their numbers.
IceIn(q, c) == {q[c][i].call.n : i \in {j \in DOMAIN q[c] : q[c][j].ev = "ice"}}

Others(d, o) == (First(d) /\ Second(o)) \/ (First(o) /\ Second(d))

\* A client is given the candidates of its peer after the description they belong
\* to, in the order they were gathered and each once, although each is relayed by
\* a green thread of its own.
CandidatesInOrder ==
    \A c \in Clients :
        link[c] = "open" /\ HeadIs(down, c, "ice") /\ ~failed[c] =>
            remote[c] # "none" /\ added[c] = 1 .. (Head(down[c]).call.n - 1)

\* While the peers stay connected, a candidate that was gathered and not yet given
\* to the other peer is on its way.
NoCandidateLost ==
    \A d, o \in Clients :
        Together /\ Others(d, o) /\ ~failed[o] =>
            IceIn(up, d) \cup IceIn(down, o) = (1 .. gathered[d]) \ added[o]

\* The log of a refusal says "Peer connection already established": a client
\* is refused only while both peers are there.
RefusedOnlyWhilePaired ==
    [][\A c \in Clients :
        Refuse(c) => \A i \in DOMAIN peers : peers[i] \in online]_vars

=============================================================================
