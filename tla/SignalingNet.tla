---------------------------- MODULE SignalingNet ----------------------------
(***************************************************************************)
(* The socket.io connections between the signaling server                  *)
(* (python3/signaling_server.py) and the peer clients                      *)
(* (cpp/peer_clients): the packets they carry and the state of each        *)
(* connection as its two ends see it.                                      *)
(*                                                                         *)
(* A member of Clients is one run of a client program.  init_signaling     *)
(* sets the reconnect attempts to 0, so a run connects at most once and    *)
(* has one session id (sid): the client stands for its sid too.            *)
(*                                                                         *)
(* A WebSocket is FIFO in each direction.  A connection may be lost at any *)
(* time; each end notices on its own.                                      *)
(***************************************************************************)
EXTENDS Naturals, Sequences

CONSTANTS
    Clients,    \* runs of a client program
    MaxIce,     \* bound: ICE candidates that one client gathers
    WebRtcFails \* whether a WebRTC call may report a failure

ASSUME SignalingAssumption ==
    /\ MaxIce \in Nat
    /\ WebRtcFails \in BOOLEAN

VARIABLES
    link,   \* link[c]: the transport of sio_client_ as client c sees it
    up,     \* up[c]: packets of c the server has not handled, oldest first
    down,   \* down[c]: packets to c its network thread has not handled
    online  \* the sids the server's socketio manager holds connected

netVars == <<link, up, down, online>>

(***************************************************************************)
(* Packets.  A notice carries no data.  A call is what one client emits    *)
(* for the other, "offer", "answer" or "ice"; n numbers the candidates.    *)
(* An ack answers a call with the "ok" flag of the ack_resp object.        *)
(***************************************************************************)
Call == [ev : {"offer", "answer", "ice"}, from : Clients, n : 0 .. MaxIce]

Sdp(ev, c) == [ev |-> ev, from |-> c, n |-> 0]
Ice(c, n) == [ev |-> "ice", from |-> c, n |-> n]

Notice(ev) == [ev |-> ev]
Emit(k) == [ev |-> k.ev, call |-> k]
Ack(k, ok) == [ev |-> "ack", call |-> k, ok |-> ok]

CallPacket == {Emit(k) : k \in Call}
AckPacket == {Ack(k, ok) : k \in Call, ok \in BOOLEAN}

ToServer == {Notice("connect")} \cup CallPacket \cup AckPacket

ToClient ==
    {Notice(ev) : ev \in {"set-as-caller", "set-as-callee", "ready", "disconnect"}}
        \cup CallPacket \cup AckPacket

LinkState == {"idle", "open", "detached", "closed"}

NetTypeOK ==
    /\ link \in [Clients -> LinkState]
    /\ up \in [Clients -> Seq(ToServer)]
    /\ down \in [Clients -> Seq(ToClient)]
    /\ online \in SUBSET Clients

NetInit ==
    /\ link = [c \in Clients |-> "idle"]
    /\ up = [c \in Clients |-> <<>>]
    /\ down = [c \in Clients |-> <<>>]
    /\ online = {}

\* q after packet p is put at the end of the queue of every client in S.
Put(q, S, p) == [c \in Clients |-> IF c \in S THEN Append(q[c], p) ELSE q[c]]

\* q after the oldest packet of c is taken.
Take(q, c) == [q EXCEPT ![c] = Tail(@)]

\* The oldest packet in q[c] is an ev.
HeadIs(q, c, ev) == q[c] # <<>> /\ Head(q[c]).ev = ev

\* Some packet in q[c] is an ev.
Queued(q, c, ev) == \E i \in DOMAIN q[c] : q[c][i].ev = ev

=============================================================================
