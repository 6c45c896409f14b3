--------------------------- MODULE SignalingServer ---------------------------
(***************************************************************************)
(* python3/signaling_server.py: the server that pairs two peers and relays *)
(* what each emits to the other.                                           *)
(*                                                                         *)
(* Every handler runs in its own green thread and gives way only inside    *)
(* sio.call, so a handler is one action up to that call and one action     *)
(* after it.  sio.call emits to the counter peer and blocks until that     *)
(* peer acknowledges or the library's timeout raises TimeoutError, which   *)
(* ends the handler without an answer to the sender.                       *)
(***************************************************************************)
EXTENDS SignalingNet, FiniteSets

VARIABLES
    peers,                \* self.peers: the sids in order of arrival
    flag_peer_connection, \* self.flag_peer_connection
    calls                 \* the sio.call the handlers are blocked in

serverVars == <<peers, flag_peer_connection, calls>>

PendingCall == [call : Call, to : Clients]

ServerTypeOK ==
    /\ peers \in Seq(Clients)
    /\ flag_peer_connection \in BOOLEAN
    /\ calls \in SUBSET PendingCall

ServerInit ==
    /\ peers = <<>>
    /\ flag_peer_connection = FALSE
    /\ calls = {}

IsPeer(c) == \E i \in DOMAIN peers : peers[i] = c

------------------------------------------------------------------------------
(***************************************************************************)
(* connect: refuse a client once two peers have been paired; otherwise     *)
(* append it, name it caller or callee by its place in the list, and tell  *)
(* the room "ready" when the second arrives.  The room holds the peers     *)
(* still connected: the library drops a sid from its rooms when it leaves. *)
(***************************************************************************)
Refuse(c) ==
    /\ HeadIs(up, c, "connect")
    /\ flag_peer_connection
    /\ up' = Take(up, c)
    /\ down' = Put(down, {c}, Notice("disconnect"))
    /\ UNCHANGED <<link, online, serverVars>>

\* len(self.peers) once the newcomer is appended.
Place == Len(peers) + 1

\* Mutant: set-as-callee goes to the room, as ready does.
AnnounceToRoom(c, n, room) ==
    CASE n = 1 -> Put(down, {c}, Notice("set-as-caller"))
      [] n = 2 -> Put(Put(down, room, Notice("set-as-callee")), room, Notice("ready"))
      [] OTHER -> down
\* Mutant: ready goes to the newcomer only.
AnnounceToNewcomer(c, n, room) ==
    CASE n = 1 -> Put(down, {c}, Notice("set-as-caller"))
      [] n = 2 -> Put(Put(down, {c}, Notice("set-as-callee")), {c}, Notice("ready"))
      [] OTHER -> down
\* What the server emits when c takes the n-th place.
Announce(c, n, room) ==
    CASE n = 1 -> Put(down, {c}, Notice("set-as-caller"))
      [] n = 2 -> Put(Put(down, {c}, Notice("set-as-callee")), room, Notice("ready"))
      [] OTHER -> down

\* Mutant: no test of flag_peer_connection.
AdmitAlways(c) ==
    /\ HeadIs(up, c, "connect")
    /\ up' = Take(up, c)
    /\ peers' = Append(peers, c)
    /\ online' = online \cup {c}
    /\ flag_peer_connection' = (Place >= 2)
    /\ down' = Announce(c, Place, {d \in online : IsPeer(d)} \cup {c})
    /\ UNCHANGED <<link, calls>>
\* A client that is not refused.
Admit(c) ==
    /\ HeadIs(up, c, "connect")
    /\ ~flag_peer_connection
    /\ up' = Take(up, c)
    /\ peers' = Append(peers, c)
    /\ online' = online \cup {c}
    /\ flag_peer_connection' = (Place = 2)
    /\ down' = Announce(c, Place, {d \in online : IsPeer(d)} \cup {c})
    /\ UNCHANGED <<link, calls>>

\* Mutant: the loop does not skip the peer's own sid.
AnyIndexes(c) == DOMAIN peers
\* get_counter_sid: the first peer in the list with another sid.
CounterIndexes(c) == {i \in DOMAIN peers : peers[i] # c}
Counter(c) ==
    peers[CHOOSE i \in CounterIndexes(c) : \A j \in CounterIndexes(c) : i <= j]

\* Mutant: a relay that acknowledges for the counter peer instead of waiting for it.
RelayWithoutWaiting(c) ==
    /\ c \in online
    /\ up[c] # <<>>
    /\ Head(up[c]) \in CallPacket
    /\ up' = Take(up, c)
    /\ CounterIndexes(c) # {}
    /\ LET k == Head(up[c]).call
       IN  down' = Put(Put(down, {Counter(c)} \cap online, Emit(k)), {c}, Ack(k, TRUE))
    /\ UNCHANGED <<link, online, serverVars>>

\* Mutant: a call's green thread may start before that of an earlier call.
RelayAnyOrder(c) ==
    /\ c \in online
    /\ CounterIndexes(c) # {}
    /\ \E i \in DOMAIN up[c] :
        /\ up[c][i] \in CallPacket
        /\ up' = [up EXCEPT ![c] = SubSeq(@, 1, i - 1) \o SubSeq(@, i + 1, Len(@))]
        /\ down' = Put(down, {Counter(c)} \cap online, up[c][i])
        /\ calls' = calls \cup {[call |-> up[c][i].call, to |-> Counter(c)]}
    /\ UNCHANGED <<link, online, peers, flag_peer_connection>>
\* Mutant: a call is dropped while another of its sender is under way.
RelayUnlessBusy(c) ==
    /\ c \in online
    /\ up[c] # <<>>
    /\ Head(up[c]) \in CallPacket
    /\ up' = Take(up, c)
    /\ LET k == Head(up[c]).call
       IN  IF CounterIndexes(c) = {} \/ \E p \in calls : p.call.from = c
           THEN UNCHANGED <<down, calls>>
           ELSE /\ down' = Put(down, {Counter(c)} \cap online, Emit(k))
                /\ calls' = calls \cup {[call |-> k, to |-> Counter(c)]}
    /\ UNCHANGED <<link, online, peers, flag_peer_connection>>
\* on_ice, on_sdp: relay the call and block for the counter peer's answer.
\* With no other peer get_counter_sid raises ValueError and the handler dies.
Relay(c) ==
    /\ c \in online
    /\ up[c] # <<>>
    /\ Head(up[c]) \in CallPacket
    /\ up' = Take(up, c)
    /\ IF CounterIndexes(c) = {}
       THEN UNCHANGED <<down, calls>>
       ELSE LET k == Head(up[c]).call
            IN  /\ down' = Put(down, {Counter(c)} \cap online, Emit(k))
                /\ calls' = calls \cup {[call |-> k, to |-> Counter(c)]}
    /\ UNCHANGED <<link, online, peers, flag_peer_connection>>

\* The counter peer answered: sio.call returns ret, and the handler returns
\* it to the sender.  An answer nobody waits for is dropped by the library.
CallReturns(c) ==
    /\ c \in online
    /\ HeadIs(up, c, "ack")
    /\ up' = Take(up, c)
    /\ LET a == Head(up[c])
           waiting == [call |-> a.call, to |-> c]
       IN  IF waiting \in calls
           THEN /\ calls' = calls \ {waiting}
                /\ down' = Put(down, {a.call.from} \cap online, a)
           ELSE UNCHANGED <<calls, down>>
    /\ UNCHANGED <<link, online, peers, flag_peer_connection>>

\* sio.call raises TimeoutError; no handler catches it.
CallTimesOut(p) ==
    /\ p \in calls
    /\ calls' = calls \ {p}
    /\ UNCHANGED <<netVars, peers, flag_peer_connection>>

\* disconnect: the handler only logs; the library forgets the sid.
Disconnect(c) ==
    /\ c \in online
    /\ online' = online \ {c}
    /\ up' = [up EXCEPT ![c] = <<>>]
    /\ UNCHANGED <<link, down, serverVars>>

=============================================================================
