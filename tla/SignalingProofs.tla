--------------------------- MODULE SignalingProofs ---------------------------
(***************************************************************************)
(* Theorems about SignalingSession, for every set of clients and every     *)
(* bound on the candidates.  Each invariant rests on those before it:      *)
(*   TypeOK,                                                               *)
(*   RoleInv  - the roles of the clients and the server's list,            *)
(*   SdpInv   - the exchange of descriptions is at one place at a time,    *)
(*   AcksInv  - an ok, wherever it is, stands for a call that was handled, *)
(*   IceInv   - a description stays ahead of its sender's candidates,      *)
(*   LostInv  - what two peers that stay connected exchange is under way,  *)
(*   CandInv  - candidates are in order and without a gap on their way;    *)
(* SdpInv is what the refinement of Rendezvous needs, and with HistoryInv, *)
(* what each client was told so far, that of ClientEvents.                 *)
(***************************************************************************)
EXTENDS SignalingHistory, WellFoundedInduction, TLAPS

------------------------------------------------------------------------------
(* Queues *)

\* Putting a packet at the end of some queues of q keeps q a family of queues.
LEMMA PutType ==
    ASSUME NEW P, NEW q \in [Clients -> Seq(P)], NEW S, NEW p \in P
    PROVE  Put(q, S, p) \in [Clients -> Seq(P)]
<1>1. \A c \in Clients : Append(q[c], p) \in Seq(P)
  OBVIOUS
<1> QED BY <1>1 DEF Put

\* Taking the oldest packet of a queue that has one keeps q a family of queues.
LEMMA TakeType ==
    ASSUME NEW P, NEW q \in [Clients -> Seq(P)], NEW c \in Clients, q[c] # <<>>
    PROVE  Take(q, c) \in [Clients -> Seq(P)] /\ Head(q[c]) \in P
<1>1. Tail(q[c]) \in Seq(P) /\ Head(q[c]) \in P
  OBVIOUS
<1> QED BY <1>1 DEF Take

\* A call that heads a queue is a call; so is the one an ack answers.
LEMMA HeadCall ==
    ASSUME NEW p \in ToServer \cup ToClient, p.ev \in {"offer", "answer", "ice"}
    PROVE  p.call \in Call /\ p = Emit(p.call)
<1>1. PICK k \in Call : p = Emit(k)
  BY DEF ToServer, ToClient, CallPacket, AckPacket, Notice, Ack, Emit
<1> QED BY <1>1 DEF Emit

LEMMA HeadAck ==
    ASSUME NEW p \in ToServer \cup ToClient, p.ev = "ack"
    PROVE  /\ p.call \in Call /\ p.ok \in BOOLEAN
           /\ p = Ack(p.call, p.ok)
<1>1. p \in AckPacket
  BY DEF ToServer, ToClient, CallPacket, Notice, Emit, Call
<1>2. PICK k \in Call, ok \in BOOLEAN : p = Ack(k, ok)
  BY <1>1 DEF AckPacket
<1> QED BY <1>2 DEF Ack

------------------------------------------------------------------------------
(* Types *)

\* emit keeps the queues to the server well-typed, whether or not the packet
\* is lost.
LEMMA EmitType ==
    ASSUME NetTypeOK, NEW c \in Clients, NEW p \in ToServer, emit(c, p)
    PROVE  up' \in [Clients -> Seq(ToServer)]
BY PutType DEF emit, NetTypeOK

\* A packet a client or the server makes up is a packet.
LEMMA PacketType ==
    /\ \A c \in Clients, ev \in {"offer", "answer"} : Sdp(ev, c) \in Call
    /\ \A c \in Clients, n \in 0 .. MaxIce : Ice(c, n) \in Call
    /\ \A k \in Call : Emit(k) \in ToServer /\ Emit(k) \in ToClient
    /\ \A k \in Call, ok \in BOOLEAN : Ack(k, ok) \in ToServer /\ Ack(k, ok) \in ToClient
    /\ Notice("connect") \in ToServer
    /\ \A ev \in {"set-as-caller", "set-as-callee", "ready", "disconnect"} :
        Notice(ev) \in ToClient
BY SignalingAssumption
   DEF Sdp, Ice, Call, ToServer, ToClient, CallPacket, AckPacket

\* get_counter_sid, when it returns, returns a peer with another sid.
LEMMA CounterIsOther ==
    ASSUME ServerTypeOK, NEW c \in Clients, CounterIndexes(c) # {}
    PROVE  Counter(c) \in Clients /\ IsPeer(Counter(c)) /\ Counter(c) # c
<1> DEFINE I == CounterIndexes(c)
<1>1. I \subseteq Nat
  BY DEF CounterIndexes, ServerTypeOK
<1>2. \E i \in I : \A j \in I : i <= j
  <2> DEFINE Less == {ss \in Nat \X Nat : ss[1] < ss[2]}
  <2>3. IsWellFoundedOn(Less, Nat)
    BY NatLessThanWellFounded, Zenon DEF OpToRel
  <2> HIDE DEF I
  <2>4. I # {}
    BY DEF I
  <2>1. PICK m \in I : \A j \in I : <<j, m>> \notin Less
    BY <1>1, <2>3, <2>4, WFMin, Zenon
  <2>2. ASSUME NEW j \in I PROVE m <= j
    <3>1. m \in Nat /\ j \in Nat
      BY <1>1
    <3>2. j < m => <<j, m>> \in Less
      BY <3>1
    <3> QED BY <2>1, <3>1, <3>2
  <2> QED BY <2>2
<1>3. PICK i \in I : Counter(c) = peers[i]
  BY <1>2 DEF Counter
<1> QED BY <1>3 DEF CounterIndexes, ServerTypeOK, IsPeer

LEMMA ServerTypes ==
    ASSUME TypeOK, NEW c \in Clients, ServerStep(c)
    PROVE  TypeOK'
<1> USE DEF TypeOK, NetTypeOK, ServerTypeOK
<1>1. UNCHANGED peerVars => PeerTypeOK'
  BY DEF PeerTypeOK, peerVars
<1>2. CASE Refuse(c) /\ UNCHANGED peerVars
  BY <1>1, <1>2, PutType, TakeType, PacketType DEF Refuse, HeadIs, serverVars
<1>3. CASE Admit(c) /\ UNCHANGED peerVars
  <2>1. up' \in [Clients -> Seq(ToServer)]
    BY <1>3, TakeType DEF Admit, HeadIs
  <2>2. \A n, room : Announce(c, n, room) \in [Clients -> Seq(ToClient)]
    <3> DEFINE callee == Put(down, {c}, Notice("set-as-callee"))
    <3>1. callee \in [Clients -> Seq(ToClient)]
      BY PutType, PacketType
    <3>2. Put(down, {c}, Notice("set-as-caller")) \in [Clients -> Seq(ToClient)]
      BY PutType, PacketType
    <3>3. \A room : Put(callee, room, Notice("ready")) \in [Clients -> Seq(ToClient)]
      BY <3>1, PutType, PacketType
    <3> QED BY <3>2, <3>3 DEF Announce
  <2> QED BY <1>1, <1>3, <2>1, <2>2 DEF Admit
<1>4. CASE Relay(c) /\ UNCHANGED peerVars
  <2>1. up' \in [Clients -> Seq(ToServer)]
    BY <1>4, TakeType DEF Relay
  <2>2. CASE CounterIndexes(c) = {}
    BY <1>1, <1>4, <2>1, <2>2 DEF Relay
  <2>3. CASE CounterIndexes(c) # {}
    <3> DEFINE k == Head(up[c]).call
    <3>1. k \in Call
      BY <1>4 DEF Relay, CallPacket, Emit
    <3>2. Counter(c) \in Clients
      BY <2>3, CounterIsOther
    <3>3. down' \in [Clients -> Seq(ToClient)]
      <4>1. \A S : Put(down, S, Emit(k)) \in [Clients -> Seq(ToClient)]
        BY <3>1, PutType, PacketType
      <4> QED BY <1>4, <2>3, <4>1 DEF Relay
    <3>4. calls' \in SUBSET PendingCall
      BY <1>4, <2>3, <3>1, <3>2 DEF Relay, PendingCall
    <3> QED BY <1>1, <1>4, <2>1, <3>3, <3>4 DEF Relay
  <2> QED BY <2>2, <2>3
<1>5. CASE CallReturns(c) /\ UNCHANGED peerVars
  <2> DEFINE a == Head(up[c])
  <2>1. up' \in [Clients -> Seq(ToServer)] /\ a \in ToServer
    BY <1>5, TakeType DEF CallReturns, HeadIs
  <2>2. a \in ToClient
    BY <1>5, <2>1, HeadAck DEF CallReturns, HeadIs, ToClient, AckPacket
  <2>3. down' \in [Clients -> Seq(ToClient)]
    <3>1. \A S : Put(down, S, a) \in [Clients -> Seq(ToClient)]
      BY <2>2, PutType
    <3> QED BY <1>5, <3>1 DEF CallReturns
  <2>4. calls' \in SUBSET PendingCall
    BY <1>5 DEF CallReturns
  <2> QED BY <1>1, <1>5, <2>1, <2>3, <2>4 DEF CallReturns
<1> QED BY <1>2, <1>3, <1>4, <1>5 DEF ServerStep

LEMMA ListenerTypes ==
    ASSUME TypeOK, NEW c \in Clients, Listener(c)
    PROVE  TypeOK'
<1> DEFINE p == Head(down[c])
<1>1. link[c] = "open" /\ down[c] # <<>> /\ down' = Take(down, c) /\ UNCHANGED online
  BY DEF Listener, Receives, HeadIs, set_as_caller, set_as_callee, ready,
         offer, answer, ice, ack, SessionEnded
<1>2. down' \in [Clients -> Seq(ToClient)] /\ p \in ToClient
  BY <1>1, TakeType DEF TypeOK, NetTypeOK
<1>3. UNCHANGED serverVars => ServerTypeOK'
  BY DEF TypeOK, ServerTypeOK, serverVars, PendingCall
<1>4. ASSUME NEW k \in Call, NEW ok \in BOOLEAN, emit(c, Ack(k, ok))
      PROVE  up' \in [Clients -> Seq(ToServer)]
  BY <1>4, EmitType, PacketType DEF TypeOK
<1>5. p.ev \in {"offer", "answer", "ice"} => p.call \in Call
  BY <1>2, HeadCall
<1> USE <1>1, <1>2, <1>3 DEF TypeOK, NetTypeOK, PeerTypeOK, Receives
<1>6. CASE set_as_caller(c) /\ UNCHANGED serverVars
  BY <1>6 DEF set_as_caller, PeerType
<1>7. CASE set_as_callee(c) /\ UNCHANGED serverVars
  BY <1>7 DEF set_as_callee, PeerType
<1>8. CASE ready(c) /\ UNCHANGED serverVars
  BY <1>8 DEF ready, create_offer, Description
<1>9. CASE offer(c) /\ UNCHANGED serverVars
  <2>1. up' \in [Clients -> Seq(ToServer)]
    BY <1>4, <1>5, <1>9 DEF offer, HeadIs, receive_answer,
        receive_offer_create_answer, ParseFails, SetRemoteFails, Unexpected
  <2>2. Head(down[c]).ev \in Description
    BY <1>9 DEF offer, HeadIs, Description
  <2>3. unset' \in [Clients -> Description]
    BY <1>9, <2>2 DEF offer, receive_offer_create_answer, ParseFails, SetRemoteFails, Unexpected
  <2> QED BY <1>9, <2>1, <2>3 DEF offer,
        receive_offer_create_answer, ParseFails, SetRemoteFails, Unexpected, Description
<1>10. CASE answer(c) /\ UNCHANGED serverVars
  <2>1. up' \in [Clients -> Seq(ToServer)]
    BY <1>4, <1>5, <1>10 DEF answer, HeadIs, receive_answer,
        receive_offer_create_answer, ParseFails, SetRemoteFails, Unexpected
  <2>2. Head(down[c]).ev \in Description
    BY <1>10 DEF answer, HeadIs, Description
  <2>3. unset' \in [Clients -> Description]
    BY <1>10, <2>2 DEF answer, receive_answer, ParseFails, SetRemoteFails, Unexpected
  <2> QED BY <1>10, <2>1, <2>3 DEF answer, receive_answer,
        ParseFails, SetRemoteFails, Unexpected, Description
<1>11. CASE ice(c) /\ UNCHANGED serverVars
  <2>1. up' \in [Clients -> Seq(ToServer)]
    BY <1>4, <1>5, <1>11 DEF ice, add_ice_candidate, HeadIs
  <2>2. added' \in [Clients -> SUBSET (0 .. MaxIce)]
    <3>1. added' = [added EXCEPT ![c] = @ \cup {p.call.n}] \/ added' = added
      BY <1>11 DEF ice, add_ice_candidate
    <3> DEFINE n == p.call.n
    <3>2. n \in 0 .. MaxIce
      BY <1>5, <1>11 DEF ice, HeadIs, Call
    <3>3. added' = [added EXCEPT ![c] = @ \cup {n}] \/ added' = added
      BY <3>1
    <3>4. added \in [Clients -> SUBSET (0 .. MaxIce)]
      OBVIOUS
    <3> HIDE DEF n
    <3>5. added[c] \cup {n} \in SUBSET (0 .. MaxIce)
      BY <3>2, <3>4
    <3> QED BY <3>3, <3>4, <3>5
  <2>3. failed' \in [Clients -> BOOLEAN]
    BY <1>11 DEF ice, add_ice_candidate
  <2> QED BY <1>11, <2>1, <2>2, <2>3 DEF ice
<1>12. CASE ack(c) /\ UNCHANGED serverVars
  <2>1. p.call \in Call
    BY <1>12, HeadAck DEF ack, HeadIs
  <2> QED BY <1>12, <2>1 DEF ack
<1>13. CASE SessionEnded(c) /\ UNCHANGED serverVars
  BY <1>13 DEF SessionEnded, LinkState, peerVars
<1> QED BY <1>6, <1>7, <1>8, <1>9, <1>10, <1>11, <1>12, <1>13 DEF Listener

LEMMA ObserverTypes ==
    ASSUME TypeOK, NEW c \in Clients, Observer(c)
    PROVE  TypeOK'
<1>1. UNCHANGED serverVars => ServerTypeOK'
  BY DEF TypeOK, ServerTypeOK, serverVars, PendingCall
<1>2. CASE OnSuccess(c) /\ UNCHANGED serverVars
  <2>1. Sdp(SdpEvent(c), c) \in Call
    BY PacketType DEF SdpEvent
  <2>2. up' \in [Clients -> Seq(ToServer)]
    <3>1. Emit(Sdp(SdpEvent(c), c)) \in ToServer
      BY <2>1, PacketType
    <3> QED BY <1>2, <3>1, EmitType DEF TypeOK, OnSuccess
  <2> QED BY <1>1, <1>2, <2>2 DEF TypeOK, NetTypeOK, PeerTypeOK, OnSuccess, Description
<1>3. CASE OnIceCandidate(c) /\ UNCHANGED serverVars
  <2>1. gathered[c] + 1 \in 0 .. MaxIce
    BY <1>3, SignalingAssumption DEF OnIceCandidate, TypeOK, PeerTypeOK
  <2>2. up' \in [Clients -> Seq(ToServer)]
    <3>1. Emit(Ice(c, gathered[c] + 1)) \in ToServer
      BY <2>1, PacketType
    <3> QED BY <1>3, <3>1, EmitType DEF TypeOK, OnIceCandidate
  <2> QED BY <1>1, <1>3, <2>1, <2>2 DEF TypeOK, NetTypeOK, PeerTypeOK, OnIceCandidate
<1> QED BY <1>2, <1>3 DEF Observer

LEMMA EnvironmentTypes ==
    ASSUME TypeOK, NEW c \in Clients, Environment(c)
    PROVE  TypeOK'
<1>1. UNCHANGED serverVars => ServerTypeOK'
  BY DEF TypeOK, ServerTypeOK, serverVars, PendingCall
<1>2. UNCHANGED peerVars => PeerTypeOK'
  BY DEF TypeOK, PeerTypeOK, peerVars
<1> USE DEF TypeOK, NetTypeOK, LinkState
<1>3. CASE on_connected(c) /\ UNCHANGED serverVars
  <2>1. Put(up, {c}, Notice("connect")) \in [Clients -> Seq(ToServer)]
    BY PutType, PacketType
  <2> QED BY <1>1, <1>2, <1>3, <2>1 DEF on_connected
<1>4. CASE on_fail(c) /\ UNCHANGED serverVars
  BY <1>1, <1>2, <1>4 DEF on_fail
<1>5. CASE on_close(c) /\ UNCHANGED serverVars
  BY <1>1, <1>2, <1>5 DEF on_close
<1>6. CASE OnFailure(c) /\ UNCHANGED serverVars
  BY <1>1, <1>6 DEF OnFailure, PeerTypeOK, Description, netVars
<1>7. CASE Disconnect(c) /\ UNCHANGED peerVars
  BY <1>2, <1>7 DEF Disconnect, ServerTypeOK, serverVars
<1> QED BY <1>3, <1>4, <1>5, <1>6, <1>7 DEF Environment

\* Every variable keeps its type: queues hold packets of the right direction,
\* the server's lists hold clients, and no client gathers more than MaxIce.
THEOREM TypeCorrect == Spec => []TypeOK
<1>1. Init => TypeOK
  <2> SUFFICES ASSUME Init PROVE TypeOK
    OBVIOUS
  <2>1. NetTypeOK
    BY DEF Init, NetInit, NetTypeOK, LinkState
  <2>2. ServerTypeOK
    <3>1. <<>> \in Seq(Clients) /\ {} \in SUBSET PendingCall
      OBVIOUS
    <3> QED BY <3>1 DEF Init, ServerInit, ServerTypeOK
  <2>3. PeerTypeOK
    BY SignalingAssumption DEF Init, PeerInit, PeerTypeOK, PeerType, Description
  <2> QED BY <2>1, <2>2, <2>3 DEF TypeOK
<1>2. TypeOK /\ [Next]_vars => TypeOK'
  <2> SUFFICES ASSUME TypeOK, [Next]_vars PROVE TypeOK'
    OBVIOUS
  <2>1. ASSUME NEW p \in calls, TimeOut(p) PROVE TypeOK'
    BY <2>1 DEF TimeOut, CallTimesOut, TypeOK, NetTypeOK, ServerTypeOK, PeerTypeOK,
                netVars, peerVars
  <2>2. CASE UNCHANGED vars
    BY <2>2 DEF vars, TypeOK, NetTypeOK, ServerTypeOK, PeerTypeOK, netVars,
                serverVars, peerVars
  <2> QED
    BY <2>1, <2>2, ServerTypes, ListenerTypes, ObserverTypes, EnvironmentTypes DEF Next
<1> QED BY <1>1, <1>2, PTL DEF Spec

------------------------------------------------------------------------------
(* What a step does to the packets of a queue *)

\* What is left after a Take was there before, one place later in c's queue.
LEMMA TakeAt ==
    ASSUME NEW P, NEW q \in [Clients -> Seq(P)], NEW c \in Clients, q[c] # <<>>,
           NEW d \in Clients, NEW i \in DOMAIN Take(q, c)[d]
    PROVE  IF d = c THEN i + 1 \in DOMAIN q[c] /\ Take(q, c)[c][i] = q[c][i + 1]
                    ELSE i \in DOMAIN q[d] /\ Take(q, c)[d][i] = q[d][i]
BY DEF Take

\* What a queue holds after a Put was there before, or is the packet put.
LEMMA PutAt ==
    ASSUME NEW P, NEW q \in [Clients -> Seq(P)], NEW S, NEW p \in P,
           NEW d \in Clients, NEW i \in DOMAIN Put(q, S, p)[d]
    PROVE  \/ i \in DOMAIN q[d] /\ Put(q, S, p)[d][i] = q[d][i]
           \/ d \in S /\ i = Len(q[d]) + 1 /\ Put(q, S, p)[d][i] = p
<1>1. Put(q, S, p)[d] = IF d \in S THEN Append(q[d], p) ELSE q[d]
  BY DEF Put
<1> QED BY <1>1

\* A Take queues nothing new.
LEMMA TakeQueued ==
    ASSUME NEW P, NEW q \in [Clients -> Seq(P)], NEW c \in Clients, q[c] # <<>>,
           NEW d \in Clients, NEW ev, Queued(Take(q, c), d, ev)
    PROVE  Queued(q, d, ev)
BY TakeAt DEF Queued

\* A Put queues only the packet put.
LEMMA PutQueued ==
    ASSUME NEW P, NEW q \in [Clients -> Seq(P)], NEW S, NEW p \in P,
           NEW d \in Clients, NEW ev, Queued(Put(q, S, p), d, ev)
    PROVE  Queued(q, d, ev) \/ (d \in S /\ p.ev = ev)
BY PutAt DEF Queued

\* A notice put queues only itself.
LEMMA NoticeQueued ==
    ASSUME NEW q \in [Clients -> Seq(ToClient)], NEW S, NEW d \in Clients, NEW ev,
           NEW e \in {"set-as-caller", "set-as-callee", "ready", "disconnect"},
           Queued(Put(q, S, Notice(e)), d, ev)
    PROVE  Queued(q, d, ev) \/ (d \in S /\ e = ev)
<1>1. Notice(e) \in ToClient /\ Notice(e).ev = e
  BY PacketType DEF Notice
<1> QED BY <1>1, PutQueued

\* The oldest packet is queued.
LEMMA HeadQueued ==
    ASSUME NEW P, NEW q \in [Clients -> Seq(P)], NEW c \in Clients, NEW ev,
           HeadIs(q, c, ev)
    PROVE  Queued(q, c, ev) /\ 1 \in DOMAIN q[c] /\ q[c][1].ev = ev
BY DEF HeadIs, Queued

------------------------------------------------------------------------------
(* The server's handlers *)

\* After the server takes a packet of c, what it still has to handle obeys
\* ConnectsOnce and OnlyPeersTalk, and no request for a session of c is left.
LEMMA UpTaken ==
    ASSUME TypeOK, RoleInv, NEW c \in Clients, up[c] # <<>>
    PROVE  /\ \A d \in Clients : up[d] = <<>> => Take(up, c)[d] = <<>>
           /\ \A d \in Clients : \A i \in DOMAIN Take(up, c)[d] :
                /\ Take(up, c)[d][i].ev = "connect" => d # c /\ i = 1 /\ ~IsPeer(d)
                /\ Take(up, c)[d][i].ev \in {"offer", "answer", "ice"} =>
                    type_[d] # "Undefined" /\ Take(up, c)[d][i].call.from = d
<1> DEFINE t == Take(up, c)
<1>1. up \in [Clients -> Seq(ToServer)]
  BY DEF TypeOK, NetTypeOK
<1>2. ASSUME NEW d \in Clients, up[d] = <<>> PROVE t[d] = <<>>
  BY <1>1, <1>2 DEF Take
<1>3. ASSUME NEW d \in Clients, NEW i \in DOMAIN t[d]
      PROVE  /\ t[d][i].ev = "connect" => d # c /\ i = 1 /\ ~IsPeer(d)
             /\ t[d][i].ev \in {"offer", "answer", "ice"} =>
                type_[d] # "Undefined" /\ t[d][i].call.from = d
  <2>1. IF d = c THEN i + 1 \in DOMAIN up[c] /\ t[c][i] = up[c][i + 1]
                 ELSE i \in DOMAIN up[d] /\ t[d][i] = up[d][i]
    BY <1>1, TakeAt
  <2>2. i \in Nat \ {0}
    <3>1. t \in [Clients -> Seq(ToServer)]
      BY <1>1, TakeType
    <3> QED BY <3>1
  <2> QED BY <2>1, <2>2 DEF RoleInv, ConnectsOnce, OnlyPeersTalk
<1> QED BY <1>2, <1>3

\* A packet that names no role keeps RolePackets.
LEMMA PutKeepsRolePackets ==
    ASSUME TypeOK, RolePackets, NEW S, NEW p \in ToClient,
           p.ev \notin {"set-as-caller", "set-as-callee"},
           down' = Put(down, S, p), UNCHANGED peers
    PROVE  RolePackets'
<1>1. down \in [Clients -> Seq(ToClient)]
  BY DEF TypeOK, NetTypeOK
<1>2. ASSUME NEW d \in Clients, NEW ev \in {"set-as-caller", "set-as-callee"},
             Queued(down', d, ev)
      PROVE  Queued(down, d, ev)
  <2>1. Queued(Put(down, S, p), d, ev)
    BY <1>2
  <2> QED BY <1>1, <2>1, PutQueued
<1> QED BY <1>2 DEF RolePackets

LEMMA RefuseKeeps ==
    ASSUME TypeOK, RoleInv, NEW c \in Clients, Refuse(c), UNCHANGED peerVars
    PROVE  RoleInv'
<1>1. up[c] # <<>> /\ up' = Take(up, c)
  BY DEF Refuse, HeadIs
<1> USE DEF Refuse, serverVars, peerVars
<1>2. PeersInOrder' /\ Roles' /\ RoleFirst'
  BY DEF RoleInv, PeersInOrder, Roles, RoleFirst
<1>3. ConnectsOnce'
  BY <1>1, UpTaken DEF RoleInv, ConnectsOnce, IsPeer
<1>4. RolePackets'
  BY PacketType, PutKeepsRolePackets DEF RoleInv, Notice
<1>5. OnlyPeersTalk'
  BY <1>1, UpTaken DEF RoleInv, OnlyPeersTalk, IsPeer
<1> QED BY <1>2, <1>3, <1>4, <1>5 DEF RoleInv

LEMMA AdmitKeeps ==
    ASSUME TypeOK, RoleInv, NEW c \in Clients, Admit(c), UNCHANGED peerVars
    PROVE  RoleInv'
<1> DEFINE n == Len(peers)
           room == {d \in online : IsPeer(d)} \cup {c}
<1>0. /\ HeadIs(up, c, "connect") /\ ~flag_peer_connection
      /\ up' = Take(up, c) /\ peers' = Append(peers, c)
      /\ flag_peer_connection' = (Place = 2)
      /\ down' = Announce(c, Place, room)
      /\ UNCHANGED <<link, calls, type_, creating, local>>
  BY DEF Admit, peerVars
<1>1. /\ up[c] # <<>> /\ up' = Take(up, c)
      /\ up \in [Clients -> Seq(ToServer)] /\ down \in [Clients -> Seq(ToClient)]
      /\ peers \in Seq(Clients)
  BY <1>0 DEF HeadIs, TypeOK, NetTypeOK, ServerTypeOK
<1>9. n \in {0, 1} /\ Place = n + 1
  <2>1. n \in Nat /\ n <= 2 /\ n # 2
    BY <1>0, <1>1 DEF RoleInv, PeersInOrder
  <2> QED BY <2>1 DEF Place
<1>2. ~IsPeer(c)
  BY <1>0, <1>1, HeadQueued DEF RoleInv, ConnectsOnce
<1>3. /\ Len(peers') = n + 1 /\ peers'[n + 1] = c
      /\ \A i \in 1 .. n : peers'[i] = peers[i]
  BY <1>1, <1>0
<1>11. ASSUME NEW d \in Clients PROVE IsPeer(d)' <=> IsPeer(d) \/ d = c
  <2>1. DOMAIN peers' = 1 .. n + 1 /\ DOMAIN peers = 1 .. n /\ n \in Nat
    BY <1>0, <1>1
  <2> QED BY <1>3, <2>1 DEF IsPeer
<1>4. PeersInOrder'
  <2>1. Len(peers') <= 2 /\ (flag_peer_connection' <=> Len(peers') = 2)
    <3>1. Place = Len(peers') /\ Len(peers') <= 2
      <4>1. CASE n = 0
        BY <1>3, <1>9, <4>1
      <4>2. CASE n = 1
        BY <1>3, <1>9, <4>2
      <4> QED BY <1>9, <4>1, <4>2
    <3>2. flag_peer_connection' <=> Len(peers') = 2
      BY <1>0, <3>1, Zenon
    <3> QED BY <3>1, <3>2
  <2>2. ASSUME NEW i \in DOMAIN peers', NEW j \in DOMAIN peers', peers'[i] = peers'[j]
        PROVE  i = j
    <3>1. DOMAIN peers' = 1 .. n + 1 /\ DOMAIN peers = 1 .. n
      BY <1>1, <1>0
    <3> QED BY <1>2, <1>3, <1>9, <2>2, <3>1 DEF IsPeer, RoleInv, PeersInOrder
  <2> QED BY <2>1, <2>2 DEF PeersInOrder
<1>5. Roles' /\ RoleFirst'
  BY <1>0, <1>3, <1>9 DEF RoleInv, Roles, RoleFirst
<1>6. ConnectsOnce'
  <2>1. link[c] # "idle"
    BY <1>1 DEF RoleInv, ConnectsOnce
  <2> QED BY <1>0, <1>1, <1>11, <2>1, UpTaken DEF RoleInv, ConnectsOnce
<1>7. RolePackets'
  <2> DEFINE first == Put(down, {c}, Notice("set-as-caller"))
             second == Put(down, {c}, Notice("set-as-callee"))
  <2>1. CASE n = 0
    <3>1. down' = first
      BY <1>0, <1>9, <2>1 DEF Announce
    <3>2. ASSUME NEW d \in Clients, NEW ev \in {"set-as-caller", "set-as-callee"},
                 Queued(down', d, ev)
          PROVE  Queued(down, d, ev) \/ (d = c /\ ev = "set-as-caller")
      <4>1. Queued(first, d, ev)
        BY <3>1, <3>2
      <4>2. Queued(down, d, ev) \/ (d \in {c} /\ "set-as-caller" = ev)
        BY <1>1, <4>1, NoticeQueued
      <4> QED BY <4>2
    <3> QED BY <1>3, <2>1, <3>2 DEF RoleInv, RolePackets
  <2>2. CASE n = 1
    <3>1. down' = Put(second, room, Notice("ready"))
      BY <1>0, <1>9, <2>2 DEF Announce
    <3>2. second \in [Clients -> Seq(ToClient)]
      BY <1>1, PutType, PacketType
    <3>3. ASSUME NEW d \in Clients, NEW ev \in {"set-as-caller", "set-as-callee"},
                 Queued(down', d, ev)
          PROVE  Queued(down, d, ev) \/ (d = c /\ ev = "set-as-callee")
      <4>1. Queued(second, d, ev)
        <5>1. Queued(Put(second, room, Notice("ready")), d, ev)
          BY <3>1, <3>3
        <5> QED BY <3>2, <5>1, NoticeQueued
      <4>2. Queued(down, d, ev) \/ (d \in {c} /\ "set-as-callee" = ev)
        BY <1>1, <4>1, NoticeQueued
      <4> QED BY <4>2
    <3> QED BY <1>3, <2>2, <3>3 DEF RoleInv, RolePackets
  <2> QED BY <1>9, <2>1, <2>2
<1>8. OnlyPeersTalk'
  <2>1. \A p \in calls : p.to \in Clients /\ p.call.from \in Clients
    BY DEF TypeOK, ServerTypeOK, PendingCall, Call
  <2> QED BY <1>0, <1>1, <1>11, <2>1, UpTaken DEF RoleInv, OnlyPeersTalk
<1> QED BY <1>4, <1>5, <1>6, <1>7, <1>8 DEF RoleInv

LEMMA RelayKeeps ==
    ASSUME TypeOK, RoleInv, NEW c \in Clients, Relay(c), UNCHANGED peerVars
    PROVE  RoleInv'
<1> DEFINE k == Head(up[c]).call
<1>1. /\ up[c] # <<>> /\ up' = Take(up, c) /\ Head(up[c]) \in CallPacket
      /\ UNCHANGED <<link, online, peers, flag_peer_connection, type_, creating, local>>
  BY DEF Relay, peerVars
<1>2. PeersInOrder' /\ Roles' /\ RoleFirst'
  BY <1>1 DEF RoleInv, PeersInOrder, Roles, RoleFirst
<1>3. ConnectsOnce'
  BY <1>1, UpTaken DEF RoleInv, ConnectsOnce, IsPeer
<1>4. k \in Call /\ k.from = c /\ type_[c] # "Undefined"
  <2>1. PICK j \in Call : Head(up[c]) = Emit(j)
    BY <1>1 DEF CallPacket
  <2>2. k = j /\ Head(up[c]).ev \in {"offer", "answer", "ice"}
    BY <2>1 DEF Emit, Call
  <2>3. 1 \in DOMAIN up[c] /\ up[c][1] = Head(up[c])
    BY <1>1 DEF TypeOK, NetTypeOK
  <2> QED BY <2>2, <2>3 DEF RoleInv, OnlyPeersTalk
<1>5. RolePackets'
  <2>1. CASE CounterIndexes(c) = {}
    BY <1>1, <2>1 DEF Relay, RoleInv, RolePackets
  <2>2. CASE CounterIndexes(c) # {}
    <3>1. Emit(k) \in ToClient /\ Emit(k).ev \notin {"set-as-caller", "set-as-callee"}
      BY <1>4, PacketType DEF Emit, Call
    <3>2. down' = Put(down, {Counter(c)} \cap online, Emit(k))
      BY <2>2 DEF Relay
    <3> QED BY <1>1, <3>1, <3>2, PutKeepsRolePackets DEF RoleInv
  <2> QED BY <2>1, <2>2
<1>6. ASSUME NEW p \in calls'
      PROVE  IsPeer(p.to) /\ IsPeer(p.call.from) /\ p.to # p.call.from
  <2>1. CASE p \in calls
    BY <2>1 DEF RoleInv, OnlyPeersTalk
  <2>2. CASE p \notin calls
    <3>1. CounterIndexes(c) # {} /\ p = [call |-> k, to |-> Counter(c)]
      BY <1>6, <2>2 DEF Relay
    <3>2. IsPeer(Counter(c)) /\ Counter(c) # c
      BY <3>1, CounterIsOther DEF TypeOK
    <3>3. IsPeer(c)
      <4>1. type_[c] \in {"Caller", "Callee"}
        BY <1>4 DEF TypeOK, PeerTypeOK, PeerType
      <4>2. peers \in Seq(Clients)
        BY DEF TypeOK, ServerTypeOK
      <4> QED BY <4>1, <4>2 DEF RoleInv, Roles, IsPeer
    <3> QED BY <1>4, <3>1, <3>2, <3>3
  <2> QED BY <2>1, <2>2
<1>7. OnlyPeersTalk'
  BY <1>1, <1>6, UpTaken DEF OnlyPeersTalk, IsPeer
<1> QED BY <1>2, <1>3, <1>5, <1>7 DEF RoleInv

LEMMA CallReturnsKeeps ==
    ASSUME TypeOK, RoleInv, NEW c \in Clients, CallReturns(c), UNCHANGED peerVars
    PROVE  RoleInv'
<1> DEFINE a == Head(up[c])
<1>1. /\ up[c] # <<>> /\ a.ev = "ack" /\ up' = Take(up, c)
      /\ UNCHANGED <<link, online, peers, flag_peer_connection, type_, creating, local>>
  BY DEF CallReturns, HeadIs, peerVars
<1>2. PeersInOrder' /\ Roles' /\ RoleFirst'
  BY <1>1 DEF RoleInv, PeersInOrder, Roles, RoleFirst
<1>3. ConnectsOnce'
  BY <1>1, UpTaken DEF RoleInv, ConnectsOnce, IsPeer
<1>4. RolePackets'
  <2>1. a \in ToClient
    <3>1. a \in ToServer
      BY <1>1 DEF TypeOK, NetTypeOK
    <3> QED BY <1>1, <3>1, HeadAck, PacketType
  <2>2. CASE down' = Put(down, {a.call.from} \cap online, a)
    BY <1>1, <2>1, <2>2, PutKeepsRolePackets DEF RoleInv
  <2>3. CASE down' = down
    BY <1>1, <2>3 DEF RoleInv, RolePackets
  <2> QED BY <2>2, <2>3 DEF CallReturns
<1>5. calls' \subseteq calls
  BY DEF CallReturns
<1>6. OnlyPeersTalk'
  BY <1>1, <1>5, UpTaken DEF RoleInv, OnlyPeersTalk, IsPeer
<1> QED BY <1>2, <1>3, <1>4, <1>6 DEF RoleInv

LEMMA TimeOutKeeps ==
    ASSUME TypeOK, RoleInv, NEW p \in calls, TimeOut(p)
    PROVE  RoleInv'
<1>1. /\ calls' \subseteq calls
      /\ UNCHANGED <<link, up, down, peers, flag_peer_connection, type_, creating, local>>
  BY DEF TimeOut, CallTimesOut, netVars, peerVars
<1> QED BY <1>1 DEF RoleInv, PeersInOrder, ConnectsOnce, RolePackets, Roles, RoleFirst,
                    OnlyPeersTalk, IsPeer

LEMMA DisconnectKeeps ==
    ASSUME TypeOK, RoleInv, NEW c \in Clients, Disconnect(c), UNCHANGED peerVars
    PROVE  RoleInv'
<1>1. /\ up' = [up EXCEPT ![c] = <<>>]
      /\ UNCHANGED <<link, down, peers, flag_peer_connection, calls, type_, creating, local>>
  BY DEF Disconnect, serverVars, peerVars
<1>2. up \in [Clients -> Seq(ToServer)]
  BY DEF TypeOK, NetTypeOK
<1>3. PeersInOrder' /\ RolePackets' /\ Roles' /\ RoleFirst'
  BY <1>1 DEF RoleInv, PeersInOrder, RolePackets, Roles, RoleFirst
<1>4. ConnectsOnce' /\ OnlyPeersTalk'
  BY <1>1, <1>2 DEF RoleInv, ConnectsOnce, OnlyPeersTalk, IsPeer
<1> QED BY <1>3, <1>4 DEF RoleInv

------------------------------------------------------------------------------
(* The clients' handlers *)

\* Taking a packet from the server leaves only role packets that were there.
LEMMA DownTaken ==
    ASSUME TypeOK, RolePackets, NEW c \in Clients, down[c] # <<>>,
           down' = Take(down, c), UNCHANGED peers
    PROVE  RolePackets'
<1>1. down \in [Clients -> Seq(ToClient)]
  BY DEF TypeOK, NetTypeOK
<1>2. ASSUME NEW d \in Clients, NEW ev, Queued(down', d, ev)
      PROVE  Queued(down, d, ev)
  <2>1. Queued(Take(down, c), d, ev)
    BY <1>2
  <2> QED BY <1>1, <2>1, TakeQueued
<1> QED BY <1>2 DEF RolePackets

\* A client that has connected and, if what it sends is a call, has a role and
\* signs the call, may send it.
LEMMA EmitKeeps ==
    ASSUME TypeOK, ConnectsOnce, OnlyPeersTalk, NEW c \in Clients, NEW p \in ToServer,
           p.ev # "connect",
           p.ev \in {"offer", "answer", "ice"} => type_[c] # "Undefined" /\ p.call.from = c,
           emit(c, p), UNCHANGED <<peers, calls, type_>>,
           \A d \in Clients : link'[d] = "idle" => link[d] = "idle"
    PROVE  ConnectsOnce' /\ OnlyPeersTalk'
<1>1. up \in [Clients -> Seq(ToServer)]
  BY DEF TypeOK, NetTypeOK
<1>2. CASE up' = up
  BY <1>2 DEF ConnectsOnce, OnlyPeersTalk, IsPeer
<1>3. CASE link[c] = "open" /\ up' = Put(up, {c}, p)
  <2>1. ASSUME NEW d \in Clients, NEW i \in DOMAIN up'[d]
        PROVE  \/ i \in DOMAIN up[d] /\ up'[d][i] = up[d][i]
               \/ d = c /\ up'[d][i] = p
    <3>1. i \in DOMAIN Put(up, {c}, p)[d] /\ up'[d][i] = Put(up, {c}, p)[d][i]
      BY <1>3
    <3>2. \/ i \in DOMAIN up[d] /\ Put(up, {c}, p)[d][i] = up[d][i]
          \/ d \in {c} /\ Put(up, {c}, p)[d][i] = p
      BY <1>1, <3>1, PutAt
    <3> QED BY <3>1, <3>2
  <2>2. ASSUME NEW d \in Clients, d # c PROVE up'[d] = up[d]
    BY <1>3, <2>2 DEF Put
  <2>3. \A d \in Clients : IsPeer(d)' <=> IsPeer(d)
    BY DEF IsPeer
  <2>4. ConnectsOnce'
    <3>1. ASSUME NEW d \in Clients, link'[d] = "idle" PROVE up'[d] = <<>> /\ ~IsPeer(d)'
      BY <1>3, <2>2, <2>3, <3>1 DEF ConnectsOnce
    <3>2. ASSUME NEW d \in Clients, NEW i \in DOMAIN up'[d], up'[d][i].ev = "connect"
          PROVE  i = 1 /\ ~IsPeer(d)'
      BY <2>1, <2>3, <3>2 DEF ConnectsOnce
    <3> QED BY <3>1, <3>2 DEF ConnectsOnce
  <2>5. OnlyPeersTalk'
    <3>1. ASSUME NEW d \in Clients, NEW i \in DOMAIN up'[d],
                 up'[d][i].ev \in {"offer", "answer", "ice"}
          PROVE  type_'[d] # "Undefined" /\ up'[d][i].call.from = d
      BY <2>1, <3>1 DEF OnlyPeersTalk
    <3>2. \A k \in calls' : IsPeer(k.to)' /\ IsPeer(k.call.from)' /\ k.to # k.call.from
      BY DEF OnlyPeersTalk, IsPeer
    <3> QED BY <3>1, <3>2 DEF OnlyPeersTalk
  <2> QED BY <2>4, <2>5
<1> QED BY <1>2, <1>3 DEF emit

LEMMA ListenerKeeps ==
    ASSUME TypeOK, RoleInv, NEW c \in Clients, Listener(c)
    PROVE  RoleInv'
<1>1. /\ link[c] = "open" /\ down[c] # <<>> /\ down' = Take(down, c)
      /\ UNCHANGED <<online, local, peers, flag_peer_connection, calls>>
  BY DEF Listener, Receives, HeadIs, set_as_caller, set_as_callee, ready,
         offer, answer, ice, ack, SessionEnded, peerVars, serverVars
<1>2. RolePackets' /\ PeersInOrder'
  BY <1>1, DownTaken DEF RoleInv, PeersInOrder
<1>3. \A d \in Clients : link'[d] = "idle" => link[d] = "idle"
  <2>1. link' = link \/ \E l \in {"detached", "closed"} : link' = [link EXCEPT ![c] = l]
    BY DEF Listener, set_as_caller, set_as_callee, ready, offer, answer, ice, ack,
           SessionEnded
  <2> QED BY <2>1 DEF TypeOK, NetTypeOK
<1>4. ASSUME NEW ev \in {"offer", "answer", "ice"}, Receives(c, ev)
      PROVE  \A ok \in BOOLEAN :
                Ack(Head(down[c]).call, ok) \in ToServer
                    /\ Ack(Head(down[c]).call, ok).ev = "ack"
  <2>1. Head(down[c]) \in ToClient /\ Head(down[c]).ev = ev
    BY <1>4 DEF Receives, HeadIs, TypeOK, NetTypeOK
  <2>2. Head(down[c]).call \in Call
    BY <2>1, HeadCall
  <2> QED BY <2>2, PacketType DEF Ack
<1>5. ASSUME NEW role \in {"Caller", "Callee"}, NEW n \in {1, 2},
             Len(peers) >= n, peers[n] = c, (role = "Caller") <=> (n = 1),
             type_' = [type_ EXCEPT ![c] = role], UNCHANGED <<link, up, creating>>
      PROVE  RoleInv'
  <2>1. \A d \in Clients : type_'[d] = IF d = c THEN role ELSE type_[d]
    BY <1>5 DEF TypeOK, PeerTypeOK
  <2>2. Roles'
    BY <1>1, <1>5, <2>1 DEF RoleInv, Roles
  <2>3. RoleFirst'
    BY <1>1, <1>5, <2>1 DEF RoleInv, RoleFirst
  <2>4. ConnectsOnce' /\ OnlyPeersTalk'
    BY <1>1, <1>5, <2>1 DEF RoleInv, ConnectsOnce, OnlyPeersTalk, IsPeer
  <2> QED BY <1>2, <2>2, <2>3, <2>4 DEF RoleInv
<1>6. CASE set_as_caller(c)
  <2>1. Queued(down, c, "set-as-caller")
    BY <1>6, HeadQueued DEF set_as_caller, Receives, TypeOK, NetTypeOK
  <2> QED BY <1>5, <1>6, <2>1 DEF set_as_caller, RoleInv, RolePackets
<1>7. CASE set_as_callee(c)
  <2>1. Queued(down, c, "set-as-callee")
    BY <1>7, HeadQueued DEF set_as_callee, Receives, TypeOK, NetTypeOK
  <2> QED BY <1>5, <1>7, <2>1 DEF set_as_callee, RoleInv, RolePackets
<1>8. ASSUME UNCHANGED type_,
             \A d \in Clients : creating'[d] # "none" =>
                creating[d] # "none" \/ type_[d] # "Undefined",
             ConnectsOnce' /\ OnlyPeersTalk'
      PROVE  RoleInv'
  <2>1. Roles' /\ RoleFirst'
    BY <1>1, <1>8 DEF RoleInv, Roles, RoleFirst
  <2> QED BY <1>2, <1>8, <2>1 DEF RoleInv
<1>9. ASSUME NEW ev \in {"offer", "answer", "ice"}, Receives(c, ev), NEW ok \in BOOLEAN,
             emit(c, Ack(Head(down[c]).call, ok)), UNCHANGED type_
      PROVE  ConnectsOnce' /\ OnlyPeersTalk'
  BY <1>1, <1>3, <1>4, <1>9, EmitKeeps DEF RoleInv
<1>10. ASSUME UNCHANGED <<up, type_>> PROVE ConnectsOnce' /\ OnlyPeersTalk'
  BY <1>1, <1>3, <1>10 DEF RoleInv, ConnectsOnce, OnlyPeersTalk, IsPeer
<1>11. CASE ready(c)
  BY <1>8, <1>10, <1>11 DEF ready, create_offer, TypeOK, PeerTypeOK
<1>12. CASE offer(c)
  <2>1. ConnectsOnce' /\ OnlyPeersTalk'
    BY <1>9, <1>12 DEF offer, receive_answer,
        receive_offer_create_answer, ParseFails, SetRemoteFails, Unexpected
  <2>2. \A d \in Clients : creating'[d] # "none" =>
            creating[d] # "none" \/ type_[d] # "Undefined"
    BY <1>12 DEF offer, receive_answer,
        receive_offer_create_answer, ParseFails, SetRemoteFails, Unexpected, TypeOK, PeerTypeOK
  <2> QED BY <1>8, <1>12, <2>1, <2>2 DEF offer
<1>13. CASE answer(c)
  <2>1. ConnectsOnce' /\ OnlyPeersTalk'
    BY <1>9, <1>13 DEF answer, receive_answer,
        receive_offer_create_answer, ParseFails, SetRemoteFails, Unexpected
  <2>2. UNCHANGED creating
    BY <1>13 DEF answer, receive_answer,
        receive_offer_create_answer, ParseFails, SetRemoteFails, Unexpected
  <2> QED BY <1>8, <1>13, <2>1, <2>2 DEF answer
<1>14. CASE ice(c)
  <2>1. ConnectsOnce' /\ OnlyPeersTalk'
    BY <1>9, <1>14 DEF ice, add_ice_candidate
  <2> QED BY <1>8, <1>14, <2>1 DEF ice
<1>15. CASE ack(c)
  BY <1>8, <1>10, <1>15 DEF ack
<1>16. CASE SessionEnded(c)
  BY <1>8, <1>10, <1>16 DEF SessionEnded, peerVars
<1> QED
  BY <1>6, <1>7, <1>11, <1>12, <1>13, <1>14, <1>15, <1>16 DEF Listener

LEMMA ObserverKeeps ==
    ASSUME TypeOK, RoleInv, NEW c \in Clients, Observer(c)
    PROVE  RoleInv'
<1>1. UNCHANGED <<link, down, online, peers, flag_peer_connection, calls, type_>>
  BY DEF Observer, OnSuccess, OnIceCandidate, serverVars
<1>2. type_[c] # "Undefined"
  BY DEF Observer, OnSuccess, OnIceCandidate, MayGather, RoleInv, RoleFirst
<1>3. PICK k \in Call : k.from = c /\ emit(c, Emit(k))
  <2>1. CASE OnSuccess(c)
    <3>1. Sdp(SdpEvent(c), c) \in Call /\ Sdp(SdpEvent(c), c).from = c
      BY PacketType DEF SdpEvent, Sdp
    <3> QED BY <2>1, <3>1 DEF OnSuccess
  <2>2. CASE OnIceCandidate(c)
    <3>1. gathered[c] + 1 \in 0 .. MaxIce
      BY <2>2, SignalingAssumption DEF OnIceCandidate, TypeOK, PeerTypeOK
    <3>2. Ice(c, gathered[c] + 1) \in Call /\ Ice(c, gathered[c] + 1).from = c
      BY <3>1, PacketType DEF Ice
    <3> QED BY <2>2, <3>2 DEF OnIceCandidate
  <2> QED BY <2>1, <2>2 DEF Observer
<1>4. ConnectsOnce' /\ OnlyPeersTalk'
  <2>1. Emit(k) \in ToServer /\ Emit(k).ev # "connect" /\ Emit(k).call = k
    BY PacketType DEF Emit, Call
  <2> QED BY <1>1, <1>2, <1>3, <2>1, EmitKeeps DEF RoleInv
<1>5. RoleFirst'
  <2>1. \A d \in Clients \ {c} : creating'[d] = creating[d] /\ local'[d] = local[d]
    BY DEF Observer, OnSuccess, OnIceCandidate, TypeOK, PeerTypeOK
  <2> QED BY <1>1, <1>2, <2>1 DEF RoleInv, RoleFirst
<1>6. PeersInOrder' /\ RolePackets' /\ Roles'
  BY <1>1 DEF RoleInv, PeersInOrder, RolePackets, Roles
<1> QED BY <1>4, <1>5, <1>6 DEF RoleInv

LEMMA EnvironmentKeeps ==
    ASSUME TypeOK, RoleInv, NEW c \in Clients, Environment(c)
    PROVE  RoleInv'
<1>1. CASE on_connected(c) /\ UNCHANGED serverVars
  <2> DEFINE p == Notice("connect")
  <2>1. /\ link[c] = "idle" /\ link' = [link EXCEPT ![c] = "open"]
        /\ up' = Put(up, {c}, p) /\ p.ev = "connect"
        /\ UNCHANGED <<down, online, peers, flag_peer_connection, calls, type_, creating, local>>
    BY <1>1 DEF on_connected, serverVars, peerVars, Notice
  <2>2. up \in [Clients -> Seq(ToServer)] /\ p \in ToServer
    BY PacketType DEF TypeOK, NetTypeOK
  <2>3. ~IsPeer(c) /\ up'[c] = <<p>>
    <3>1. up[c] = <<>> /\ ~IsPeer(c)
      BY <2>1 DEF RoleInv, ConnectsOnce
    <3>2. up'[c] = Append(up[c], p)
      BY <2>1 DEF Put
    <3> QED BY <3>1, <3>2
  <2>4. \A d \in Clients \ {c} : up'[d] = up[d] /\ link'[d] = link[d]
    BY <2>1 DEF Put, TypeOK, NetTypeOK
  <2>5. link'[c] # "idle"
    BY <2>1 DEF TypeOK, NetTypeOK
  <2>6. DOMAIN up'[c] = {1} /\ up'[c][1] = p
    BY <2>3
  <2>7. ConnectsOnce'
    BY <2>1, <2>3, <2>4, <2>5, <2>6 DEF RoleInv, ConnectsOnce, IsPeer
  <2>8. OnlyPeersTalk'
    <3>1. ASSUME NEW d \in Clients, NEW i \in DOMAIN up'[d],
                 up'[d][i].ev \in {"offer", "answer", "ice"}
          PROVE  type_'[d] # "Undefined" /\ up'[d][i].call.from = d
      <4>1. d # c
        BY <2>1, <2>6, <3>1
      <4> QED BY <2>1, <2>4, <3>1, <4>1 DEF RoleInv, OnlyPeersTalk
    <3>2. \A k \in calls' : IsPeer(k.to)' /\ IsPeer(k.call.from)' /\ k.to # k.call.from
      BY <2>1 DEF RoleInv, OnlyPeersTalk, IsPeer
    <3> QED BY <3>1, <3>2 DEF OnlyPeersTalk
  <2>9. PeersInOrder' /\ RolePackets' /\ Roles' /\ RoleFirst'
    BY <2>1 DEF RoleInv, PeersInOrder, RolePackets, Roles, RoleFirst
  <2> QED BY <2>7, <2>8, <2>9 DEF RoleInv
<1>2. CASE (on_fail(c) \/ on_close(c)) /\ UNCHANGED serverVars
  <2>1. /\ link' = [link EXCEPT ![c] = "closed"]
        /\ down' = down \/ down' = [down EXCEPT ![c] = <<>>]
        /\ UNCHANGED <<up, online, peers, flag_peer_connection, calls, type_, creating, local>>
    BY <1>2 DEF on_fail, on_close, serverVars, peerVars
  <2>2. RolePackets'
    BY <2>1 DEF RoleInv, RolePackets, Queued, TypeOK, NetTypeOK
  <2>3. ConnectsOnce'
    BY <2>1 DEF RoleInv, ConnectsOnce, IsPeer, TypeOK, NetTypeOK
  <2>4. PeersInOrder' /\ Roles' /\ RoleFirst' /\ OnlyPeersTalk'
    BY <2>1 DEF RoleInv, PeersInOrder, Roles, RoleFirst, OnlyPeersTalk, IsPeer
  <2> QED BY <2>2, <2>3, <2>4 DEF RoleInv
<1>3. CASE OnFailure(c) /\ UNCHANGED serverVars
  <2>1. /\ creating' = [creating EXCEPT ![c] = "none"]
        /\ UNCHANGED <<link, up, down, online, peers, flag_peer_connection, calls, type_, local>>
    BY <1>3 DEF OnFailure, serverVars, netVars
  <2>2. RoleFirst'
    BY <2>1 DEF RoleInv, RoleFirst, TypeOK, PeerTypeOK
  <2> QED BY <2>1, <2>2 DEF RoleInv, PeersInOrder, ConnectsOnce, RolePackets, Roles,
                            OnlyPeersTalk, IsPeer
<1> QED BY <1>1, <1>2, <1>3, DisconnectKeeps DEF Environment

------------------------------------------------------------------------------
\* For every set of clients, whatever connects, closes, fails or times out: the
\* server's list, the role packets under way, the roles the clients took and
\* the calls they make always agree.
THEOREM RoleInvariant == Spec => []RoleInv
<1>1. Init => RoleInv
  <2> SUFFICES ASSUME Init PROVE RoleInv
    OBVIOUS
  <2>1. /\ peers = <<>> /\ flag_peer_connection = FALSE /\ calls = {}
        /\ \A c \in Clients : /\ up[c] = <<>> /\ down[c] = <<>>
                              /\ type_[c] = "Undefined"
                              /\ creating[c] = "none" /\ local[c] = "none"
    BY DEF Init, NetInit, ServerInit, PeerInit
  <2>2. PeersInOrder
    BY <2>1 DEF PeersInOrder
  <2>3. ConnectsOnce /\ OnlyPeersTalk
    BY <2>1 DEF ConnectsOnce, OnlyPeersTalk, IsPeer
  <2>4. RolePackets /\ Roles /\ RoleFirst
    BY <2>1 DEF RolePackets, Queued, Roles, RoleFirst
  <2> QED BY <2>2, <2>3, <2>4 DEF RoleInv
<1>2. TypeOK /\ RoleInv /\ [Next]_vars => RoleInv'
  <2> SUFFICES ASSUME TypeOK, RoleInv, [Next]_vars PROVE RoleInv'
    OBVIOUS
  <2>1. ASSUME NEW c \in Clients, ServerStep(c) PROVE RoleInv'
    BY <2>1, RefuseKeeps, AdmitKeeps, RelayKeeps, CallReturnsKeeps DEF ServerStep
  <2>2. CASE UNCHANGED vars
    BY <2>2 DEF vars, netVars, serverVars, peerVars, RoleInv, PeersInOrder, ConnectsOnce,
                RolePackets, Roles, RoleFirst, OnlyPeersTalk, IsPeer
  <2> QED
    BY <2>1, <2>2, ListenerKeeps, ObserverKeeps, EnvironmentKeeps, TimeOutKeeps DEF Next
<1> QED BY <1>1, <1>2, TypeCorrect, PTL DEF Spec

\* Types, and the agreement of the server's list with the clients' roles, together.
THEOREM SessionInvariant == Spec => []SessionInv
<1>1. TypeOK /\ RoleInv => SessionInv
  BY DEF SessionInv
<1> QED BY <1>1, TypeCorrect, RoleInvariant, PTL

\* The caller is the first client the server admitted and the callee the second.
THEOREM RolesAgree == Spec => []Roles
<1>1. RoleInv => Roles
  BY DEF RoleInv
<1> QED BY <1>1, RoleInvariant, PTL

\* Calls are between the two peers and are never relayed to their sender.
THEOREM CallsBetweenPeers == Spec => []OnlyPeersTalk
<1>1. RoleInv => OnlyPeersTalk
  BY DEF RoleInv
<1> QED BY <1>1, RoleInvariant, PTL

RolesStay == \A d \in Clients : type_[d] # "Undefined" => type_'[d] = type_[d]

\* No client changes a role it has.
LEMMA RolesAreKept ==
    ASSUME TypeOK, RoleInv, Next
    PROVE  RolesStay
<1> SUFFICES ASSUME NEW c \in Clients, type_[c] # "Undefined"
             PROVE  type_'[c] = type_[c]
  BY DEF RolesStay
<1>0. /\ type_[c] = "Caller" \/ type_[c] = "Callee"
      /\ peers \in Seq(Clients)
  BY DEF TypeOK, PeerTypeOK, PeerType, ServerTypeOK
<1>1. \/ type_' = type_
      \/ \E d \in Clients : set_as_caller(d) \/ set_as_callee(d)
  BY DEF Next, TimeOut, CallTimesOut, ServerStep, Listener, Observer, Environment,
         ready, offer, answer, ice, ack, SessionEnded, OnSuccess, OnIceCandidate,
         on_connected, on_fail, on_close, OnFailure, peerVars
<1>2. ASSUME NEW d \in Clients, set_as_caller(d) PROVE type_'[c] = type_[c]
  <2>1. Queued(down, d, "set-as-caller") /\ type_' = [type_ EXCEPT ![d] = "Caller"]
    BY <1>2, HeadQueued DEF set_as_caller, Receives, TypeOK, NetTypeOK
  <2>2. d = c => type_[c] = "Caller"
    BY <1>0, <2>1 DEF RoleInv, RolePackets, Roles, PeersInOrder
  <2> QED BY <2>1, <2>2 DEF TypeOK, PeerTypeOK
<1>3. ASSUME NEW d \in Clients, set_as_callee(d) PROVE type_'[c] = type_[c]
  <2>1. Queued(down, d, "set-as-callee") /\ type_' = [type_ EXCEPT ![d] = "Callee"]
    BY <1>3, HeadQueued DEF set_as_callee, Receives, TypeOK, NetTypeOK
  <2>2. d = c => type_[c] = "Callee"
    BY <1>0, <2>1 DEF RoleInv, RolePackets, Roles, PeersInOrder
  <2> QED BY <2>1, <2>2 DEF TypeOK, PeerTypeOK
<1> QED BY <1>1, <1>2, <1>3

\* The type_ that OnSuccess reads without a lock never changes once it is set.
THEOREM RolesNeverChange == Spec => RoleIsKept
<1>1. TypeOK /\ RoleInv /\ [Next]_vars =>
        [\A c \in Clients : type_[c] # "Undefined" => type_'[c] = type_[c]]_vars
  BY RolesAreKept DEF RolesStay
<1> QED BY <1>1, TypeCorrect, RoleInvariant, PTL DEF Spec, RoleIsKept

------------------------------------------------------------------------------
(***************************************************************************)
(* The exchange of descriptions.  With two peers there is one thing to do  *)
(* next, and it is in one place: ready on its way to the caller, the offer *)
(* in the making, on its way to the server, on its way to the callee, the  *)
(* answer in the making, on its way to the server, on its way to the       *)
(* caller; or it was lost.                                                 *)
(***************************************************************************)
Sdps == {"offer", "answer"}

\* What has happened by a stage, and what has not.
Before(a, b, s) ==
    /\ made[a] = IF s <= 2 THEN "none" ELSE "offer"
    /\ made[b] = IF s <= 5 THEN "none" ELSE "answer"
    /\ s <= 4 => remote[b] = "none"
    /\ remote[a] = "none"

OneStage(a, b) ==
    \A s \in Stages : At(a, b, s) =>
        Before(a, b, s) /\ \A t \in Stages : At(a, b, t) => t = s

Exchange == \A a, b \in Clients : First(a) /\ Second(b) => OneStage(a, b)

\* Each queue holds an event of the exchange at most once.
Once(q, c, ev) ==
    \A i, j \in DOMAIN q[c] : q[c][i].ev = ev /\ q[c][j].ev = ev => i = j

QueuedOnce ==
    \A c \in Clients :
        /\ \A ev \in Sdps : Once(up, c, ev)
        /\ \A ev \in Sdps \cup {"ready"} : Once(down, c, ev)

\* A description is made and emitted by who has the role for it, and relayed to
\* the other.
SdpRoles ==
    \A c \in Clients :
        /\ Queued(up, c, "offer") \/ creating[c] = "offer" => type_[c] = "Caller"
        /\ Queued(up, c, "answer") \/ creating[c] = "answer" => type_[c] = "Callee"
        /\ made[c] # "none" => type_[c] # "Undefined"
        /\ Queued(down, c, "offer") => Second(c)
        /\ Queued(down, c, "answer") => First(c)

\* Nothing of the exchange happens before there are two peers.
NotBeforeTwo ==
    Len(peers) < 2 =>
        \A c \in Clients :
            /\ creating[c] = "none" /\ made[c] = "none" /\ remote[c] = "none"
            /\ \A ev \in Sdps : ~Queued(up, c, ev)
            /\ \A ev \in Sdps \cup {"ready"} : ~Queued(down, c, ev)

\* The callee's role is ahead of the offer.
Ahead(q, c) ==
    \E j \in DOMAIN q[c] :
        /\ q[c][j].ev = "set-as-callee"
        /\ \A i \in DOMAIN q[c] : q[c][i].ev = "offer" => j < i

RoleAhead ==
    \A c \in Clients :
        link[c] = "open" /\ Second(c) => type_[c] = "Callee" \/ Ahead(down, c)

\* The inductive invariant behind NothingUnexpected, beside TypeOK and RoleInv.
SdpInv == Exchange /\ QueuedOnce /\ SdpRoles /\ NotBeforeTwo /\ RoleAhead

\* No queue of r has an ev that q has not, and none twice that q has once.
NoMore(q, r, ev) ==
    \A d \in Clients :
        /\ Queued(r, d, ev) => Queued(q, d, ev)
        /\ Once(q, d, ev) => Once(r, d, ev)

LEMMA TakeNoMore ==
    ASSUME NEW P, NEW q \in [Clients -> Seq(P)], NEW c \in Clients, q[c] # <<>>, NEW ev
    PROVE  NoMore(q, Take(q, c), ev)
<1>1. ASSUME NEW d \in Clients, Once(q, d, ev) PROVE Once(Take(q, c), d, ev)
  <2> DEFINE t == Take(q, c)
  <2>1. ASSUME NEW i \in DOMAIN t[d], NEW j \in DOMAIN t[d], t[d][i].ev = ev, t[d][j].ev = ev
        PROVE  i = j
    <3>1. CASE d = c
      <4>1. /\ i + 1 \in DOMAIN q[c] /\ t[c][i] = q[c][i + 1]
            /\ j + 1 \in DOMAIN q[c] /\ t[c][j] = q[c][j + 1]
        BY <3>1, TakeAt
      <4>2. i + 1 = j + 1
        BY <1>1, <2>1, <3>1, <4>1 DEF Once
      <4>3. i \in Nat /\ j \in Nat
        BY <3>1 DEF Take
      <4> QED BY <4>2, <4>3
    <3>2. CASE d # c
      BY <1>1, <2>1, <3>2, TakeAt DEF Once
    <3> QED BY <3>1, <3>2
  <2> QED BY <2>1 DEF Once
<1> QED BY <1>1, TakeQueued DEF NoMore

\* The only ev of a queue is gone when it is taken.
LEMMA TakeGone ==
    ASSUME NEW P, NEW q \in [Clients -> Seq(P)], NEW c \in Clients, NEW ev,
           HeadIs(q, c, ev), Once(q, c, ev)
    PROVE  ~Queued(Take(q, c), c, ev)
<1> SUFFICES ASSUME NEW i \in DOMAIN Take(q, c)[c], Take(q, c)[c][i].ev = ev PROVE FALSE
  BY DEF Queued
<1>1. q[c] # <<>> /\ 1 \in DOMAIN q[c] /\ q[c][1].ev = ev
  BY HeadQueued DEF HeadIs
<1>2. i + 1 \in DOMAIN q[c] /\ q[c][i + 1].ev = ev
  BY <1>1, TakeAt
<1>3. i \in Nat \ {0}
  BY <1>1 DEF Take
<1> QED BY <1>1, <1>2, <1>3 DEF Once

LEMMA PutNoMore ==
    ASSUME NEW P, NEW q \in [Clients -> Seq(P)], NEW S, NEW p \in P, NEW ev, p.ev # ev
    PROVE  NoMore(q, Put(q, S, p), ev)
<1>1. ASSUME NEW d \in Clients, Once(q, d, ev) PROVE Once(Put(q, S, p), d, ev)
  BY <1>1, PutAt DEF Once
<1> QED BY <1>1, PutQueued DEF NoMore

\* A packet put where there is none of its kind is there once.
LEMMA PutOnce ==
    ASSUME NEW P, NEW q \in [Clients -> Seq(P)], NEW S, NEW p \in P, NEW ev,
           NEW d \in Clients, Once(q, d, ev), d \in S => ~Queued(q, d, ev)
    PROVE  Once(Put(q, S, p), d, ev)
<1> DEFINE r == Put(q, S, p)
<1> SUFFICES ASSUME NEW i \in DOMAIN r[d], NEW j \in DOMAIN r[d], r[d][i].ev = ev,
                    r[d][j].ev = ev
             PROVE  i = j
  BY DEF Once
<1>1. /\ \/ i \in DOMAIN q[d] /\ r[d][i] = q[d][i]
         \/ d \in S /\ i = Len(q[d]) + 1
      /\ \/ j \in DOMAIN q[d] /\ r[d][j] = q[d][j]
         \/ d \in S /\ j = Len(q[d]) + 1
  BY PutAt
<1> QED BY <1>1 DEF Once, Queued

LEMMA DropNoMore ==
    ASSUME NEW P, NEW q \in [Clients -> Seq(P)], NEW c \in Clients, NEW ev
    PROVE  NoMore(q, [q EXCEPT ![c] = <<>>], ev)
BY DEF NoMore, Once, Queued

LEMMA EmitNoMore ==
    ASSUME TypeOK, NEW c \in Clients, NEW p \in ToServer, emit(c, p), NEW ev, p.ev # ev
    PROVE  NoMore(up, up', ev)
<1>1. up \in [Clients -> Seq(ToServer)]
  BY DEF TypeOK, NetTypeOK
<1>2. NoMore(up, up, ev)
  BY DEF NoMore
<1> QED BY <1>1, <1>2, PutNoMore DEF emit

\* The role stays ahead until it is taken, whatever comes behind.
LEMMA TakeAhead ==
    ASSUME NEW q \in [Clients -> Seq(ToClient)], NEW c \in Clients, q[c] # <<>>,
           Head(q[c]).ev # "set-as-callee", NEW d \in Clients, Ahead(q, d)
    PROVE  Ahead(Take(q, c), d)
<1> DEFINE t == Take(q, c)
<1>1. PICK j \in DOMAIN q[d] : /\ q[d][j].ev = "set-as-callee"
                               /\ \A i \in DOMAIN q[d] : q[d][i].ev = "offer" => j < i
  BY DEF Ahead
<1>2. CASE d # c
  <2>1. t[d] = q[d]
    BY <1>2 DEF Take
  <2> QED BY <1>1, <2>1 DEF Ahead
<1>3. CASE d = c
  <2>1. j \in Nat /\ j # 1 /\ j # 0
    BY <1>1, <1>3
  <2>2. t[c] = Tail(q[c])
    BY DEF Take
  <2>3. j - 1 \in DOMAIN t[c] /\ t[c][j - 1] = q[c][j]
    BY <1>1, <1>3, <2>1, <2>2
  <2>4. ASSUME NEW i \in DOMAIN t[c], t[c][i].ev = "offer" PROVE j - 1 < i
    <3>1. i + 1 \in DOMAIN q[c] /\ t[c][i] = q[c][i + 1] /\ i \in Nat
      BY <2>2
    <3> QED BY <1>1, <1>3, <2>1, <2>4, <3>1
  <2> QED BY <1>1, <1>3, <2>3, <2>4 DEF Ahead
<1> QED BY <1>2, <1>3

LEMMA PutAhead ==
    ASSUME NEW q \in [Clients -> Seq(ToClient)], NEW S, NEW p \in ToClient,
           NEW d \in Clients, Ahead(q, d)
    PROVE  Ahead(Put(q, S, p), d)
<1> DEFINE r == Put(q, S, p)
<1>1. PICK j \in DOMAIN q[d] : /\ q[d][j].ev = "set-as-callee"
                               /\ \A i \in DOMAIN q[d] : q[d][i].ev = "offer" => j < i
  BY DEF Ahead
<1>2. j \in DOMAIN r[d] /\ r[d][j] = q[d][j] /\ j \in Nat /\ j <= Len(q[d])
  BY DEF Put
<1>3. ASSUME NEW i \in DOMAIN r[d], r[d][i].ev = "offer" PROVE j < i
  <2>1. (i \in DOMAIN q[d] /\ r[d][i] = q[d][i]) \/ i = Len(q[d]) + 1
    BY PutAt
  <2> QED BY <1>1, <1>2, <1>3, <2>1
<1> QED BY <1>1, <1>2, <1>3 DEF Ahead

\* A step that adds nothing to the exchange of descriptions.
Quiet ==
    /\ UNCHANGED <<peers, made, remote>>
    /\ \A d \in Clients : creating'[d] \in {creating[d], "none"}
    /\ \A ev \in Sdps : NoMore(up, up', ev)
    /\ \A ev \in Sdps \cup {"ready"} : NoMore(down, down', ev)

LEMMA QuietSdp ==
    ASSUME SdpInv, Quiet, RolesStay, RoleAhead'
    PROVE  SdpInv'
<1>1. ASSUME NEW d \in Clients
      PROVE  /\ (First(d)' <=> First(d)) /\ (Second(d)' <=> Second(d))
             /\ \A ev \in Sdps : Queued(up', d, ev) => Queued(up, d, ev)
             /\ \A ev \in Sdps : Once(up, d, ev) => Once(up', d, ev)
             /\ \A ev \in Sdps \cup {"ready"} : Queued(down', d, ev) => Queued(down, d, ev)
             /\ \A ev \in Sdps \cup {"ready"} : Once(down, d, ev) => Once(down', d, ev)
             /\ creating'[d] \in {creating[d], "none"}
             /\ made'[d] = made[d] /\ remote'[d] = remote[d]
             /\ type_[d] # "Undefined" => type_'[d] = type_[d]
  BY DEF Quiet, RolesStay, NoMore, First, Second
<1>2. Exchange'
  <2> SUFFICES ASSUME NEW a \in Clients, NEW b \in Clients, First(a)', Second(b)'
               PROVE  OneStage(a, b)'
    BY DEF Exchange
  <2>1. \A s \in Stages : At(a, b, s)' => At(a, b, s)
    BY <1>1 DEF At, Sdps
  <2>2. \A s \in Stages : Before(a, b, s)' <=> Before(a, b, s)
    BY <1>1 DEF Before
  <2>3. OneStage(a, b)
    BY <1>1 DEF SdpInv, Exchange
  <2> QED BY <2>1, <2>2, <2>3 DEF OneStage
<1>3. QueuedOnce'
  BY <1>1 DEF SdpInv, QueuedOnce, Once
<1>4. SdpRoles'
  BY <1>1 DEF SdpInv, SdpRoles, Sdps, Queued
<1>5. NotBeforeTwo'
  BY <1>1 DEF Quiet, SdpInv, NotBeforeTwo, Queued
<1> QED BY <1>2, <1>3, <1>4, <1>5 DEF SdpInv

\* One step of the exchange, from stage s to the next.
LEMMA MoveExchange ==
    ASSUME TypeOK, RoleInv, SdpInv, UNCHANGED peers,
           NEW a \in Clients, NEW b \in Clients, First(a), Second(b),
           NEW s \in Stages, At(a, b, s), ~At(a, b, s)',
           \A t \in Stages : At(a, b, t)' => At(a, b, t) \/ t = s + 1,
           s + 1 \in Stages => Before(a, b, s + 1)'
    PROVE  Exchange' /\ NotBeforeTwo'
<1>1. ASSUME NEW x \in Clients, NEW y \in Clients, First(x)', Second(y)'
      PROVE  OneStage(x, y)'
  <2>1. x = a /\ y = b
    BY <1>1 DEF First, Second
  <2>2. OneStage(a, b)
    BY DEF SdpInv, Exchange
  <2>3. \A t \in Stages : At(a, b, t)' => t = s + 1
    BY <2>2 DEF OneStage
  <2>4. OneStage(a, b)'
    BY <2>3 DEF OneStage
  <2> QED BY <2>1, <2>4
<1>2. Exchange'
  BY <1>1 DEF Exchange
<1>3. NotBeforeTwo'
  BY DEF NotBeforeTwo, Second, TypeOK, ServerTypeOK
<1> QED BY <1>2, <1>3

LEMMA AheadKept ==
    ASSUME RoleAhead, RolesStay, UNCHANGED peers,
           \A d \in Clients : link'[d] = "open" /\ Second(d) => link[d] = "open",
           \A d \in Clients : Ahead(down, d) =>
                \/ Ahead(down', d)
                \/ link'[d] # "open"
                \/ Second(d) => type_'[d] = "Callee"
    PROVE  RoleAhead'
<1> SUFFICES ASSUME NEW d \in Clients, link'[d] = "open", Second(d)'
             PROVE  type_'[d] = "Callee" \/ Ahead(down', d)
  BY DEF RoleAhead, Ahead
<1>1. Second(d) /\ link[d] = "open"
  BY DEF Second
<1>2. type_[d] = "Callee" \/ Ahead(down, d)
  BY <1>1 DEF RoleAhead
<1> QED BY <1>1, <1>2 DEF RolesStay

\* The first peer is not the second, and who has a role is at its place.
LEMMA Places ==
    ASSUME TypeOK, RoleInv
    PROVE  /\ \A c \in Clients : ~(First(c) /\ Second(c))
           /\ \A c \in Clients : type_[c] = "Caller" => First(c)
           /\ \A c \in Clients : type_[c] = "Callee" => Second(c)
           /\ \A c \in Clients : type_[c] # "Undefined" /\ First(c) => type_[c] = "Caller"
           /\ Len(peers) >= 2 => \E a, b \in Clients : First(a) /\ Second(b)
BY DEF TypeOK, ServerTypeOK, PeerTypeOK, PeerType, RoleInv, PeersInOrder, Roles, First, Second

\* get_counter_sid gives each peer the other.
LEMMA CounterOfPeer ==
    ASSUME TypeOK, RoleInv, NEW a \in Clients, NEW b \in Clients, First(a), Second(b),
           NEW c \in Clients, CounterIndexes(c) # {}
    PROVE  (c = a => Counter(c) = b) /\ (c = b => Counter(c) = a)
<1>1. Counter(c) \in Clients /\ IsPeer(Counter(c)) /\ Counter(c) # c
  BY CounterIsOther DEF TypeOK
<1>2. Len(peers) = 2 /\ peers[1] = a /\ peers[2] = b /\ DOMAIN peers = 1 .. Len(peers)
  <2>1. peers \in Seq(Clients) /\ Len(peers) \in Nat
    BY DEF TypeOK, ServerTypeOK
  <2> QED BY <2>1 DEF RoleInv, PeersInOrder, First, Second
<1> QED BY <1>1, <1>2 DEF IsPeer, TypeOK, ServerTypeOK

(* The steps that add nothing *)

LEMMA ServerQuiet ==
    ASSUME TypeOK, RoleInv, SdpInv, NEW c \in Clients, RolesStay,
           Refuse(c) \/ CallReturns(c), UNCHANGED peerVars
    PROVE  SdpInv'
<1>1. /\ up[c] # <<>> /\ up' = Take(up, c)
      /\ up \in [Clients -> Seq(ToServer)] /\ down \in [Clients -> Seq(ToClient)]
      /\ UNCHANGED <<link, peers, made, remote, creating>>
  BY DEF Refuse, CallReturns, HeadIs, TypeOK, NetTypeOK, serverVars, peerVars
<1>2. \/ down' = down
      \/ \E S, p : /\ p \in ToClient /\ down' = Put(down, S, p)
                   /\ p.ev \notin Sdps \cup {"ready"}
  <2>1. Notice("disconnect") \in ToClient /\ Notice("disconnect").ev = "disconnect"
    BY PacketType DEF Notice
  <2>2. CallReturns(c) => Head(up[c]) \in ToClient /\ Head(up[c]).ev = "ack"
    <3>1. Head(up[c]) \in ToServer
      BY <1>1, TakeType
    <3> QED BY <3>1, HeadAck DEF CallReturns, HeadIs, ToClient, AckPacket
  <2> QED BY <2>1, <2>2 DEF Refuse, CallReturns, Sdps
<1>3. \A ev \in Sdps : NoMore(up, up', ev)
  BY <1>1, TakeNoMore
<1>4. \A ev \in Sdps \cup {"ready"} : NoMore(down, down', ev)
  <2>1. CASE down' = down
    BY <2>1 DEF NoMore
  <2>2. CASE down' # down
    BY <1>1, <1>2, <2>2, PutNoMore
  <2> QED BY <2>1, <2>2
<1>5. RoleAhead'
  <2>1. \A d \in Clients : Ahead(down, d) => Ahead(down', d)
    BY <1>1, <1>2, PutAhead
  <2> QED BY <1>1, <2>1, AheadKept DEF SdpInv
<1> QED BY <1>1, <1>3, <1>4, <1>5, QuietSdp DEF Quiet

LEMMA EnvironmentQuiet ==
    ASSUME TypeOK, RoleInv, SdpInv, NEW c \in Clients, RolesStay, Environment(c)
    PROVE  SdpInv'
<1>1. /\ up \in [Clients -> Seq(ToServer)] /\ down \in [Clients -> Seq(ToClient)]
      /\ link \in [Clients -> LinkState]
      /\ UNCHANGED <<peers, made, remote, type_>>
  BY DEF TypeOK, NetTypeOK, serverVars, peerVars, Environment, on_connected, on_fail,
         on_close, OnFailure, Disconnect
<1>2. \A d \in Clients : creating'[d] \in {creating[d], "none"}
  BY DEF TypeOK, PeerTypeOK, peerVars, Environment, on_connected, on_fail, on_close,
         OnFailure, Disconnect
<1>3. \/ up' = up \/ up' = [up EXCEPT ![c] = <<>>]
      \/ up' = Put(up, {c}, Notice("connect"))
  BY DEF Environment, on_connected, on_fail, on_close, OnFailure, Disconnect, netVars
<1>4. \A ev \in Sdps : NoMore(up, up', ev)
  <2>1. Notice("connect") \in ToServer /\ Notice("connect").ev = "connect"
    BY PacketType DEF Notice
  <2> SUFFICES ASSUME NEW ev \in Sdps PROVE NoMore(up, up', ev)
    OBVIOUS
  <2>2. CASE up' = up
    BY <2>2 DEF NoMore
  <2>3. CASE up' = [up EXCEPT ![c] = <<>>]
    <3>1. NoMore(up, [up EXCEPT ![c] = <<>>], ev)
      BY <1>1, DropNoMore
    <3> QED BY <2>3, <3>1
  <2>4. CASE up' = Put(up, {c}, Notice("connect"))
    BY <1>1, <2>1, <2>4, PutNoMore DEF Sdps
  <2> QED BY <1>3, <2>2, <2>3, <2>4
<1>5. \/ down' = down
      \/ down' = [down EXCEPT ![c] = <<>>] /\ link' = [link EXCEPT ![c] = "closed"]
  BY DEF Environment, on_connected, on_fail, on_close, OnFailure, Disconnect, netVars
<1>6. \A ev \in Sdps \cup {"ready"} : NoMore(down, down', ev)
  <2> SUFFICES ASSUME NEW ev \in Sdps \cup {"ready"} PROVE NoMore(down, down', ev)
    OBVIOUS
  <2>1. CASE down' = down
    BY <2>1 DEF NoMore
  <2>2. CASE down' = [down EXCEPT ![c] = <<>>]
    <3>1. NoMore(down, [down EXCEPT ![c] = <<>>], ev)
      BY <1>1, DropNoMore
    <3> QED BY <2>2, <3>1
  <2> QED BY <1>5, <2>1, <2>2
<1>7. \A d \in Clients : link'[d] = "open" /\ Second(d) => link[d] = "open"
  <2>1. link' = link \/ link' = [link EXCEPT ![c] = "closed"]
        \/ (link[c] = "idle" /\ link' = [link EXCEPT ![c] = "open"])
    BY DEF Environment, on_connected, on_fail, on_close, OnFailure, Disconnect, netVars
  <2>2. \A d \in Clients : Second(d) => IsPeer(d)
    BY DEF Second, IsPeer, TypeOK, ServerTypeOK
  <2>3. link[c] = "idle" => ~IsPeer(c)
    BY DEF RoleInv, ConnectsOnce
  <2> QED BY <1>1, <2>1, <2>2, <2>3
<1>8. RoleAhead'
  <2>1. \A d \in Clients : Ahead(down, d) => Ahead(down', d) \/ link'[d] # "open"
    BY <1>1, <1>5 DEF Ahead
  <2> QED BY <1>1, <1>7, <2>1, AheadKept DEF SdpInv
<1> QED BY <1>1, <1>2, <1>4, <1>6, <1>8, QuietSdp DEF Quiet

LEMMA IceQuiet ==
    ASSUME TypeOK, RoleInv, SdpInv, NEW c \in Clients, RolesStay, OnIceCandidate(c),
           UNCHANGED serverVars
    PROVE  SdpInv'
<1>1. UNCHANGED <<link, down, peers, made, remote, creating, type_>>
  BY DEF OnIceCandidate, serverVars
<1>2. \A ev \in Sdps : NoMore(up, up', ev)
  <2> DEFINE p == Emit(Ice(c, gathered[c] + 1))
  <2>1. gathered[c] + 1 \in 0 .. MaxIce
    BY SignalingAssumption DEF OnIceCandidate, TypeOK, PeerTypeOK
  <2>2. p \in ToServer /\ p.ev = "ice" /\ emit(c, p)
    BY <2>1, PacketType DEF OnIceCandidate, Emit, Ice
  <2> QED BY <2>2, EmitNoMore DEF Sdps
<1>3. \A ev \in Sdps \cup {"ready"} : NoMore(down, down', ev)
  BY <1>1 DEF NoMore
<1>4. RoleAhead'
  BY <1>1, AheadKept DEF SdpInv
<1> QED BY <1>1, <1>2, <1>3, <1>4, QuietSdp DEF Quiet

\* What a listener does to the queue it reads.
LEMMA ListenerTakes ==
    ASSUME TypeOK, NEW c \in Clients, Listener(c)
    PROVE  /\ link[c] = "open" /\ down[c] # <<>> /\ down' = Take(down, c)
           /\ UNCHANGED <<peers, made>>
           /\ down \in [Clients -> Seq(ToClient)]
           /\ \A ev \in Sdps \cup {"ready"} : NoMore(down, down', ev)
           /\ \A d \in Clients : link'[d] = "open" => link[d] = "open"
<1>1. /\ link[c] = "open" /\ down[c] # <<>> /\ down' = Take(down, c)
      /\ UNCHANGED <<peers, made>>
  BY DEF Listener, Receives, HeadIs, set_as_caller, set_as_callee, ready,
         offer, answer, ice, ack, SessionEnded, peerVars, serverVars
<1>2. link' = link \/ \E l \in {"detached", "closed"} : link' = [link EXCEPT ![c] = l]
  BY DEF Listener, set_as_caller, set_as_callee, ready, offer, answer, ice, ack,
         SessionEnded
<1>3. down \in [Clients -> Seq(ToClient)] /\ link \in [Clients -> LinkState]
  BY DEF TypeOK, NetTypeOK
<1>4. \A d \in Clients : link'[d] = "open" => link[d] = "open"
  BY <1>2, <1>3
<1> QED BY <1>1, <1>3, <1>4, TakeNoMore

LEMMA ListenerAhead ==
    ASSUME TypeOK, RoleInv, SdpInv, NEW c \in Clients, RolesStay, Listener(c)
    PROVE  RoleAhead'
<1>1. CASE set_as_callee(c)
  <2>1. type_'[c] = "Callee"
    BY <1>1 DEF set_as_callee, TypeOK, PeerTypeOK
  <2>2. \A d \in Clients : d # c => down'[d] = down[d]
    BY ListenerTakes DEF Take, TypeOK, NetTypeOK
  <2>3. \A d \in Clients : Ahead(down, d) => Ahead(down', d) \/ d = c
    BY <2>2 DEF Ahead
  <2> QED BY <2>1, <2>3, AheadKept, ListenerTakes DEF SdpInv
<1>2. CASE ~set_as_callee(c)
  <2>1. Head(down[c]).ev # "set-as-callee"
    BY <1>2 DEF Listener, Receives, HeadIs, set_as_caller, ready,
         offer, answer, ice, ack, SessionEnded
  <2>2. \A d \in Clients : Ahead(down, d) => Ahead(down', d)
    BY <2>1, TakeAhead, ListenerTakes
  <2> QED BY <2>2, AheadKept, ListenerTakes DEF SdpInv
<1> QED BY <1>1, <1>2

\* A listener sends the server nothing but acknowledgements.
LEMMA ListenerUp ==
    ASSUME TypeOK, NEW c \in Clients, Listener(c)
    PROVE  up' = up \/ \E p \in ToServer : up' = Put(up, {c}, p) /\ p.ev = "ack"
<1>1. ASSUME NEW ev \in {"offer", "answer", "ice"}, Receives(c, ev),
             NEW ok \in BOOLEAN, emit(c, Ack(Head(down[c]).call, ok))
      PROVE  up' = up \/ \E p \in ToServer : up' = Put(up, {c}, p) /\ p.ev = "ack"
  <2>1. Head(down[c]) \in ToClient /\ Head(down[c]).ev = ev
    BY <1>1 DEF Receives, HeadIs, TypeOK, NetTypeOK
  <2>2. Head(down[c]).call \in Call
    BY <2>1, HeadCall
  <2>3. Ack(Head(down[c]).call, ok) \in ToServer /\ Ack(Head(down[c]).call, ok).ev = "ack"
    BY <2>2, PacketType DEF Ack
  <2> QED BY <1>1, <2>3 DEF emit
<1>2. CASE offer(c)
  BY <1>1, <1>2 DEF offer, receive_offer_create_answer, ParseFails, SetRemoteFails, Unexpected
<1>3. CASE answer(c)
  BY <1>1, <1>3 DEF answer, receive_answer, ParseFails, SetRemoteFails, Unexpected
<1>4. CASE ice(c)
  BY <1>1, <1>4 DEF ice, add_ice_candidate
<1> QED BY <1>2, <1>3, <1>4
           DEF Listener, set_as_caller, set_as_callee, ready, ack, SessionEnded

LEMMA ListenerAdds ==
    ASSUME TypeOK, NEW c \in Clients, Listener(c)
    PROVE  \A e \in Sdps : NoMore(up, up', e)
<1>1. up \in [Clients -> Seq(ToServer)]
  BY DEF TypeOK, NetTypeOK
<1>2. ASSUME NEW e \in Sdps PROVE NoMore(up, up', e)
  <2>1. CASE up' = up
    BY <2>1 DEF NoMore
  <2>2. ASSUME NEW p \in ToServer, up' = Put(up, {c}, p), p.ev = "ack"
        PROVE  NoMore(up, up', e)
    <3>1. p.ev # e
      BY <2>2 DEF Sdps
    <3> QED BY <1>1, <2>2, <3>1, PutNoMore
  <2> QED BY <2>1, <2>2, ListenerUp
<1> QED BY <1>2

LEMMA ListenerQuiet ==
    ASSUME TypeOK, RoleInv, SdpInv, NEW c \in Clients, RolesStay, Listener(c),
           UNCHANGED remote, \A d \in Clients : creating'[d] \in {creating[d], "none"}
    PROVE  SdpInv'
BY ListenerAdds, ListenerTakes, ListenerAhead, QuietSdp DEF Quiet

(* The steps of the exchange *)

\* What the invariants say of the queues, spelled out.
LEMMA OneAtATime ==
    ASSUME SdpInv, NEW a \in Clients, NEW b \in Clients, First(a), Second(b)
    PROVE  /\ \A s, t \in Stages : At(a, b, s) /\ At(a, b, t) => s = t
           /\ \A s \in Stages : At(a, b, s) => Before(a, b, s)
BY DEF SdpInv, Exchange, OneStage

\* ready reaches the caller, who starts the offer.
LEMMA ReadySdp ==
    ASSUME TypeOK, RoleInv, SdpInv, NEW a \in Clients, RolesStay,
           ready(a), UNCHANGED serverVars
    PROVE  SdpInv'
<1>1. CASE type_[a] # "Caller"
  <2>1. UNCHANGED <<remote, creating>>
    BY <1>1 DEF ready
  <2> QED BY <2>1, ListenerQuiet DEF Listener
<1>2. CASE type_[a] = "Caller"
  <2>1. Queued(down, a, "ready") /\ Once(down, a, "ready")
    BY HeadQueued DEF ready, Receives, TypeOK, NetTypeOK, SdpInv, QueuedOnce
  <2>2. Len(peers) >= 2 /\ First(a)
    BY <1>2, <2>1, Places DEF SdpInv, NotBeforeTwo, TypeOK, ServerTypeOK
  <2>3. PICK b \in Clients : Second(b)
    BY <2>2, Places
  <2>4. a # b
    BY <2>2, <2>3, Places
  <2>5. /\ up' = up /\ UNCHANGED <<made, remote, type_, peers>>
        /\ \A d \in Clients : creating'[d] = IF d = a THEN "offer" ELSE creating[d]
        /\ \A ev \in Sdps \cup {"ready"} : NoMore(down, down', ev)
        /\ RoleAhead'
    BY <1>2, ListenerTakes, ListenerAhead
       DEF ready, create_offer, TypeOK, PeerTypeOK, serverVars, Listener
  <2>6. ~Queued(down', a, "ready")
    BY <2>1, TakeGone DEF ready, Receives, TypeOK, NetTypeOK
  <2>7. At(a, b, 1) /\ ~At(a, b, 1)'
    BY <2>1, <2>6 DEF At
  <2>8. \A t \in Stages : At(a, b, t)' => At(a, b, t) \/ t = 2
    BY <2>4, <2>5 DEF At, Stages, NoMore, Sdps
  <2>9. Before(a, b, 1)
    BY <2>2, <2>3, <2>7, OneAtATime DEF Stages
  <2>10. Before(a, b, 2)'
    BY <2>5, <2>9 DEF Before
  <2>11. Exchange' /\ NotBeforeTwo'
    BY <2>2, <2>3, <2>5, <2>7, <2>8, <2>10, MoveExchange DEF Stages
  <2>12. QueuedOnce'
    BY <2>5 DEF SdpInv, QueuedOnce, NoMore, Once
  <2>13. SdpRoles'
    BY <1>2, <2>5 DEF SdpInv, SdpRoles, NoMore, Sdps, Queued, First, Second
  <2> QED BY <2>5, <2>11, <2>12, <2>13 DEF SdpInv
<1> QED BY <1>1, <1>2

\* The offer reaches the callee, who knows its role, and the answer is started.
LEMMA OfferSdp ==
    ASSUME TypeOK, RoleInv, SdpInv, NEW b \in Clients, RolesStay,
           offer(b), UNCHANGED serverVars
    PROVE  SdpInv'
<1>1. /\ Queued(down, b, "offer") /\ Once(down, b, "offer")
      /\ 1 \in DOMAIN down[b] /\ down[b][1].ev = "offer" /\ link[b] = "open"
  BY HeadQueued DEF offer, Receives, TypeOK, NetTypeOK, SdpInv, QueuedOnce, Sdps
<1>2. Second(b) /\ Len(peers) >= 2
  BY <1>1 DEF SdpInv, SdpRoles, Second
<1>3. PICK a \in Clients : First(a) /\ a # b
  BY <1>2, Places
<1>4. type_[b] = "Callee"
  <2>1. ~Ahead(down, b)
    <3>1. DOMAIN down[b] \subseteq Nat \ {0}
      BY DEF TypeOK, NetTypeOK
    <3> QED BY <1>1, <3>1 DEF Ahead
  <2> QED BY <1>1, <1>2, <2>1 DEF SdpInv, RoleAhead
<1>5. CASE UNCHANGED <<remote, creating>>
  BY <1>5, ListenerQuiet DEF Listener
<1>6. CASE ~UNCHANGED <<remote, creating>>
  <2>1. /\ UNCHANGED <<made, type_, peers>>
        /\ \A d \in Clients : creating'[d] = IF d = b THEN "answer" ELSE creating[d]
        /\ \A d \in Clients : d # b => remote'[d] = remote[d]
        /\ \A ev \in Sdps \cup {"ready"} : NoMore(down, down', ev)
        /\ RoleAhead'
    BY <1>4, <1>6, ListenerTakes, ListenerAhead
       DEF offer, receive_offer_create_answer, ParseFails, SetRemoteFails,
           TypeOK, PeerTypeOK, serverVars, Listener
  <2>2. \A ev \in Sdps : NoMore(up, up', ev)
    BY ListenerAdds DEF Listener
  <2>3. ~Queued(down', b, "offer")
    BY <1>1, TakeGone DEF offer, Receives, TypeOK, NetTypeOK
  <2>4. At(a, b, 4) /\ ~At(a, b, 4)'
    BY <1>1, <2>3 DEF At
  <2>5. \A t \in Stages : At(a, b, t)' => At(a, b, t) \/ t = 5
    BY <1>3, <2>1, <2>2 DEF At, Stages, NoMore, Sdps
  <2>6. Before(a, b, 4)
    BY <1>2, <1>3, <2>4, OneAtATime DEF Stages
  <2>7. Before(a, b, 5)'
    BY <1>3, <2>1, <2>6 DEF Before
  <2>8. Exchange' /\ NotBeforeTwo'
    BY <1>2, <1>3, <2>1, <2>4, <2>5, <2>7, MoveExchange DEF Stages
  <2>9. QueuedOnce'
    BY <2>1, <2>2 DEF SdpInv, QueuedOnce, NoMore, Once
  <2>10. SdpRoles'
    BY <1>4, <2>1, <2>2 DEF SdpInv, SdpRoles, NoMore, Sdps, Queued, First, Second
  <2> QED BY <2>1, <2>8, <2>9, <2>10 DEF SdpInv
<1> QED BY <1>5, <1>6

\* The answer reaches the caller, which ends the exchange.
LEMMA AnswerSdp ==
    ASSUME TypeOK, RoleInv, SdpInv, NEW a \in Clients, RolesStay,
           answer(a), UNCHANGED serverVars
    PROVE  SdpInv'
<1>1. Queued(down, a, "answer") /\ Once(down, a, "answer")
  BY HeadQueued DEF answer, Receives, TypeOK, NetTypeOK, SdpInv, QueuedOnce, Sdps
<1>2. First(a) /\ Len(peers) >= 2
  BY <1>1 DEF SdpInv, SdpRoles, NotBeforeTwo, Sdps, TypeOK, ServerTypeOK
<1>3. PICK b \in Clients : Second(b) /\ a # b
  BY <1>2, Places
<1>4. UNCHANGED creating
  BY DEF answer, receive_answer, ParseFails, SetRemoteFails, Unexpected
<1>5. /\ UNCHANGED <<made, type_, peers>>
      /\ \A ev \in Sdps \cup {"ready"} : NoMore(down, down', ev)
      /\ RoleAhead'
  BY ListenerTakes, ListenerAhead DEF answer, serverVars, Listener
<1>6. \A ev \in Sdps : NoMore(up, up', ev)
  BY ListenerAdds DEF Listener
<1>7. ~Queued(down', a, "answer")
  BY <1>1, TakeGone DEF answer, Receives, TypeOK, NetTypeOK
<1>8. At(a, b, 7) /\ ~At(a, b, 7)'
  BY <1>1, <1>7 DEF At
<1>9. \A t \in Stages : At(a, b, t)' => At(a, b, t)
  BY <1>4, <1>5, <1>6 DEF At, Stages, NoMore, Sdps
<1>10. Exchange' /\ NotBeforeTwo'
  BY <1>2, <1>3, <1>5, <1>8, <1>9, MoveExchange DEF Stages
<1>11. QueuedOnce'
  BY <1>5, <1>6 DEF SdpInv, QueuedOnce, NoMore, Once
<1>12. SdpRoles'
  BY <1>4, <1>5, <1>6 DEF SdpInv, SdpRoles, NoMore, Sdps, Queued, First, Second
<1> QED BY <1>5, <1>10, <1>11, <1>12 DEF SdpInv

\* A description that is ready is emitted under its own name.
LEMMA EmitSdp ==
    ASSUME TypeOK, RoleInv, SdpInv, NEW c \in Clients, NEW ev \in Sdps, creating[c] = ev,
           ev = "offer" <=> type_[c] = "Caller",
           OnSuccess(c), ~Queued(up, c, ev)
    PROVE  /\ \A e \in Sdps \ {ev} : NoMore(up, up', e)
           /\ \A d \in Clients : Queued(up', d, ev) => Queued(up, d, ev) \/ d = c
           /\ \A d \in Clients : Once(up, d, ev) => Once(up', d, ev)
<1> DEFINE p == Emit(Sdp(SdpEvent(c), c))
<1>1. p \in ToServer /\ p.ev = ev /\ emit(c, p)
  BY PacketType DEF OnSuccess, SdpEvent, Sdps, Emit, Sdp
<1>2. up \in [Clients -> Seq(ToServer)]
  BY DEF TypeOK, NetTypeOK
<1>3. up' = up \/ up' = Put(up, {c}, p)
  BY <1>1 DEF emit
<1>4. ASSUME NEW e \in Sdps \ {ev} PROVE NoMore(up, up', e)
  BY <1>1, <1>4, EmitNoMore
<1>5. ASSUME NEW d \in Clients, Queued(up', d, ev) PROVE Queued(up, d, ev) \/ d = c
  BY <1>1, <1>2, <1>3, <1>5, PutQueued
<1>6. ASSUME NEW d \in Clients, Once(up, d, ev) PROVE Once(up', d, ev)
  <2>1. Once(Put(up, {c}, p), d, ev)
    BY <1>1, <1>2, <1>6, PutOnce
  <2> QED BY <1>3, <1>6, <2>1
<1> QED BY <1>4, <1>5, <1>6

LEMMA OnSuccessSdp ==
    ASSUME TypeOK, RoleInv, SdpInv, NEW c \in Clients, RolesStay,
           OnSuccess(c), UNCHANGED serverVars
    PROVE  SdpInv'
<1>1. PICK ev \in Sdps :
          /\ creating[c] = ev
          /\ ev = "offer" => type_[c] = "Caller"
          /\ ev = "answer" => type_[c] = "Callee"
  BY DEF OnSuccess, SdpInv, SdpRoles, Sdps
<1>2. /\ Len(peers) >= 2
      /\ ev = "offer" => First(c)
      /\ ev = "answer" => Second(c)
  BY <1>1, Places DEF SdpInv, NotBeforeTwo, Sdps, TypeOK, ServerTypeOK
<1>3. PICK a \in Clients, b \in Clients :
          /\ First(a) /\ Second(b) /\ a # b
          /\ c = IF ev = "offer" THEN a ELSE b
  <2>1. PICK a \in Clients, b \in Clients : First(a) /\ Second(b)
    BY <1>2, Places
  <2>2. a # b
    BY <2>1, Places
  <2>3. c = IF ev = "offer" THEN a ELSE b
    BY <1>1, <1>2, <2>1 DEF First, Second, Sdps
  <2> QED BY <2>1, <2>2, <2>3
<1> DEFINE s == IF ev = "offer" THEN 2 ELSE 5
<1>4. At(a, b, s)
  BY <1>1, <1>3 DEF At, Sdps
<1>5. /\ \A t \in Stages : At(a, b, t) => t = s
      /\ Before(a, b, s)
  BY <1>3, <1>4, OneAtATime DEF Stages
<1>6. ~Queued(up, c, ev)
  BY <1>1, <1>3, <1>5 DEF At, Stages, Sdps
<1>7. /\ \A e \in Sdps \ {ev} : NoMore(up, up', e)
      /\ \A d \in Clients : Queued(up', d, ev) => Queued(up, d, ev) \/ d = c
      /\ \A d \in Clients : Once(up, d, ev) => Once(up', d, ev)
  BY <1>1, <1>6, EmitSdp DEF Sdps
<1>8. /\ UNCHANGED <<link, down, remote, type_, peers>>
      /\ \A d \in Clients : creating'[d] = IF d = c THEN "none" ELSE creating[d]
      /\ \A d \in Clients : made'[d] = IF d = c THEN ev ELSE made[d]
  BY <1>1 DEF OnSuccess, TypeOK, PeerTypeOK, serverVars
<1>9. ~At(a, b, s)'
  <2>1. creating'[c] = "none"
    BY <1>8
  <2> QED BY <1>3, <2>1 DEF At
<1>10. \A t \in Stages : At(a, b, t)' => At(a, b, t) \/ t = s + 1
  BY <1>1, <1>3, <1>7, <1>8 DEF At, Stages, NoMore, Sdps
<1>11. Before(a, b, s + 1)'
  BY <1>1, <1>3, <1>5, <1>8 DEF Before, Sdps
<1>12. Exchange' /\ NotBeforeTwo'
  <2>1. s \in Stages
    BY DEF Stages
  <2>2. UNCHANGED peers
    BY <1>8
  <2> HIDE DEF s
  <2> QED BY <1>3, <1>4, <1>9, <1>10, <1>11, <2>1, <2>2, MoveExchange
<1>13. QueuedOnce'
  BY <1>1, <1>7, <1>8 DEF SdpInv, QueuedOnce, NoMore, Once
<1>14. SdpRoles'
  BY <1>1, <1>7, <1>8 DEF SdpInv, SdpRoles, NoMore, Sdps, Queued, First, Second
<1>15. RoleAhead'
  BY <1>8, AheadKept DEF SdpInv
<1> QED BY <1>12, <1>13, <1>14, <1>15 DEF SdpInv

\* The server relays a description, or a candidate, to the other peer.
LEMMA RelaySdp ==
    ASSUME TypeOK, RoleInv, SdpInv, NEW c \in Clients, RolesStay,
           Relay(c), UNCHANGED peerVars
    PROVE  SdpInv'
<1>1. /\ up \in [Clients -> Seq(ToServer)] /\ down \in [Clients -> Seq(ToClient)]
      /\ up[c] # <<>> /\ up' = Take(up, c)
      /\ UNCHANGED <<link, peers, made, remote, creating, type_>>
  BY DEF Relay, TypeOK, NetTypeOK, peerVars
<1>2. PICK k \in Call, ev \in Sdps \cup {"ice"} :
          Head(up[c]) = Emit(k) /\ Head(up[c]).call = k /\ k.ev = ev /\ Head(up[c]).ev = ev
  BY DEF Relay, CallPacket, Emit, Call, Sdps
<1>3. Emit(k) \in ToClient /\ Emit(k).ev = ev
  BY <1>2, PacketType
<1>4. \A e \in Sdps : NoMore(up, up', e)
  BY <1>1, TakeNoMore
<1>5. CASE CounterIndexes(c) = {} \/ ev = "ice"
  <2>1. down' = down \/ \E S : down' = Put(down, S, Emit(k))
    BY <1>2, <1>5 DEF Relay
  <2>2. ASSUME NEW e \in Sdps \cup {"ready"} PROVE NoMore(down, down', e)
    <3>1. CASE down' = down
      BY <3>1 DEF NoMore
    <3>2. CASE down' # down
      <4>1. Emit(k).ev # e
        BY <1>2, <1>3, <1>5, <3>2 DEF Sdps, Relay
      <4> QED BY <1>1, <1>3, <2>1, <3>2, <4>1, PutNoMore
    <3> QED BY <3>1, <3>2
  <2>3. RoleAhead'
    <3>1. \A d \in Clients : Ahead(down, d) => Ahead(down', d)
      BY <1>1, <1>3, <2>1, PutAhead
    <3> QED BY <1>1, <3>1, AheadKept DEF SdpInv
  <2> QED BY <1>1, <1>4, <2>2, <2>3, QuietSdp DEF Quiet
<1>6. CASE CounterIndexes(c) # {} /\ ev \in Sdps
  <2>1. Queued(up, c, ev) /\ HeadIs(up, c, ev)
    BY <1>1, <1>2, HeadQueued DEF HeadIs
  <2>2. /\ ev = "offer" => type_[c] = "Caller"
        /\ ev = "answer" => type_[c] = "Callee"
        /\ Len(peers) >= 2
    BY <1>6, <2>1 DEF SdpInv, SdpRoles, NotBeforeTwo, TypeOK, ServerTypeOK
  <2>3. PICK a \in Clients, b \in Clients : First(a) /\ Second(b) /\ a # b
    BY <2>2, Places
  <2> DEFINE s == IF ev = "offer" THEN 3 ELSE 6
             o == IF ev = "offer" THEN b ELSE a
  <2>4. c = (IF ev = "offer" THEN a ELSE b) /\ Counter(c) = o
    <3>1. c = IF ev = "offer" THEN a ELSE b
      BY <1>6, <2>2, <2>3, Places DEF Sdps, First, Second
    <3> QED BY <1>6, <2>3, <3>1, CounterOfPeer
  <2>5. down' = Put(down, {o} \cap online, Emit(k))
    BY <1>2, <1>6, <2>4 DEF Relay
  <2>6. At(a, b, s)
    BY <1>6, <2>1, <2>4 DEF At, Sdps
  <2>7. s \in Stages
    BY DEF Stages
  <2>8. (\A t \in Stages : At(a, b, t) => t = s) /\ Before(a, b, s)
    BY <2>3, <2>6, <2>7, OneAtATime
  <2>9. ~Queued(down, o, ev)
    BY <1>6, <2>8 DEF At, Stages, Sdps
  <2>10. ~Queued(up', c, ev)
    BY <1>1, <1>6, <2>1, TakeGone DEF SdpInv, QueuedOnce
  <2>11. ASSUME NEW e \in (Sdps \cup {"ready"}) \ {ev} PROVE NoMore(down, down', e)
    BY <1>1, <1>3, <2>5, <2>11, PutNoMore
  <2>12. ASSUME NEW d \in Clients, Queued(down', d, ev) PROVE Queued(down, d, ev) \/ d = o
    <3>1. Queued(Put(down, {o} \cap online, Emit(k)), d, ev)
      BY <2>5, <2>12
    <3>2. Queued(down, d, ev) \/ (d \in {o} \cap online /\ Emit(k).ev = ev)
      <4> HIDE DEF o
      <4> QED BY <1>1, <1>3, <3>1, PutQueued
    <3> QED BY <3>2
  <2>13. ASSUME NEW d \in Clients, Once(down, d, ev) PROVE Once(down', d, ev)
    <3>1. Once(Put(down, {o} \cap online, Emit(k)), d, ev)
      BY <1>1, <1>3, <2>9, <2>13, PutOnce
    <3> QED BY <2>5, <3>1
  <2>14. ~At(a, b, s)'
    BY <1>6, <2>4, <2>10 DEF At, Sdps
  <2>15. \A t \in Stages : At(a, b, t)' => At(a, b, t) \/ t = s + 1
    BY <1>1, <1>4, <1>6, <2>3, <2>11, <2>12 DEF At, Stages, NoMore, Sdps
  <2>16. Before(a, b, s + 1)'
    BY <1>1, <1>6, <2>8 DEF Before
  <2>17. Exchange' /\ NotBeforeTwo'
    <3> HIDE DEF s
    <3> QED BY <1>1, <2>3, <2>6, <2>7, <2>14, <2>15, <2>16, MoveExchange
  <2> HIDE DEF s
  <2>18. ASSUME NEW d \in Clients
         PROVE  /\ \A e \in Sdps : Once(up, d, e) => Once(up', d, e)
                /\ \A e \in Sdps \cup {"ready"} : Once(down, d, e) => Once(down', d, e)
                /\ \A e \in Sdps : Queued(up', d, e) => Queued(up, d, e)
                /\ Queued(down', d, "offer") => Queued(down, d, "offer") \/ d = b
                /\ Queued(down', d, "answer") => Queued(down, d, "answer") \/ d = a
                /\ (First(d)' <=> First(d)) /\ (Second(d)' <=> Second(d))
    BY <1>1, <1>4, <1>6, <2>11, <2>12, <2>13 DEF NoMore, Sdps, First, Second
  <2>19. QueuedOnce'
    BY <2>18 DEF SdpInv, QueuedOnce, Once
  <2>20. SdpRoles'
    BY <1>1, <2>3, <2>18 DEF SdpInv, SdpRoles, Sdps, Queued
  <2>21. RoleAhead'
    <3>1. \A d \in Clients : Ahead(down, d) => Ahead(down', d)
      BY <1>1, <1>3, <2>5, PutAhead
    <3> QED BY <1>1, <3>1, AheadKept DEF SdpInv
  <2> QED BY <2>17, <2>19, <2>20, <2>21 DEF SdpInv
<1> QED BY <1>2, <1>5, <1>6

\* The second peer is admitted: its role, then ready, and the exchange starts.
LEMMA AdmitSdp ==
    ASSUME TypeOK, RoleInv, SdpInv, RoleInv', NEW c \in Clients, Admit(c), UNCHANGED peerVars
    PROVE  SdpInv'
<1> DEFINE room == {d \in online : IsPeer(d)} \cup {c}
           caller == Put(down, {c}, Notice("set-as-caller"))
           callee == Put(down, {c}, Notice("set-as-callee"))
<1>0. peers \in Seq(Clients) /\ Len(peers) \in Nat /\ peers' = Append(peers, c)
  BY DEF Admit, TypeOK, ServerTypeOK
<1>1. /\ up \in [Clients -> Seq(ToServer)] /\ down \in [Clients -> Seq(ToClient)]
      /\ up[c] # <<>> /\ up' = Take(up, c)
      /\ down' = Announce(c, Place, room)
      /\ UNCHANGED <<link, made, remote, creating, type_>>
  BY DEF Admit, HeadIs, TypeOK, NetTypeOK, peerVars
<1>2. Len(peers) < 2 /\ Len(peers) \in {0, 1}
  <2>1. Len(peers) <= 2 /\ Len(peers) # 2
    BY DEF Admit, RoleInv, PeersInOrder
  <2> DEFINE n == Len(peers)
  <2>2. n \in Nat /\ n <= 2 /\ n # 2
    BY <1>0, <2>1
  <2> HIDE DEF n
  <2>3. n < 2 /\ n \in {0, 1}
    BY <2>2
  <2> QED BY <2>3 DEF n
<1>3. \A d \in Clients :
        /\ creating[d] = "none" /\ made[d] = "none" /\ remote[d] = "none"
        /\ \A ev \in Sdps : ~Queued(up, d, ev)
        /\ \A ev \in Sdps \cup {"ready"} : ~Queued(down, d, ev)
  BY <1>2 DEF SdpInv, NotBeforeTwo
<1>4. \A d \in Clients : \A ev \in Sdps : ~Queued(up', d, ev)
  BY <1>1, <1>3, TakeQueued
<1>5. /\ Notice("set-as-caller") \in ToClient /\ Notice("set-as-caller").ev = "set-as-caller"
      /\ Notice("set-as-callee") \in ToClient /\ Notice("set-as-callee").ev = "set-as-callee"
      /\ Notice("ready") \in ToClient /\ Notice("ready").ev = "ready"
  BY PacketType DEF Notice
<1>6. CASE Len(peers) = 0
  <2>1. down' = caller /\ Len(peers') = 1
    BY <1>0, <1>1, <1>6 DEF Announce, Place
  <2>2. \A d \in Clients : \A ev \in Sdps \cup {"ready"} : ~Queued(down', d, ev)
    <3> SUFFICES ASSUME NEW d \in Clients, NEW ev \in Sdps \cup {"ready"},
                        Queued(caller, d, ev)
                 PROVE  FALSE
      BY <2>1
    <3> QED BY <1>1, <1>3, NoticeQueued DEF Sdps
  <2>3. NotBeforeTwo'
    BY <1>1, <1>3, <1>4, <2>2 DEF NotBeforeTwo, Queued
  <2>4. QueuedOnce'
    BY <1>4, <2>2 DEF QueuedOnce, Queued, Once
  <2>5. SdpRoles'
    BY <1>1, <1>3, <1>4, <2>2 DEF SdpRoles, Queued, Sdps
  <2>6. \A d \in Clients : ~Second(d)'
    BY <2>1 DEF Second
  <2> QED BY <2>3, <2>4, <2>5, <2>6 DEF SdpInv, Exchange, RoleAhead
<1>7. CASE Len(peers) = 1
  <2>1. down' = Put(callee, room, Notice("ready")) /\ Len(peers') = 2 /\ peers'[2] = c
    <3>1. Place = 2
      BY <1>7 DEF Place
    <3>2. down' = Put(callee, room, Notice("ready"))
      BY <1>1, <3>1 DEF Announce
    <3>3. Len(peers') = 2 /\ peers'[2] = c
      BY <1>0, <1>7
    <3> QED BY <3>2, <3>3
  <2>2. callee \in [Clients -> Seq(ToClient)]
    BY <1>1, <1>5, PutType
  <2>3. \A d \in Clients : \A ev \in Sdps \cup {"ready"} : ~Queued(callee, d, ev)
    BY <1>1, <1>3, NoticeQueued DEF Sdps
  <2>4. \A d \in Clients : \A ev \in Sdps : ~Queued(down', d, ev)
    <3> HIDE DEF callee, room
    <3> SUFFICES ASSUME NEW d \in Clients, NEW ev \in Sdps,
                        Queued(Put(callee, room, Notice("ready")), d, ev)
                 PROVE  FALSE
      BY <2>1
    <3> QED BY <2>2, <2>3, NoticeQueued DEF Sdps
  <2>5. \A d \in Clients : Once(down', d, "ready")
    <3>1. \A d \in Clients : Once(callee, d, "ready")
      BY <2>3 DEF Once, Queued
    <3> HIDE DEF callee, room
    <3> QED BY <1>5, <2>1, <2>2, <2>3, <3>1, PutOnce DEF Sdps
  <2>6. NotBeforeTwo'
    BY <2>1 DEF NotBeforeTwo
  <2>7. QueuedOnce'
    BY <1>4, <2>4, <2>5 DEF QueuedOnce, Queued, Once, Sdps
  <2>8. SdpRoles'
    BY <1>1, <1>3, <1>4, <2>4 DEF SdpRoles, Queued, Sdps
  <2>9. Exchange'
    <3>1. ASSUME NEW a \in Clients, NEW b \in Clients, NEW s \in Stages, At(a, b, s)'
          PROVE  s = 1
      BY <1>1, <1>3, <1>4, <2>4, <3>1 DEF At, Queued, Sdps
    <3>2. ASSUME NEW a \in Clients, NEW b \in Clients PROVE Before(a, b, 1)'
      BY <1>1, <1>3 DEF Before
    <3> QED BY <3>1, <3>2 DEF Exchange, OneStage
  <2>10. Ahead(down, c)'
    <3> DEFINE n == Len(down[c])
    <3>1. /\ callee[c] = Append(down[c], Notice("set-as-callee"))
          /\ n + 1 \in DOMAIN callee[c] /\ callee[c][n + 1] = Notice("set-as-callee")
      BY <1>1, <1>5 DEF Put
    <3>2. Ahead(callee, c)
      BY <1>5, <2>3, <3>1 DEF Ahead, Queued, Sdps
    <3>3. Ahead(down', c)
      BY <1>5, <2>1, <2>2, <3>2, PutAhead
    <3> QED BY <3>3 DEF Ahead
  <2>11. RoleAhead'
    BY <2>1, <2>10 DEF RoleAhead, Second
  <2> QED BY <2>6, <2>7, <2>8, <2>9, <2>11 DEF SdpInv
<1> QED BY <1>2, <1>6, <1>7

\* An offer finds the callee, which has no description yet.
LEMMA OfferMet ==
    ASSUME TypeOK, RoleInv, SdpInv, NEW c \in Clients, link[c] = "open",
           HeadIs(down, c, "offer")
    PROVE  type_[c] = "Callee" /\ remote[c] = "none"
<1>1. down \in [Clients -> Seq(ToClient)]
  BY DEF TypeOK, NetTypeOK
<1>2. Queued(down, c, "offer") /\ 1 \in DOMAIN down[c] /\ down[c][1].ev = "offer"
  BY <1>1, HeadQueued
<1>3. Second(c) /\ Len(peers) >= 2
  BY <1>2 DEF SdpInv, SdpRoles, Second
<1>4. ~Ahead(down, c)
  BY <1>1, <1>2 DEF Ahead
<1>5. type_[c] = "Callee"
  BY <1>3, <1>4 DEF SdpInv, RoleAhead
<1>6. PICK a \in Clients : First(a)
  BY <1>3, Places
<1>7. Before(a, c, 4)
  BY <1>2, <1>3, <1>6, OneAtATime DEF At, Stages
<1> QED BY <1>5, <1>7 DEF Before

\* An answer finds the caller whose offer it answers.
LEMMA AnswerMet ==
    ASSUME TypeOK, RoleInv, SdpInv, NEW c \in Clients, link[c] = "open",
           HeadIs(down, c, "answer")
    PROVE  type_[c] = "Caller" /\ made[c] = "offer" /\ remote[c] = "none"
<1>1. Queued(down, c, "answer")
  BY HeadQueued DEF TypeOK, NetTypeOK
<1>2. First(c) /\ Len(peers) >= 2
  BY <1>1 DEF SdpInv, SdpRoles, NotBeforeTwo, Sdps, TypeOK, ServerTypeOK
<1>3. PICK b \in Clients : Second(b)
  BY <1>2, Places
<1>4. Before(c, b, 7)
  BY <1>1, <1>2, <1>3, OneAtATime DEF At, Stages
<1>5. made[c] = "offer" /\ remote[c] = "none"
  BY <1>4 DEF Before
<1>6. type_[c] = "Caller"
  BY <1>2, <1>5, Places DEF SdpInv, SdpRoles
<1> QED BY <1>5, <1>6

------------------------------------------------------------------------------
\* For every set of clients: the exchange of descriptions is at one place at a
\* time, and each description travels once and with the role it needs.
THEOREM SdpInvariant == Spec => []SdpInv
<1>1. Init => SdpInv
  <2> SUFFICES ASSUME Init PROVE SdpInv
    OBVIOUS
  <2>1. /\ peers = <<>>
        /\ \A c \in Clients :
            /\ up[c] = <<>> /\ down[c] = <<>>
            /\ creating[c] = "none" /\ made[c] = "none" /\ remote[c] = "none"
    BY DEF Init, NetInit, ServerInit, PeerInit
  <2> QED BY <2>1 DEF SdpInv, Exchange, OneStage, First, QueuedOnce, Once, SdpRoles, Sdps,
                      NotBeforeTwo, RoleAhead, Second, Queued
<1>2. TypeOK /\ RoleInv /\ RoleInv' /\ SdpInv /\ [Next]_vars => SdpInv'
  <2> SUFFICES ASSUME TypeOK, RoleInv, RoleInv', SdpInv, [Next]_vars PROVE SdpInv'
    OBVIOUS
  <2>1. CASE UNCHANGED vars
    BY <2>1 DEF vars, netVars, serverVars, peerVars, SdpInv, Exchange, OneStage, First,
                At, Before, QueuedOnce, Once, SdpRoles, NotBeforeTwo, RoleAhead, Ahead,
                Second, Queued
  <2>2. CASE Next
    <3>1. RolesStay
      BY <2>2, RolesAreKept
    <3>2. ASSUME NEW c \in Clients, ServerStep(c) PROVE SdpInv'
      BY <3>1, <3>2, ServerQuiet, AdmitSdp, RelaySdp DEF ServerStep
    <3>3. ASSUME NEW c \in Clients, Listener(c) PROVE SdpInv'
      <4>1. CASE UNCHANGED <<remote, creating>>
        BY <3>1, <3>3, <4>1, ListenerQuiet
      <4>2. CASE ~UNCHANGED <<remote, creating>>
        BY <3>1, <3>3, <4>2, ReadySdp, OfferSdp, AnswerSdp
           DEF Listener, set_as_caller, set_as_callee, ice, ack, SessionEnded, peerVars
      <4> QED BY <4>1, <4>2
    <3>4. ASSUME NEW c \in Clients, Observer(c) PROVE SdpInv'
      BY <3>1, <3>4, OnSuccessSdp, IceQuiet DEF Observer
    <3>5. ASSUME NEW c \in Clients, Environment(c) PROVE SdpInv'
      BY <3>1, <3>5, EnvironmentQuiet
    <3>6. ASSUME NEW p \in calls, TimeOut(p) PROVE SdpInv'
      BY <3>6 DEF TimeOut, CallTimesOut, netVars, peerVars, SdpInv, Exchange, OneStage,
                  First, At, Before, QueuedOnce, Once, SdpRoles, NotBeforeTwo, RoleAhead,
                  Ahead, Second, Queued
    <3> QED BY <2>2, <3>2, <3>3, <3>4, <3>5, <3>6 DEF Next
  <2> QED BY <2>1, <2>2
<1> QED BY <1>1, <1>2, TypeCorrect, RoleInvariant, PTL DEF Spec

\* An offer finds a callee without a description and an answer finds the caller
\* whose offer it answers: the branches for the unexpected are dead.
THEOREM NeverUnexpected == Spec => []NothingUnexpected
<1>1. TypeOK /\ RoleInv /\ SdpInv => NothingUnexpected
  BY OfferMet, AnswerMet DEF NothingUnexpected
<1> QED BY <1>1, TypeCorrect, RoleInvariant, SdpInvariant, PTL

------------------------------------------------------------------------------
(***************************************************************************)
(* Acknowledgements.  d handled a call k that it acknowledged with ok: the *)
(* description of k is set, or is the one that could not be set; the       *)
(* candidate of k was added.  That stays true while the acknowledgement is *)
(* on its way from d to the server and from there to the other peer.       *)
(***************************************************************************)
Accepted(d, k) ==
    /\ k.ev \in Sdps => k.ev \in {remote[d], unset[d]}
    /\ k.ev = "ice" => k.n \in added[d]

\* An ok for k is in the queue of c.
OkQueued(q, c, k) == \E i \in DOMAIN q[c] : q[c][i] = Ack(k, TRUE)

\* A caller is given answers only, a callee offers only.
RemoteByRole ==
    \A c \in Clients :
        /\ type_[c] = "Undefined" => {remote[c], unset[c]} = {"none"}
        /\ type_[c] = "Caller" => {remote[c], unset[c]} \subseteq {"none", "answer"}
        /\ type_[c] = "Callee" => {remote[c], unset[c]} \subseteq {"none", "offer"}

UpAcks == \A c \in Clients, k \in Call : OkQueued(up, c, k) => Accepted(c, k)

DownAcks ==
    \A c \in Clients, k \in Call :
        OkQueued(down, c, k) => \E d \in Clients \ {c} : Accepted(d, k)

SentAcks ==
    \A c \in Clients, k \in Call :
        k \in sentOk[c] => \E d \in Clients \ {c} : Accepted(d, k)

\* The inductive invariant behind AcceptedMeansHandled, beside the ones above.
AcksInv == RemoteByRole /\ UpAcks /\ DownAcks /\ SentAcks

\* What a client accepted stays accepted.
StaysAccepted == \A d \in Clients : \A k \in Call : Accepted(d, k) => Accepted(d, k)'

LEMMA FailedStays ==
    ASSUME TypeOK, Next
    PROVE  \A d \in Clients : failed[d] => failed'[d]
<1>1. failed' = failed \/ \E c \in Clients : failed' = [failed EXCEPT ![c] = TRUE]
  BY DEF Next, TimeOut, CallTimesOut, ServerStep, Listener, Observer, Environment,
         set_as_caller, set_as_callee, ready, offer, answer, ice, ack, SessionEnded,
         receive_offer_create_answer, receive_answer, ParseFails, SetRemoteFails, Unexpected,
         add_ice_candidate,
         OnSuccess, OnIceCandidate, on_connected, on_fail, on_close, OnFailure, peerVars
<1> QED BY <1>1 DEF TypeOK, PeerTypeOK

\* What a step does to the roles and the descriptions the clients were given.
LEMMA GivenStep ==
    ASSUME Next
    PROVE  \/ UNCHANGED <<type_, remote, unset>>
           \/ /\ UNCHANGED <<remote, unset>>
              /\ \E c \in Clients, r \in {"Caller", "Callee"} : type_' = [type_ EXCEPT ![c] = r]
           \/ /\ UNCHANGED type_
              /\ \E c \in Clients, ev \in Sdps :
                    /\ type_[c] = IF ev = "offer" THEN "Callee" ELSE "Caller"
                    /\ \/ remote' = [remote EXCEPT ![c] = ev] /\ UNCHANGED unset
                       \/ unset' = [unset EXCEPT ![c] = ev] /\ UNCHANGED remote
<1>1. ASSUME NEW c \in Clients, Listener(c), ~UNCHANGED <<type_, remote, unset>>
      PROVE  \/ /\ UNCHANGED <<remote, unset>>
                /\ \E r \in {"Caller", "Callee"} : type_' = [type_ EXCEPT ![c] = r]
             \/ /\ UNCHANGED type_
                /\ \E ev \in Sdps :
                    /\ type_[c] = IF ev = "offer" THEN "Callee" ELSE "Caller"
                    /\ \/ remote' = [remote EXCEPT ![c] = ev] /\ UNCHANGED unset
                       \/ unset' = [unset EXCEPT ![c] = ev] /\ UNCHANGED remote
  <2>1. CASE offer(c)
    <3>1. UNCHANGED type_ /\ Head(down[c]).ev = "offer"
      BY <2>1 DEF offer, Receives, HeadIs
    <3>2. /\ type_[c] = "Callee"
          /\ \/ remote' = [remote EXCEPT ![c] = "offer"] /\ UNCHANGED unset
             \/ unset' = [unset EXCEPT ![c] = "offer"] /\ UNCHANGED remote
      BY <1>1, <2>1, <3>1 DEF offer, receive_offer_create_answer, ParseFails, SetRemoteFails,
                              Unexpected
    <3> QED BY <3>1, <3>2 DEF Sdps
  <2>2. CASE answer(c)
    <3>1. UNCHANGED type_ /\ Head(down[c]).ev = "answer"
      BY <2>2 DEF answer, Receives, HeadIs
    <3>2. /\ type_[c] = "Caller"
          /\ \/ remote' = [remote EXCEPT ![c] = "answer"] /\ UNCHANGED unset
             \/ unset' = [unset EXCEPT ![c] = "answer"] /\ UNCHANGED remote
      BY <1>1, <2>2, <3>1 DEF answer, receive_answer, ParseFails, SetRemoteFails, Unexpected
    <3> QED BY <3>1, <3>2 DEF Sdps
  <2> QED BY <1>1, <2>1, <2>2
             DEF Listener, set_as_caller, set_as_callee, ready, ice, ack, SessionEnded, peerVars
<1>2. CASE \E c \in Clients : Listener(c)
  BY <1>1, <1>2
<1>3. CASE ~\E c \in Clients : Listener(c)
  BY <1>3 DEF Next, TimeOut, ServerStep, Observer, Environment, OnSuccess, OnIceCandidate,
              on_connected, on_fail, on_close, OnFailure, peerVars
<1> QED BY <1>2, <1>3

\* AddIceCandidate takes the candidate the handler was given.
LEMMA AddedStep ==
    ASSUME Next
    PROVE  added' = added \/ \E c \in Clients : \E n : added' = [added EXCEPT ![c] = @ \cup {n}]
BY DEF Next, TimeOut, CallTimesOut, ServerStep, Listener, Observer, Environment,
       set_as_caller, set_as_callee, ready, offer, answer, ice, ack, SessionEnded,
       add_ice_candidate,
       OnSuccess, OnIceCandidate, on_connected, on_fail, on_close, OnFailure, peerVars

LEMMA AcceptedStays ==
    ASSUME TypeOK, RoleInv, SdpInv, RemoteByRole, Next
    PROVE  RemoteByRole' /\ StaysAccepted
<1>1. RolesStay
  BY RolesAreKept
<1>2. /\ type_ \in [Clients -> PeerType] /\ remote \in [Clients -> Description]
      /\ unset \in [Clients -> Description]
      /\ added \in [Clients -> SUBSET (0 .. MaxIce)]
  BY DEF TypeOK, PeerTypeOK
<1>3. RemoteByRole' /\ \A d \in Clients :
                        /\ remote[d] # "none" => remote'[d] = remote[d]
                        /\ unset[d] # "none" => unset'[d] = unset[d]
  <2>1. CASE UNCHANGED <<type_, remote, unset>>
    BY <2>1 DEF RemoteByRole
  <2>2. CASE /\ UNCHANGED <<remote, unset>>
             /\ \E c \in Clients, r \in {"Caller", "Callee"} : type_' = [type_ EXCEPT ![c] = r]
    BY <1>1, <1>2, <2>2 DEF RemoteByRole, RolesStay, PeerType
  <2>3. ASSUME UNCHANGED type_, NEW c \in Clients, NEW ev \in Sdps,
               type_[c] = IF ev = "offer" THEN "Callee" ELSE "Caller",
               \/ remote' = [remote EXCEPT ![c] = ev] /\ UNCHANGED unset
               \/ unset' = [unset EXCEPT ![c] = ev] /\ UNCHANGED remote
        PROVE  RemoteByRole' /\ \A d \in Clients :
                                  /\ remote[d] # "none" => remote'[d] = remote[d]
                                  /\ unset[d] # "none" => unset'[d] = unset[d]
    BY <1>2, <2>3 DEF RemoteByRole, Sdps, PeerType
  <2> QED BY <2>1, <2>2, <2>3, GivenStep
<1>4. \A d \in Clients : added[d] \subseteq added'[d]
  BY <1>2, AddedStep
<1>5. ASSUME NEW d \in Clients, NEW k \in Call, Accepted(d, k) PROVE Accepted(d, k)'
  BY <1>3, <1>4, <1>5 DEF Accepted, Sdps
<1> QED BY <1>3, <1>5 DEF StaysAccepted

LEMMA TakeOk ==
    ASSUME NEW P, NEW q \in [Clients -> Seq(P)], NEW c \in Clients, q[c] # <<>>,
           NEW d \in Clients, NEW k, OkQueued(Take(q, c), d, k)
    PROVE  OkQueued(q, d, k)
<1>1. PICK i \in DOMAIN Take(q, c)[d] : Take(q, c)[d][i] = Ack(k, TRUE)
  BY DEF OkQueued
<1>2. \E j \in DOMAIN q[d] : q[d][j] = Take(q, c)[d][i]
  BY TakeAt
<1> QED BY <1>1, <1>2 DEF OkQueued

LEMMA PutOk ==
    ASSUME NEW P, NEW q \in [Clients -> Seq(P)], NEW S, NEW p \in P,
           NEW d \in Clients, NEW k, OkQueued(Put(q, S, p), d, k)
    PROVE  OkQueued(q, d, k) \/ (d \in S /\ p = Ack(k, TRUE))
<1>1. PICK i \in DOMAIN Put(q, S, p)[d] : Put(q, S, p)[d][i] = Ack(k, TRUE)
  BY DEF OkQueued
<1>2. \/ \E j \in DOMAIN q[d] : q[d][j] = Put(q, S, p)[d][i]
      \/ d \in S /\ Put(q, S, p)[d][i] = p
  BY PutAt
<1> QED BY <1>1, <1>2 DEF OkQueued

LEMMA DropOk ==
    ASSUME NEW P, NEW q \in [Clients -> Seq(P)], NEW c \in Clients,
           NEW d \in Clients, NEW k, OkQueued([q EXCEPT ![c] = <<>>], d, k)
    PROVE  OkQueued(q, d, k)
<1> DEFINE r == [q EXCEPT ![c] = <<>>]
<1>1. PICK i \in DOMAIN r[d] : r[d][i] = Ack(k, TRUE)
  BY DEF OkQueued
<1>2. d # c
  BY <1>1
<1>3. r[d] = q[d]
  BY <1>2
<1> QED BY <1>1, <1>3 DEF OkQueued

\* The oldest packet, an ok for k, is queued.
LEMMA HeadOk ==
    ASSUME NEW P, NEW q \in [Clients -> Seq(P)], NEW c \in Clients, q[c] # <<>>,
           NEW k, Head(q[c]) = Ack(k, TRUE)
    PROVE  OkQueued(q, c, k)
<1>1. 1 \in DOMAIN q[c] /\ q[c][1] = Head(q[c])
  OBVIOUS
<1> QED BY <1>1 DEF OkQueued

\* What is emitted is emitted by its sender alone.
LEMMA EmitOk ==
    ASSUME TypeOK, NEW c \in Clients, NEW p \in ToServer, emit(c, p),
           NEW d \in Clients, NEW k, OkQueued(up', d, k)
    PROVE  OkQueued(up, d, k) \/ (d = c /\ p = Ack(k, TRUE))
<1>1. up \in [Clients -> Seq(ToServer)]
  BY DEF TypeOK, NetTypeOK
<1>2. CASE up' = up
  BY <1>2
<1>3. CASE up' = Put(up, {c}, p)
  <2>1. OkQueued(Put(up, {c}, p), d, k)
    BY <1>3
  <2>2. OkQueued(up, d, k) \/ (d \in {c} /\ p = Ack(k, TRUE))
    BY <1>1, <2>1, PutOk
  <2> QED BY <2>2
<1> QED BY <1>2, <1>3 DEF emit

\* A listener acknowledges with ok only what it handled.
LEMMA AckOk ==
    ASSUME TypeOK, RoleInv, SdpInv, NEW c \in Clients, Listener(c),
           NEW d \in Clients, NEW k \in Call, OkQueued(up', d, k)
    PROVE  OkQueued(up, d, k) \/ Accepted(d, k)'
<1>1. CASE up' = up
  BY <1>1
<1>2. ASSUME NEW ev \in {"offer", "answer", "ice"}, Receives(c, ev), NEW ok \in BOOLEAN,
             emit(c, Ack(Head(down[c]).call, ok))
      PROVE  \/ OkQueued(up, d, k)
             \/ d = c /\ ok = TRUE /\ k.ev = ev /\ k = Head(down[c]).call
  <2> DEFINE j == Head(down[c]).call
  <2>1. Head(down[c]) \in ToClient /\ Head(down[c]).ev = ev
    BY <1>2 DEF Receives, HeadIs, TypeOK, NetTypeOK
  <2>2. j \in Call /\ Head(down[c]) = Emit(j)
    BY <2>1, HeadCall
  <2>3. j.ev = ev
    BY <2>1, <2>2 DEF Emit
  <2>4. Ack(j, ok) \in ToServer
    BY <2>2, PacketType
  <2>5. OkQueued(up, d, k) \/ (d = c /\ Ack(j, ok) = Ack(k, TRUE))
    BY <1>2, <2>4, EmitOk
  <2>6. Ack(j, ok) = Ack(k, TRUE) => j = k /\ ok = TRUE
    BY DEF Ack
  <2> QED BY <2>3, <2>5, <2>6
<1>3. CASE offer(c)
  <2>1. type_[c] = "Callee"
    BY <1>3, OfferMet DEF offer, Receives
  <2>2. \/ emit(c, Ack(Head(down[c]).call, FALSE))
        \/ emit(c, Ack(Head(down[c]).call, TRUE)) /\ "offer" \in {remote'[c], unset'[c]}
    BY <1>3, <2>1 DEF offer, receive_offer_create_answer, ParseFails, SetRemoteFails,
       Receives, HeadIs, TypeOK, PeerTypeOK
  <2>3. OkQueued(up, d, k) \/ (d = c /\ k.ev = "offer" /\ k.ev \in {remote'[c], unset'[c]})
    BY <1>2, <1>3, <2>2 DEF offer
  <2> QED BY <2>3 DEF Accepted
<1>4. CASE answer(c)
  <2>1. type_[c] = "Caller"
    BY <1>4, AnswerMet DEF answer, Receives
  <2>2. \/ emit(c, Ack(Head(down[c]).call, FALSE))
        \/ emit(c, Ack(Head(down[c]).call, TRUE)) /\ "answer" \in {remote'[c], unset'[c]}
    BY <1>4, <2>1 DEF answer, receive_answer, ParseFails, SetRemoteFails,
       Receives, HeadIs, TypeOK, PeerTypeOK
  <2>3. OkQueued(up, d, k) \/ (d = c /\ k.ev = "answer" /\ k.ev \in {remote'[c], unset'[c]})
    BY <1>2, <1>4, <2>2 DEF answer
  <2> QED BY <2>3 DEF Accepted
<1>5. CASE ice(c)
  <2>1. \/ emit(c, Ack(Head(down[c]).call, FALSE))
        \/ emit(c, Ack(Head(down[c]).call, TRUE)) /\ Head(down[c]).call.n \in added'[c]
    BY <1>5 DEF ice, add_ice_candidate, TypeOK, PeerTypeOK
  <2>2. OkQueued(up, d, k) \/ (d = c /\ k.ev = "ice" /\ k.n \in added'[c])
    BY <1>2, <1>5, <2>1 DEF ice
  <2> QED BY <2>2 DEF Accepted, Sdps
<1> QED BY <1>1, <1>3, <1>4, <1>5
           DEF Listener, set_as_caller, set_as_callee, ready, ack, SessionEnded

\* Every ok under way to the server after a step was there before, or was handled.
LEMMA UpOk ==
    ASSUME TypeOK, RoleInv, SdpInv, Next, NEW d \in Clients, NEW k \in Call,
           OkQueued(up', d, k)
    PROVE  OkQueued(up, d, k) \/ Accepted(d, k)'
<1>1. CASE up' = up
  BY <1>1
<1>2. ASSUME NEW c \in Clients, ServerStep(c) PROVE OkQueued(up, d, k)
  <2>1. up[c] # <<>> /\ up' = Take(up, c)
    BY <1>2 DEF ServerStep, Refuse, Admit, Relay, CallReturns, HeadIs
  <2>2. OkQueued(Take(up, c), d, k)
    BY <2>1
  <2> QED BY <2>1, <2>2, TakeOk DEF TypeOK, NetTypeOK
<1>3. ASSUME NEW c \in Clients, NEW p \in ToServer, p.ev # "ack", emit(c, p)
      PROVE  OkQueued(up, d, k)
  <2>1. p # Ack(k, TRUE)
    BY <1>3 DEF Ack
  <2> QED BY <1>3, <2>1, EmitOk
<1>4. ASSUME NEW c \in Clients, Observer(c) PROVE OkQueued(up, d, k)
  <2>1. CASE OnSuccess(c)
    <3> DEFINE p == Emit(Sdp(SdpEvent(c), c))
    <3>1. p \in ToServer /\ p.ev # "ack" /\ emit(c, p)
      BY <2>1, PacketType DEF OnSuccess, SdpEvent, Emit, Sdp
    <3> QED BY <1>3, <3>1
  <2>2. CASE OnIceCandidate(c)
    <3> DEFINE p == Emit(Ice(c, gathered[c] + 1))
    <3>1. gathered[c] + 1 \in 0 .. MaxIce
      BY <2>2, SignalingAssumption DEF OnIceCandidate, TypeOK, PeerTypeOK
    <3>2. p \in ToServer /\ p.ev # "ack" /\ emit(c, p)
      BY <2>2, <3>1, PacketType DEF OnIceCandidate, Emit, Ice
    <3> QED BY <1>3, <3>2
  <2> QED BY <1>4, <2>1, <2>2 DEF Observer
<1>5. ASSUME NEW c \in Clients, Environment(c) PROVE OkQueued(up, d, k)
  <2>1. up \in [Clients -> Seq(ToServer)]
    BY DEF TypeOK, NetTypeOK
  <2>2. CASE up' = Put(up, {c}, Notice("connect"))
    <3>1. Notice("connect") \in ToServer /\ Notice("connect") # Ack(k, TRUE)
      BY PacketType DEF Notice, Ack
    <3>2. OkQueued(Put(up, {c}, Notice("connect")), d, k)
      BY <2>2
    <3> QED BY <2>1, <3>1, <3>2, PutOk
  <2>3. CASE up' = [up EXCEPT ![c] = <<>>]
    BY <2>1, <2>3, DropOk
  <2> QED BY <1>1, <1>5, <2>2, <2>3
             DEF Environment, on_connected, on_fail, on_close, OnFailure, Disconnect, netVars
<1>6. ASSUME NEW p \in calls, TimeOut(p) PROVE OkQueued(up, d, k)
  BY <1>1, <1>6 DEF TimeOut, CallTimesOut, netVars
<1> QED BY <1>2, <1>4, <1>5, <1>6, AckOk DEF Next

\* Every ok under way to a client after a step was there before, or was handled by
\* another client: the server passes on only what the other peer answered.
LEMMA DownOk ==
    ASSUME TypeOK, RoleInv, UpAcks, Next, NEW d \in Clients, NEW k \in Call,
           OkQueued(down', d, k)
    PROVE  OkQueued(down, d, k) \/ \E e \in Clients \ {d} : Accepted(e, k)
<1>1. down \in [Clients -> Seq(ToClient)] /\ up \in [Clients -> Seq(ToServer)]
  BY DEF TypeOK, NetTypeOK
<1>2. CASE down' = down
  BY <1>2
<1>3. ASSUME NEW q \in [Clients -> Seq(ToClient)], NEW S, NEW p \in ToClient, p.ev # "ack",
             OkQueued(Put(q, S, p), d, k)
      PROVE  OkQueued(q, d, k)
  <2>1. p # Ack(k, TRUE)
    BY <1>3 DEF Ack
  <2> QED BY <1>3, <2>1, PutOk
<1>4. ASSUME NEW c \in Clients, Refuse(c) PROVE OkQueued(down, d, k)
  <2>1. Notice("disconnect") \in ToClient /\ Notice("disconnect").ev # "ack"
    BY PacketType DEF Notice
  <2>2. OkQueued(Put(down, {c}, Notice("disconnect")), d, k)
    BY <1>4 DEF Refuse
  <2> QED BY <1>1, <1>3, <2>1, <2>2
<1>5. ASSUME NEW c \in Clients, Admit(c) PROVE OkQueued(down, d, k)
  <2> DEFINE room == {x \in online : IsPeer(x)} \cup {c}
             caller == Put(down, {c}, Notice("set-as-caller"))
             callee == Put(down, {c}, Notice("set-as-callee"))
  <2>1. /\ Notice("set-as-caller") \in ToClient /\ Notice("set-as-caller").ev # "ack"
        /\ Notice("set-as-callee") \in ToClient /\ Notice("set-as-callee").ev # "ack"
        /\ Notice("ready") \in ToClient /\ Notice("ready").ev # "ack"
    BY PacketType DEF Notice
  <2>2. callee \in [Clients -> Seq(ToClient)]
    BY <1>1, <2>1, PutType
  <2>3. OkQueued(caller, d, k) \/ OkQueued(callee, d, k) => OkQueued(down, d, k)
    BY <1>1, <1>3, <2>1
  <2>4. OkQueued(Put(callee, room, Notice("ready")), d, k) => OkQueued(callee, d, k)
    <3> HIDE DEF callee, room
    <3> QED BY <1>3, <2>1, <2>2
  <2>5. down' = caller \/ down' = Put(callee, room, Notice("ready")) \/ down' = down
    BY <1>5 DEF Admit, Announce
  <2> QED BY <2>3, <2>4, <2>5
<1>6. ASSUME NEW c \in Clients, Relay(c) PROVE OkQueued(down, d, k)
  <2>1. PICK j \in Call : Head(up[c]) = Emit(j) /\ Head(up[c]).call = j
    BY <1>6 DEF Relay, CallPacket, Emit
  <2>2. Emit(j) \in ToClient /\ Emit(j).ev # "ack"
    BY PacketType DEF Emit, Call
  <2>3. down' = down \/ down' = Put(down, {Counter(c)} \cap online, Emit(j))
    BY <1>6, <2>1 DEF Relay
  <2>4. CASE down' = Put(down, {Counter(c)} \cap online, Emit(j))
    <3>1. OkQueued(Put(down, {Counter(c)} \cap online, Emit(j)), d, k)
      BY <2>4
    <3> QED BY <1>1, <1>3, <2>2, <3>1
  <2> QED BY <1>2, <2>3, <2>4
<1>7. ASSUME NEW c \in Clients, CallReturns(c)
      PROVE  OkQueued(down, d, k) \/ \E e \in Clients \ {d} : Accepted(e, k)
  <2>1. up[c] # <<>> /\ Head(up[c]) \in ToServer /\ Head(up[c]).ev = "ack"
    BY <1>1, <1>7 DEF CallReturns, HeadIs
  <2>2. PICK j \in Call, ok \in BOOLEAN : Head(up[c]) = Ack(j, ok) /\ Head(up[c]).call = j
    BY <2>1, HeadAck
  <2>3. \/ down' = down
        \/ /\ [call |-> j, to |-> c] \in calls
           /\ down' = Put(down, {j.from} \cap online, Ack(j, ok))
    BY <1>7, <2>2 DEF CallReturns
  <2>4. CASE /\ [call |-> j, to |-> c] \in calls
             /\ down' = Put(down, {j.from} \cap online, Ack(j, ok))
    <3>1. j.from # c
      BY <2>4 DEF RoleInv, OnlyPeersTalk
    <3>2. Ack(j, ok) \in ToClient
      BY PacketType
    <3>3. OkQueued(Put(down, {j.from} \cap online, Ack(j, ok)), d, k)
      BY <2>4
    <3>4. OkQueued(down, d, k) \/ (d = j.from /\ Ack(j, ok) = Ack(k, TRUE))
      <4> DEFINE S == {j.from} \cap online
      <4>1. OkQueued(down, d, k) \/ (d \in S /\ Ack(j, ok) = Ack(k, TRUE))
        <5>1. OkQueued(Put(down, S, Ack(j, ok)), d, k)
          BY <3>3
        <5> HIDE DEF S
        <5> QED BY <1>1, <3>2, <5>1, PutOk
      <4> QED BY <4>1
    <3>5. Ack(j, ok) = Ack(k, TRUE) => OkQueued(up, c, k)
      BY <1>1, <2>1, <2>2, HeadOk
    <3> QED BY <3>1, <3>4, <3>5 DEF UpAcks
  <2> QED BY <1>2, <2>3, <2>4
<1>8. ASSUME NEW c \in Clients, Listener(c) PROVE OkQueued(down, d, k)
  <2>1. down[c] # <<>> /\ down' = Take(down, c)
    BY <1>8, ListenerTakes
  <2>2. OkQueued(Take(down, c), d, k)
    BY <2>1
  <2> QED BY <1>1, <2>1, <2>2, TakeOk
<1>9. ASSUME NEW c \in Clients, Observer(c) PROVE OkQueued(down, d, k)
  BY <1>2, <1>9 DEF Observer, OnSuccess, OnIceCandidate
<1>10. ASSUME NEW c \in Clients, Environment(c) PROVE OkQueued(down, d, k)
  <2>1. CASE down' = [down EXCEPT ![c] = <<>>]
    BY <1>1, <2>1, DropOk
  <2> QED BY <1>2, <1>10, <2>1
             DEF Environment, on_connected, on_fail, on_close, OnFailure, Disconnect, netVars
<1>11. ASSUME NEW p \in calls, TimeOut(p) PROVE OkQueued(down, d, k)
  BY <1>2, <1>11 DEF TimeOut, CallTimesOut, netVars
<1> QED BY <1>4, <1>5, <1>6, <1>7, <1>8, <1>9, <1>10, <1>11 DEF Next, ServerStep

\* A client notes as accepted only what it is told is.
LEMMA SentOk ==
    ASSUME TypeOK, Next, NEW d \in Clients, NEW k \in Call, k \in sentOk'[d]
    PROVE  k \in sentOk[d] \/ OkQueued(down, d, k)
<1>1. CASE sentOk' = sentOk
  BY <1>1
<1>2. ASSUME NEW c \in Clients, ack(c) PROVE k \in sentOk[d] \/ OkQueued(down, d, k)
  <2> DEFINE a == Head(down[c])
  <2>1. down[c] # <<>> /\ down \in [Clients -> Seq(ToClient)] /\ a.ev = "ack"
    BY <1>2 DEF ack, Receives, HeadIs, TypeOK, NetTypeOK
  <2>2. a = Ack(a.call, a.ok) /\ a.ok \in BOOLEAN
    BY <2>1, HeadAck
  <2>3. CASE a.ok = TRUE
    <3>1. sentOk' = [sentOk EXCEPT ![c] = @ \cup {a.call}]
      BY <1>2, <2>3 DEF ack
    <3>2. k \in sentOk[d] \/ (d = c /\ k = a.call)
      BY <3>1 DEF TypeOK, PeerTypeOK
    <3>3. OkQueued(down, c, a.call)
      BY <2>1, <2>2, <2>3, HeadOk
    <3> QED BY <3>2, <3>3
  <2>4. CASE a.ok = FALSE
    BY <1>1, <1>2, <2>4 DEF ack
  <2> QED BY <2>2, <2>3, <2>4
<1> QED BY <1>1, <1>2
           DEF Next, TimeOut, CallTimesOut, ServerStep, Listener, Observer, Environment,
               set_as_caller, set_as_callee, ready, offer, answer, ice, SessionEnded,
               OnSuccess, OnIceCandidate, on_connected, on_fail, on_close, OnFailure, peerVars

\* For every set of clients: each ok under way, and each that arrived, stands for a
\* call that the other client handled (Accepted).
THEOREM AcksInvariant == Spec => []AcksInv
<1>1. Init => AcksInv
  <2> SUFFICES ASSUME Init PROVE AcksInv
    OBVIOUS
  <2>1. \A c \in Clients :
            /\ up[c] = <<>> /\ down[c] = <<>>
            /\ remote[c] = "none" /\ unset[c] = "none"
            /\ type_[c] = "Undefined" /\ sentOk[c] = {}
    BY DEF Init, NetInit, PeerInit
  <2>2. \A c \in Clients, k \in Call : ~OkQueued(up, c, k) /\ ~OkQueued(down, c, k)
    <3> SUFFICES ASSUME NEW c \in Clients, NEW k \in Call
                 PROVE  ~OkQueued(up, c, k) /\ ~OkQueued(down, c, k)
      OBVIOUS
    <3>1. up[c] = <<>> /\ down[c] = <<>>
      BY <2>1
    <3> QED BY <3>1 DEF OkQueued
  <2> QED BY <2>1, <2>2 DEF AcksInv, RemoteByRole, UpAcks, DownAcks, SentAcks
<1>2. TypeOK /\ RoleInv /\ SdpInv /\ AcksInv /\ [Next]_vars => AcksInv'
  <2> SUFFICES ASSUME TypeOK, RoleInv, SdpInv, AcksInv, [Next]_vars PROVE AcksInv'
    OBVIOUS
  <2>1. CASE UNCHANGED vars
    <3>1. UNCHANGED <<up, down, type_, remote, unset, added, sentOk>>
      BY <2>1 DEF vars, netVars, peerVars
    <3>2. RemoteByRole' /\ SentAcks'
      BY <3>1 DEF AcksInv, RemoteByRole, SentAcks, Accepted
    <3>3. UpAcks' /\ DownAcks'
      BY <3>1 DEF AcksInv, UpAcks, DownAcks, OkQueued, Accepted
    <3> QED BY <3>2, <3>3 DEF AcksInv
  <2>2. CASE Next
    <3>1. RemoteByRole' /\ StaysAccepted
      BY <2>2, AcceptedStays DEF AcksInv
    <3>2. ASSUME NEW d \in Clients, NEW k \in Call, OkQueued(up', d, k)
          PROVE  Accepted(d, k)'
      BY <2>2, <3>1, <3>2, UpOk DEF AcksInv, UpAcks, StaysAccepted
    <3>3. ASSUME NEW d \in Clients, NEW k \in Call, OkQueued(down', d, k)
          PROVE  \E e \in Clients \ {d} : Accepted(e, k)'
      <4>1. \E e \in Clients \ {d} : Accepted(e, k)
        BY <2>2, <3>3, DownOk DEF AcksInv, DownAcks
      <4> QED BY <3>1, <4>1 DEF StaysAccepted
    <3>4. ASSUME NEW d \in Clients, NEW k \in Call, k \in sentOk'[d]
          PROVE  \E e \in Clients \ {d} : Accepted(e, k)'
      <4>1. \E e \in Clients \ {d} : Accepted(e, k)
        BY <2>2, <3>4, SentOk DEF AcksInv, DownAcks, SentAcks
      <4> QED BY <3>1, <4>1 DEF StaysAccepted
    <3>5. UpAcks'
      BY <3>2 DEF UpAcks, OkQueued
    <3>6. DownAcks'
      BY <3>3 DEF DownAcks, OkQueued
    <3>7. SentAcks'
      BY <3>4 DEF SentAcks
    <3> QED BY <3>1, <3>5, <3>6, <3>7 DEF AcksInv
  <2> QED BY <2>1, <2>2
<1> QED BY <1>1, <1>2, TypeCorrect, RoleInvariant, SdpInvariant, PTL DEF Spec

\* What an ok tells the client that logs its call as sent, whatever was lost, late
\* or refused meanwhile: another client added the candidate of that number; or it
\* set that description, or failed to set that very one (offer and answer
\* acknowledge before SetRemoteDescription reports).
THEOREM AcceptedIsHandled == Spec => []AcceptedMeansHandled
<1>1. TypeOK /\ AcksInv => AcceptedMeansHandled
  BY DEF TypeOK, PeerTypeOK, AcksInv, SentAcks, Accepted, AcceptedMeansHandled, Sdps
<1> QED BY <1>1, TypeCorrect, AcksInvariant, PTL

------------------------------------------------------------------------------
(* The refinement: what the server and the clients do is what Rendezvous says *)

LEMMA AdmitPair ==
    ASSUME TypeOK, RoleInv, NEW c \in Clients, Admit(c), UNCHANGED peerVars
    PROVE  Pair!Next
<1>1. /\ peers \in Seq(Clients) /\ Len(peers) \in Nat /\ peers' = Append(peers, c)
      /\ UNCHANGED <<made, remote>>
  BY DEF Admit, TypeOK, ServerTypeOK, peerVars
<1>2. Len(peers) <= 2 /\ Len(peers) # 2
  BY DEF Admit, RoleInv, PeersInOrder
<1>3. ~IsPeer(c)
  BY HeadQueued DEF Admit, RoleInv, ConnectsOnce, TypeOK, NetTypeOK
<1>4. CASE Len(peers) = 0
  <2>1. Len(peers') = 1 /\ peers'[1] = c
    BY <1>1, <1>4
  <2>2. Pair!ArriveFirst(c)
    BY <1>1, <1>4, <2>1 DEF Pair!ArriveFirst
  <2> QED BY <2>2 DEF Pair!Next
<1>5. CASE Len(peers) = 1
  <2>1. Len(peers') = 2 /\ peers'[1] = peers[1] /\ peers'[2] = c
    BY <1>1, <1>5
  <2>2. peers[1] \in Clients /\ peers[1] # c
    BY <1>1, <1>3, <1>5 DEF IsPeer
  <2>3. Pair!ArriveSecond(c)
    BY <1>1, <1>5, <2>1, <2>2, NobodyAssumption DEF Pair!ArriveSecond
  <2> QED BY <2>3 DEF Pair!Next
<1> DEFINE n == Len(peers)
<1>6. n \in Nat /\ n <= 2 /\ n # 2
  BY <1>1, <1>2
<1> HIDE DEF n
<1>7. n = 0 \/ n = 1
  BY <1>6
<1> QED BY <1>4, <1>5, <1>7 DEF n

\* The pair as Rendezvous sees it.
LEMMA PairIs ==
    ASSUME TypeOK, RoleInv, NEW a \in Clients, NEW b \in Clients, First(a), Second(b)
    PROVE  /\ (IF Len(peers) >= 1 THEN peers[1] ELSE Nobody) = a
           /\ (IF Len(peers) >= 2 THEN peers[2] ELSE Nobody) = b
           /\ a # b /\ b # Nobody
BY Places, NobodyAssumption DEF First, Second

LEMMA OnSuccessPair ==
    ASSUME TypeOK, RoleInv, SdpInv, NEW c \in Clients, OnSuccess(c), UNCHANGED serverVars
    PROVE  Pair!Next
<1>1. /\ creating[c] \in Sdps
      /\ creating[c] = "offer" => First(c)
      /\ creating[c] = "answer" => Second(c) /\ remote[c] = "offer"
      /\ Len(peers) >= 2
  BY Places DEF OnSuccess, SdpInv, SdpRoles, Sdps, NotBeforeTwo, TypeOK, ServerTypeOK
<1>2. PICK a \in Clients, b \in Clients : First(a) /\ Second(b)
  BY <1>1, Places
<1>3. made' = [made EXCEPT ![c] = creating[c]] /\ UNCHANGED <<peers, remote>>
  BY DEF OnSuccess, serverVars
<1>4. CASE creating[c] = "offer"
  <2>1. c = a
    BY <1>1, <1>2, <1>4 DEF First
  <2>2. made[a] = "none"
    BY <1>2, <1>4, <2>1, OneAtATime DEF At, Stages, Before
  <2>3. Pair!Offer
    BY <1>2, <1>3, <1>4, <2>1, <2>2, PairIs DEF Pair!Offer, Pair!Paired
  <2> QED BY <2>3 DEF Pair!Next
<1>5. CASE creating[c] = "answer"
  <2>1. c = b
    BY <1>1, <1>2, <1>5 DEF Second
  <2>2. made[b] = "none"
    BY <1>2, <1>5, <2>1, OneAtATime DEF At, Stages, Before
  <2>3. Pair!Answer
    BY <1>1, <1>2, <1>3, <1>5, <2>1, <2>2, PairIs DEF Pair!Answer, Pair!Paired
  <2> QED BY <2>3 DEF Pair!Next
<1> QED BY <1>1, <1>4, <1>5 DEF Sdps

LEMMA OfferPair ==
    ASSUME TypeOK, RoleInv, SdpInv, NEW b \in Clients, offer(b), UNCHANGED serverVars,
           remote' # remote
    PROVE  Pair!Next
<1>1. type_[b] = "Callee" /\ remote[b] = "none"
  BY OfferMet DEF offer, Receives
<1>2. remote' = [remote EXCEPT ![b] = "offer"] /\ UNCHANGED <<peers, made>>
  BY <1>1 DEF offer, receive_offer_create_answer, ParseFails, SetRemoteFails, serverVars
<1>3. Second(b) /\ Queued(down, b, "offer") /\ Len(peers) >= 2
  BY <1>1, Places, HeadQueued DEF offer, Receives, TypeOK, NetTypeOK, Second
<1>4. PICK a \in Clients : First(a)
  BY <1>3, Places
<1>5. made[a] = "offer"
  BY <1>3, <1>4, OneAtATime DEF At, Stages, Before
<1>6. Pair!Take
  BY <1>1, <1>2, <1>3, <1>4, <1>5, PairIs DEF Pair!Take, Pair!Paired
<1> QED BY <1>6 DEF Pair!Next

LEMMA AnswerPair ==
    ASSUME TypeOK, RoleInv, SdpInv, NEW a \in Clients, answer(a), UNCHANGED serverVars,
           remote' # remote
    PROVE  Pair!Next
<1>1. type_[a] = "Caller" /\ remote[a] = "none"
  BY AnswerMet DEF answer, Receives
<1>2. remote' = [remote EXCEPT ![a] = "answer"] /\ UNCHANGED <<peers, made>>
  BY <1>1 DEF answer, receive_answer, ParseFails, SetRemoteFails, serverVars
<1>3. First(a) /\ Queued(down, a, "answer")
  BY <1>1, Places, HeadQueued DEF answer, Receives, TypeOK, NetTypeOK
<1>4. Len(peers) >= 2
  BY <1>3 DEF SdpInv, NotBeforeTwo, Sdps, TypeOK, ServerTypeOK
<1>5. PICK b \in Clients : Second(b)
  BY <1>4, Places
<1>6. made[b] = "answer"
  BY <1>3, <1>5, OneAtATime DEF At, Stages, Before
<1>7. Pair!Complete
  BY <1>1, <1>2, <1>3, <1>5, <1>6, PairIs DEF Pair!Complete, Pair!Paired
<1> QED BY <1>7 DEF Pair!Next

\* For every set of clients, the server and its clients implement Rendezvous:
\* the first two to come are paired and hold at most one exchange, in order.
THEOREM ImplementsRendezvous == Spec => PairSpec
<1>1. Init => Pair!Init
  BY DEF Init, NetInit, ServerInit, PeerInit, Pair!Init
<1>2. TypeOK /\ RoleInv /\ SdpInv /\ [Next]_vars => [Pair!Next]_(Pair!vars)
  <2> SUFFICES ASSUME TypeOK, RoleInv, SdpInv, [Next]_vars
               PROVE  [Pair!Next]_(Pair!vars)
    OBVIOUS
  <2>1. CASE UNCHANGED <<peers, made, remote>>
    BY <2>1 DEF Pair!vars
  <2>2. CASE ~UNCHANGED <<peers, made, remote>>
    <3>1. Next
      BY <2>2 DEF vars, serverVars, peerVars
    <3>2. \E c \in Clients :
            \/ Admit(c) /\ UNCHANGED peerVars
            \/ OnSuccess(c) /\ UNCHANGED serverVars
            \/ offer(c) /\ UNCHANGED serverVars /\ remote' # remote
            \/ answer(c) /\ UNCHANGED serverVars /\ remote' # remote
      BY <2>2, <3>1
         DEF Next, TimeOut, CallTimesOut, ServerStep, Refuse, Relay, CallReturns, Listener,
             Observer, Environment, set_as_caller, set_as_callee, ready, offer, answer, ice,
             ack, SessionEnded, OnIceCandidate, on_connected, on_fail, on_close, OnFailure,
             Disconnect, serverVars, peerVars, netVars
    <3> QED BY <3>2, AdmitPair, OnSuccessPair, OfferPair, AnswerPair
  <2> QED BY <2>1, <2>2
<1> QED BY <1>1, <1>2, TypeCorrect, RoleInvariant, SdpInvariant, PTL
        DEF Spec, PairSpec, Pair!Spec

------------------------------------------------------------------------------
(***************************************************************************)
(* Candidates.  The description of a peer is ahead of its candidates on    *)
(* the way to the server and from there to the other peer, until the other *)
(* peer has it or failed to set it; or a link on that way is broken, and   *)
(* then the candidates do not get through either.                          *)
(***************************************************************************)
Met(o) == remote[o] # "none" \/ failed[o]

SdpQueued(q, c) == \E j \in DOMAIN q[c] : q[c][j].ev \in Sdps

\* Each candidate in q[c] has a description before it.
IceCovered(q, c) ==
    \A i \in DOMAIN q[c] : q[c][i].ev = "ice" =>
        \E j \in DOMAIN q[c] : j < i /\ q[c][j].ev \in Sdps

\* d and o are the two peers, and the way from the server's end of d to o is up.
ServerWay(d, o) == Others(d, o) /\ {d, o} \subseteq online /\ link[o] = "open"

DownIce ==
    \A o \in Clients : link[o] \in {"idle", "open"} => Met(o) \/ IceCovered(down, o)

UpIce ==
    \A d, o \in Clients : ServerWay(d, o) =>
        Met(o) \/ SdpQueued(down, o) \/ IceCovered(up, d)

LocalIce ==
    \A d, o \in Clients : ServerWay(d, o) /\ link[d] = "open" /\ local[d] # "none" =>
        Met(o) \/ SdpQueued(down, o) \/ SdpQueued(up, d)

\* Candidates come after a description was made.
MadeFirst ==
    \A d \in Clients :
        /\ local[d] # "none" => made[d] # "none"
        /\ Queued(up, d, "ice") => made[d] # "none"

\* The inductive invariant behind IceAfterDescription, beside the ones above.
IceInv == MadeFirst /\ DownIce /\ UpIce /\ LocalIce

LEMMA TakeSdp ==
    ASSUME NEW P, NEW q \in [Clients -> Seq(P)], NEW c \in Clients, q[c] # <<>>,
           NEW d \in Clients, SdpQueued(q, d), d = c => Head(q[c]).ev \notin Sdps
    PROVE  SdpQueued(Take(q, c), d)
<1>1. PICK j \in DOMAIN q[d] : q[d][j].ev \in Sdps
  BY DEF SdpQueued
<1>2. CASE d = c
  <2>1. j \in Nat /\ j # 0 /\ j # 1
    BY <1>1, <1>2
  <2>2. Take(q, c)[c] = Tail(q[c])
    BY DEF Take
  <2>3. j - 1 \in DOMAIN Tail(q[c]) /\ Tail(q[c])[j - 1] = q[c][j]
    BY <1>1, <1>2, <2>1
  <2> QED BY <1>1, <1>2, <2>2, <2>3 DEF SdpQueued
<1>3. CASE d # c
  <2>1. Take(q, c)[d] = q[d]
    BY <1>3 DEF Take
  <2> QED BY <1>1, <2>1 DEF SdpQueued
<1> QED BY <1>2, <1>3

LEMMA TakeCovered ==
    ASSUME NEW P, NEW q \in [Clients -> Seq(P)], NEW c \in Clients, q[c] # <<>>,
           NEW d \in Clients, IceCovered(q, d), d = c => Head(q[c]).ev \notin Sdps
    PROVE  IceCovered(Take(q, c), d)
<1>2. CASE d = c
  <2>1. Take(q, c)[c] = Tail(q[c])
    BY DEF Take
  <2>2. ASSUME NEW i \in DOMAIN Tail(q[c]), Tail(q[c])[i].ev = "ice"
        PROVE  \E j \in DOMAIN Tail(q[c]) : j < i /\ Tail(q[c])[j].ev \in Sdps
    <3>1. i \in Nat /\ i + 1 \in DOMAIN q[c] /\ Tail(q[c])[i] = q[c][i + 1]
      OBVIOUS
    <3>2. PICK j \in DOMAIN q[c] : j < i + 1 /\ q[c][j].ev \in Sdps
      BY <1>2, <2>2, <3>1 DEF IceCovered
    <3>3. j \in Nat /\ j # 0 /\ j # 1
      BY <1>2, <3>2
    <3>4. j - 1 \in DOMAIN Tail(q[c]) /\ Tail(q[c])[j - 1] = q[c][j] /\ j - 1 < i
      BY <3>1, <3>2, <3>3
    <3> QED BY <3>2, <3>4
  <2> QED BY <1>2, <2>1, <2>2 DEF IceCovered
<1>3. CASE d # c
  <2>1. Take(q, c)[d] = q[d]
    BY <1>3 DEF Take
  <2> QED BY <2>1 DEF IceCovered
<1> QED BY <1>2, <1>3

LEMMA PutSdp ==
    ASSUME NEW P, NEW q \in [Clients -> Seq(P)], NEW S, NEW p \in P, NEW d \in Clients,
           SdpQueued(q, d) \/ (d \in S /\ p.ev \in Sdps)
    PROVE  SdpQueued(Put(q, S, p), d)
<1>1. Put(q, S, p)[d] = IF d \in S THEN Append(q[d], p) ELSE q[d]
  BY DEF Put
<1>2. CASE SdpQueued(q, d)
  BY <1>1, <1>2 DEF SdpQueued
<1>3. CASE d \in S /\ p.ev \in Sdps
  <2>1. /\ Len(q[d]) + 1 \in DOMAIN Append(q[d], p)
        /\ Append(q[d], p)[Len(q[d]) + 1] = p
    OBVIOUS
  <2> QED BY <1>1, <1>3, <2>1 DEF SdpQueued
<1> QED BY <1>2, <1>3

LEMMA PutCovered ==
    ASSUME NEW P, NEW q \in [Clients -> Seq(P)], NEW S, NEW p \in P, NEW d \in Clients,
           IceCovered(q, d), d \in S /\ p.ev = "ice" => SdpQueued(q, d)
    PROVE  IceCovered(Put(q, S, p), d)
<1> DEFINE r == Put(q, S, p)
<1>1. r[d] = IF d \in S THEN Append(q[d], p) ELSE q[d]
  BY DEF Put
<1>2. ASSUME NEW j \in DOMAIN q[d] PROVE j \in DOMAIN r[d] /\ r[d][j] = q[d][j]
  BY <1>1
<1>3. ASSUME NEW i \in DOMAIN r[d], r[d][i].ev = "ice"
      PROVE  \E j \in DOMAIN r[d] : j < i /\ r[d][j].ev \in Sdps
  <2>1. CASE i \in DOMAIN q[d] /\ r[d][i] = q[d][i]
    BY <1>2, <1>3, <2>1 DEF IceCovered
  <2>2. CASE d \in S /\ i = Len(q[d]) + 1 /\ r[d][i] = p
    <3>1. PICK j \in DOMAIN q[d] : q[d][j].ev \in Sdps
      BY <1>3, <2>2 DEF SdpQueued
    <3>2. j < i
      BY <2>2
    <3> QED BY <1>2, <3>1, <3>2
  <2> QED BY <2>1, <2>2, PutAt
<1> QED BY <1>3 DEF IceCovered

LEMMA MetStays ==
    ASSUME TypeOK, Next
    PROVE  \A o \in Clients : Met(o) => Met(o)'
<1>1. \/ UNCHANGED remote
      \/ \E c \in Clients, ev \in Sdps : remote' = [remote EXCEPT ![c] = ev]
  BY DEF Next, TimeOut, CallTimesOut, ServerStep, Listener, Observer, Environment,
         set_as_caller, set_as_callee, ready, offer, answer, ice, ack, SessionEnded,
         receive_offer_create_answer, receive_answer, ParseFails, SetRemoteFails, Unexpected,
         OnSuccess, OnIceCandidate, on_connected, on_fail, on_close, OnFailure, peerVars, Sdps
<1>2. \A o \in Clients : remote[o] # "none" => remote'[o] # "none"
  BY <1>1 DEF TypeOK, PeerTypeOK, Sdps
<1> QED BY <1>2, FailedStays DEF Met

\* A way between the two peers is up only if it was: no link opens again.
LEMMA WaysClose ==
    ASSUME TypeOK, RoleInv, [Next]_vars, UNCHANGED peers
    PROVE  /\ \A d, o \in Clients : ServerWay(d, o)' => ServerWay(d, o)
           /\ \A o \in Clients : link'[o] \in {"idle", "open"} => link[o] \in {"idle", "open"}
           /\ \A d, o \in Clients :
                Others(d, o) /\ link'[d] = "open" => link[d] = "open"
<1>1. ASSUME NEW c \in Clients, Admit(c) PROVE FALSE
  <2>1. peers' = Append(peers, c) /\ peers \in Seq(Clients)
    BY <1>1 DEF Admit, TypeOK, ServerTypeOK
  <2>2. Len(Append(peers, c)) = Len(peers) + 1 /\ Len(peers) \in Nat
    BY <2>1
  <2> QED BY <2>1, <2>2
<1>2. online' \subseteq online
  BY <1>1 DEF Next, TimeOut, CallTimesOut, ServerStep, Refuse, Relay, CallReturns, Listener,
         Receives, set_as_caller, set_as_callee, ready, offer, answer, ice, ack, SessionEnded,
         Observer, OnSuccess, OnIceCandidate,
         Environment, on_connected, on_fail, on_close, OnFailure, Disconnect, netVars, vars
<1>3. \/ link' = link
      \/ \E c \in Clients, l \in {"detached", "closed"} : link' = [link EXCEPT ![c] = l]
      \/ \E c \in Clients : link[c] = "idle" /\ link' = [link EXCEPT ![c] = "open"]
  BY <1>1 DEF Next, TimeOut, CallTimesOut, ServerStep, Refuse, Relay, CallReturns, Listener,
         Receives, set_as_caller, set_as_callee, ready, offer, answer, ice, ack, SessionEnded,
         Observer, OnSuccess, OnIceCandidate,
         Environment, on_connected, on_fail, on_close, OnFailure, Disconnect, netVars, vars
<1>4. link \in [Clients -> LinkState]
  BY DEF TypeOK, NetTypeOK
<1>5. \A o \in Clients : link'[o] \in {"idle", "open"} => link[o] \in {"idle", "open"}
  BY <1>3, <1>4
<1>6. \A o \in Clients : IsPeer(o) => link[o] # "idle"
  BY DEF RoleInv, ConnectsOnce
<1>7. \A d, o \in Clients : Others(d, o) => IsPeer(d) /\ IsPeer(o)
  BY DEF Others, First, Second, IsPeer, TypeOK, ServerTypeOK
<1>8. \A d \in Clients : IsPeer(d) /\ link'[d] = "open" => link[d] = "open"
  BY <1>3, <1>4, <1>6
<1>9. \A d, o \in Clients : Others(d, o)' <=> Others(d, o)
  BY DEF Others, First, Second
<1>10. \A d, o \in Clients : ServerWay(d, o)' => ServerWay(d, o)
  BY <1>2, <1>7, <1>8, <1>9 DEF ServerWay
<1> QED BY <1>5, <1>7, <1>8, <1>10

\* What a step has to keep when no peer is admitted.
LEMMA IceKept ==
    ASSUME TypeOK, RoleInv, IceInv, Next, UNCHANGED peers, MadeFirst',
           \A o \in Clients : link'[o] \in {"idle", "open"} /\ IceCovered(down, o) =>
                Met(o)' \/ IceCovered(down', o),
           \A d, o \in Clients : ServerWay(d, o) /\ ServerWay(d, o)' /\ SdpQueued(down, o) =>
                Met(o)' \/ SdpQueued(down', o),
           \A d, o \in Clients : ServerWay(d, o) /\ ServerWay(d, o)' /\ IceCovered(up, d) =>
                Met(o)' \/ SdpQueued(down', o) \/ IceCovered(up', d),
           \A d, o \in Clients : ServerWay(d, o) /\ ServerWay(d, o)' /\ SdpQueued(up, d) =>
                Met(o)' \/ SdpQueued(down', o) \/ SdpQueued(up', d),
           \A d \in Clients : link'[d] = "open" /\ local'[d] # "none" =>
                local[d] # "none" \/ SdpQueued(up', d)
    PROVE  IceInv'
<1>1. \A o \in Clients : Met(o) => Met(o)'
  BY MetStays
<1>2. /\ \A d, o \in Clients : ServerWay(d, o)' => ServerWay(d, o)
      /\ \A o \in Clients : link'[o] \in {"idle", "open"} => link[o] \in {"idle", "open"}
      /\ \A d, o \in Clients : Others(d, o) /\ link'[d] = "open" => link[d] = "open"
  BY WaysClose
<1>3. ASSUME NEW o \in Clients, link'[o] \in {"idle", "open"}
      PROVE  Met(o)' \/ IceCovered(down', o)
  BY <1>1, <1>2, <1>3 DEF IceInv, DownIce
<1>4. ASSUME NEW d \in Clients, NEW o \in Clients, ServerWay(d, o)'
      PROVE  Met(o)' \/ SdpQueued(down', o) \/ IceCovered(up', d)
  BY <1>1, <1>2, <1>4 DEF IceInv, UpIce
<1>5. ASSUME NEW d \in Clients, NEW o \in Clients, ServerWay(d, o)', link'[d] = "open",
             local'[d] # "none"
      PROVE  Met(o)' \/ SdpQueued(down', o) \/ SdpQueued(up', d)
  <2>1. ServerWay(d, o) /\ link[d] = "open"
    BY <1>2, <1>5 DEF ServerWay
  <2> QED BY <1>1, <1>5, <2>1 DEF IceInv, LocalIce
<1>6. DownIce'
  BY <1>3 DEF DownIce, IceCovered
<1>7. UpIce'
  BY <1>4 DEF UpIce, SdpQueued, IceCovered
<1>8. LocalIce'
  BY <1>5 DEF LocalIce, SdpQueued
<1> QED BY <1>6, <1>7, <1>8 DEF IceInv

\* What a step adds to the packets under way to the server.
LEMMA UpStep ==
    ASSUME TypeOK, Next
    PROVE  \E c \in Clients :
              \/ up' = up
              \/ up' = [up EXCEPT ![c] = <<>>] /\ Disconnect(c)
              \/ up' = Take(up, c) /\ up[c] # <<>> /\ ServerStep(c)
              \/ \E p \in ToServer :
                    /\ up' = Put(up, {c}, p)
                    /\ \/ p.ev \in {"connect", "ack"}
                       \/ p.ev = "ice" /\ OnIceCandidate(c)
                       \/ p.ev \in Sdps /\ OnSuccess(c)
<1>1. ASSUME NEW c \in Clients, ServerStep(c) PROVE up' = Take(up, c) /\ up[c] # <<>>
  BY <1>1 DEF ServerStep, Refuse, Admit, Relay, CallReturns, HeadIs
<1>2. ASSUME NEW c \in Clients, Listener(c)
      PROVE  up' = up \/ \E p \in ToServer : up' = Put(up, {c}, p) /\ p.ev = "ack"
  BY <1>2, ListenerUp
<1>3. ASSUME NEW c \in Clients, OnSuccess(c)
      PROVE  up' = up \/ \E p \in ToServer : up' = Put(up, {c}, p) /\ p.ev \in Sdps
  <2> DEFINE p == Emit(Sdp(SdpEvent(c), c))
  <2>1. p \in ToServer /\ p.ev \in Sdps /\ emit(c, p)
    BY <1>3, PacketType DEF OnSuccess, SdpEvent, Emit, Sdp, Sdps
  <2> QED BY <2>1 DEF emit
<1>4. ASSUME NEW c \in Clients, OnIceCandidate(c)
      PROVE  up' = up \/ \E p \in ToServer : up' = Put(up, {c}, p) /\ p.ev = "ice"
  <2> DEFINE p == Emit(Ice(c, gathered[c] + 1))
  <2>1. gathered[c] + 1 \in 0 .. MaxIce
    BY <1>4, SignalingAssumption DEF OnIceCandidate, TypeOK, PeerTypeOK
  <2>2. p \in ToServer /\ p.ev = "ice" /\ emit(c, p)
    BY <1>4, <2>1, PacketType DEF OnIceCandidate, Emit, Ice
  <2> QED BY <2>2 DEF emit
<1>5. ASSUME NEW c \in Clients, Environment(c)
      PROVE  \/ up' = up
             \/ up' = [up EXCEPT ![c] = <<>>] /\ Disconnect(c)
             \/ \E p \in ToServer : up' = Put(up, {c}, p) /\ p.ev = "connect"
  <2>1. Notice("connect") \in ToServer /\ Notice("connect").ev = "connect"
    BY PacketType DEF Notice
  <2> QED BY <1>5, <2>1
             DEF Environment, on_connected, on_fail, on_close, OnFailure, Disconnect, netVars
<1>6. ASSUME NEW k \in calls, TimeOut(k) PROVE up' = up /\ Clients # {}
  BY <1>6 DEF TimeOut, CallTimesOut, netVars, TypeOK, ServerTypeOK, PendingCall
<1> QED
  <2>1. CASE \E c \in Clients : ServerStep(c)
    BY <1>1, <2>1
  <2>2. CASE \E c \in Clients : Listener(c)
    BY <1>2, <2>2
  <2>3. CASE \E c \in Clients : Observer(c)
    BY <1>3, <1>4, <2>3 DEF Observer
  <2>4. CASE \E c \in Clients : Environment(c)
    BY <1>5, <2>4
  <2>5. CASE \E k \in calls : TimeOut(k)
    BY <1>6, <2>5
  <2> QED BY <2>1, <2>2, <2>3, <2>4, <2>5 DEF Next

LEMMA MadeKept ==
    ASSUME TypeOK, MadeFirst, Next
    PROVE  MadeFirst'
<1>1. ASSUME NEW d \in Clients, Queued(up', d, "ice") PROVE Queued(up, d, "ice") \/ local[d] # "none"
  <2>1. up \in [Clients -> Seq(ToServer)]
    BY DEF TypeOK, NetTypeOK
  <2>2. PICK c \in Clients :
              \/ up' = up
              \/ up' = [up EXCEPT ![c] = <<>>]
              \/ up' = Take(up, c) /\ up[c] # <<>>
              \/ \E p \in ToServer :
                    up' = Put(up, {c}, p) /\ (p.ev = "ice" => OnIceCandidate(c))
    BY UpStep DEF Sdps
  <2>3. CASE up' = [up EXCEPT ![c] = <<>>]
    BY <1>1, <2>1, <2>3, DropNoMore DEF NoMore
  <2>4. CASE up' = Take(up, c) /\ up[c] # <<>>
    BY <1>1, <2>1, <2>4, TakeQueued
  <2>5. ASSUME NEW p \in ToServer, up' = Put(up, {c}, p), p.ev = "ice" => OnIceCandidate(c)
        PROVE  Queued(up, d, "ice") \/ local[d] # "none"
    <3>1. Queued(Put(up, {c}, p), d, "ice")
      BY <1>1, <2>5
    <3>2. Queued(up, d, "ice") \/ (d \in {c} /\ p.ev = "ice")
      BY <2>1, <3>1, PutQueued
    <3> QED BY <2>5, <3>2 DEF OnIceCandidate, MayGather
  <2> QED BY <1>1, <2>2, <2>3, <2>4, <2>5
<1>2. \/ UNCHANGED <<local, made>>
      \/ \E c \in Clients :
            /\ made' = [made EXCEPT ![c] = creating[c]] /\ creating[c] # "none"
            /\ local' = [local EXCEPT ![c] = creating[c]] \/ local' = local
  BY DEF Next, TimeOut, CallTimesOut, ServerStep, Listener, Observer, Environment,
         set_as_caller, set_as_callee, ready, offer, answer, ice, ack, SessionEnded,
         OnSuccess, OnIceCandidate, on_connected, on_fail, on_close, OnFailure, peerVars
<1>3. ASSUME NEW d \in Clients
      PROVE  /\ made[d] # "none" => made'[d] # "none"
             /\ local'[d] # "none" => local[d] # "none" \/ made'[d] # "none"
  BY <1>2 DEF TypeOK, PeerTypeOK
<1> QED BY <1>1, <1>3 DEF MadeFirst, Queued

\* Who has a call for the server to relay is one of the peers.
LEMMA CallerIsPeer ==
    ASSUME TypeOK, RoleInv, NEW c \in Clients, up[c] # <<>>,
           Head(up[c]).ev \in Sdps \cup {"ice"}
    PROVE  IsPeer(c)
<1>1. up \in [Clients -> Seq(ToServer)]
  BY DEF TypeOK, NetTypeOK
<1>2. 1 \in DOMAIN up[c] /\ up[c][1] = Head(up[c])
  BY <1>1
<1>3. type_[c] \in {"Caller", "Callee"}
  BY <1>2 DEF RoleInv, OnlyPeersTalk, Sdps, TypeOK, PeerTypeOK, PeerType
<1>4. First(c) \/ Second(c)
  BY <1>3, Places
<1> QED BY <1>4 DEF First, Second, IsPeer, TypeOK, ServerTypeOK

LEMMA ServerIce ==
    ASSUME TypeOK, RoleInv, SdpInv, IceInv, Next, NEW c \in Clients,
           Refuse(c) \/ CallReturns(c) \/ Relay(c), UNCHANGED peerVars
    PROVE  IceInv'
<1>1. /\ up \in [Clients -> Seq(ToServer)] /\ down \in [Clients -> Seq(ToClient)]
      /\ up[c] # <<>> /\ up' = Take(up, c)
      /\ UNCHANGED <<link, peers, local>>
  BY DEF Refuse, CallReturns, Relay, HeadIs, TypeOK, NetTypeOK, serverVars, peerVars
<1>2. MadeFirst'
  BY MadeKept DEF IceInv
<1>3. \/ down' = down
      \/ \E S, p : p \in ToClient /\ down' = Put(down, S, p) /\ p.ev # "ice"
      \/ /\ Relay(c) /\ CounterIndexes(c) # {} /\ Head(up[c]).ev \in Sdps \cup {"ice"}
         /\ \E p \in ToClient : /\ down' = Put(down, {Counter(c)} \cap online, p)
                                /\ p.ev = Head(up[c]).ev
  <2>1. Notice("disconnect") \in ToClient /\ Notice("disconnect").ev # "ice"
    BY PacketType DEF Notice
  <2>2. CallReturns(c) => Head(up[c]) \in ToClient /\ Head(up[c]).ev = "ack"
    <3>1. Head(up[c]) \in ToServer
      BY <1>1, TakeType
    <3> QED BY <3>1, HeadAck DEF CallReturns, HeadIs, ToClient, AckPacket
  <2>3. CASE Relay(c)
    <3>1. PICK k \in Call : Head(up[c]) = Emit(k) /\ Head(up[c]).call = k
      BY <2>3 DEF Relay, CallPacket, Emit
    <3>2. Emit(k) \in ToClient
      BY PacketType
    <3>3. Head(up[c]).ev \in Sdps \cup {"ice"}
      BY <3>1 DEF Emit, Call, Sdps
    <3> QED BY <2>3, <3>1, <3>2, <3>3 DEF Relay
  <2> QED BY <2>1, <2>2, <2>3 DEF Refuse, CallReturns
<1>4. \A o \in Clients : Met(o) => Met(o)'
  BY MetStays
<1>5. ASSUME NEW o \in Clients, SdpQueued(down, o) PROVE SdpQueued(down', o)
  <2>1. \A S, p : p \in ToClient => SdpQueued(Put(down, S, p), o)
    BY <1>1, <1>5, PutSdp
  <2>2. CASE \E S, p : p \in ToClient /\ down' = Put(down, S, p)
    BY <2>1, <2>2
  <2>3. down' = down \/ \E S, p : p \in ToClient /\ down' = Put(down, S, p)
    BY <1>3
  <2> QED BY <1>5, <2>2, <2>3
\* The other peer of c is sent its packet, if the way to it is up.
<1>6. ASSUME NEW o \in Clients, ServerWay(c, o), Relay(c)
      PROVE  CounterIndexes(c) # {} /\ Counter(c) = o
  <2>1. PICK a \in Clients, b \in Clients :
            First(a) /\ Second(b) /\ ((c = a /\ o = b) \/ (c = b /\ o = a))
    BY <1>6 DEF ServerWay, Others
  <2>2. CounterIndexes(c) # {}
    <3>1. peers[1] = a /\ peers[2] = b /\ a # b /\ 1 \in DOMAIN peers /\ 2 \in DOMAIN peers
      BY <2>1, Places DEF First, Second, TypeOK, ServerTypeOK
    <3> QED BY <2>1, <3>1 DEF CounterIndexes
  <2> QED BY <2>1, <2>2, CounterOfPeer
<1>7. ASSUME NEW o \in Clients, ServerWay(c, o), Head(up[c]).ev \in Sdps
      PROVE  SdpQueued(down', o)
  <2>1. Relay(c)
    BY <1>7 DEF Refuse, CallReturns, HeadIs, Sdps
  <2>2. CounterIndexes(c) # {} /\ Counter(c) = o /\ o \in online
    BY <1>6, <1>7, <2>1 DEF ServerWay
  <2>3. PICK k \in Call : Head(up[c]) = Emit(k) /\ Head(up[c]).call = k
    BY <2>1 DEF Relay, CallPacket, Emit
  <2>4. Emit(k) \in ToClient /\ Emit(k).ev \in Sdps
    BY <1>7, <2>3, PacketType
  <2>5. down' = Put(down, {o} \cap online, Emit(k))
    BY <2>1, <2>2, <2>3 DEF Relay
  <2> DEFINE S == {o} \cap online
  <2>6. o \in S
    BY <2>2
  <2>7. SdpQueued(Put(down, S, Emit(k)), o)
    <3> HIDE DEF S
    <3> QED BY <1>1, <2>4, <2>6, PutSdp
  <2> QED BY <2>5, <2>7
<1>8. ASSUME NEW o \in Clients, link'[o] \in {"idle", "open"}, IceCovered(down, o)
      PROVE  Met(o)' \/ IceCovered(down', o)
  <2>1. CASE down' = down
    BY <1>8, <2>1
  <2>2. ASSUME NEW S, NEW p \in ToClient, down' = Put(down, S, p), p.ev # "ice"
        PROVE  IceCovered(down', o)
    <3>1. IceCovered(Put(down, S, p), o)
      BY <1>1, <1>8, <2>2, PutCovered
    <3> QED BY <2>2, <3>1
  <2>3. ASSUME Relay(c), CounterIndexes(c) # {}, Head(up[c]).ev = "ice", NEW p \in ToClient,
               down' = Put(down, {Counter(c)} \cap online, p)
        PROVE  Met(o)' \/ IceCovered(down', o)
    <3> DEFINE S == {Counter(c)} \cap online
    <3>1. CASE o \in S
      <4>1. ServerWay(c, o)
        <5>1. Counter(c) = o /\ IsPeer(o) /\ o # c /\ o \in online /\ c \in online
          BY <2>3, <3>1, CounterIsOther DEF TypeOK, Relay
        <5>2. link[o] = "open"
          BY <1>1, <1>8, <5>1 DEF RoleInv, ConnectsOnce
        <5>3. IsPeer(c)
          BY <1>1, <2>3, CallerIsPeer DEF Sdps
        <5>4. Others(c, o)
          <6>1. Len(peers) \in Nat /\ Len(peers) <= 2 /\ DOMAIN peers = 1 .. Len(peers)
            BY DEF RoleInv, PeersInOrder, TypeOK, ServerTypeOK
          <6> QED BY <5>1, <5>3, <6>1 DEF IsPeer, Others, First, Second
        <5> QED BY <5>1, <5>2, <5>4 DEF ServerWay
      <4>2. ~IceCovered(up, c)
        <5>1. 1 \in DOMAIN up[c] /\ up[c][1].ev = "ice" /\ DOMAIN up[c] \subseteq Nat \ {0}
          BY <1>1, <2>3
        <5> QED BY <5>1 DEF IceCovered
      <4>3. Met(o) \/ SdpQueued(down, o)
        BY <4>1, <4>2 DEF IceInv, UpIce
      <4>4. SdpQueued(down, o) => IceCovered(Put(down, S, p), o)
        <5> HIDE DEF S
        <5> QED BY <1>1, <1>8, PutCovered
      <4> QED BY <1>4, <2>3, <4>3, <4>4
    <3>2. CASE o \notin S
      <4>1. IceCovered(Put(down, S, p), o)
        <5> HIDE DEF S
        <5> QED BY <1>1, <1>8, <3>2, PutCovered
      <4> QED BY <2>3, <4>1
    <3> QED BY <3>1, <3>2
  <2> QED BY <1>3, <2>1, <2>2, <2>3 DEF Sdps
<1>9. ASSUME NEW d \in Clients, NEW o \in Clients, ServerWay(d, o), IceCovered(up, d)
      PROVE  SdpQueued(down', o) \/ IceCovered(up', d)
  <2>1. CASE d = c /\ Head(up[c]).ev \in Sdps
    BY <1>7, <1>9, <2>1
  <2>2. CASE ~(d = c /\ Head(up[c]).ev \in Sdps)
    BY <1>1, <1>9, <2>2, TakeCovered
  <2> QED BY <2>1, <2>2
<1>10. ASSUME NEW d \in Clients, NEW o \in Clients, ServerWay(d, o), SdpQueued(up, d)
       PROVE  SdpQueued(down', o) \/ SdpQueued(up', d)
  <2>1. CASE d = c /\ Head(up[c]).ev \in Sdps
    BY <1>7, <1>10, <2>1
  <2>2. CASE ~(d = c /\ Head(up[c]).ev \in Sdps)
    BY <1>1, <1>10, <2>2, TakeSdp
  <2> QED BY <2>1, <2>2
<1> QED BY <1>1, <1>2, <1>5, <1>8, <1>9, <1>10, IceKept

\* A description that arrives is set, or failed to be set.
LEMMA HeadMet ==
    ASSUME TypeOK, RoleInv, SdpInv, NEW c \in Clients, Listener(c),
           Head(down[c]).ev \in Sdps
    PROVE  Met(c)'
<1>1. offer(c) \/ answer(c)
  BY DEF Listener, Receives, HeadIs, set_as_caller, set_as_callee, ready, ice, ack,
         SessionEnded, Sdps
<1>2. CASE offer(c)
  <2>1. type_[c] = "Callee"
    BY <1>2, OfferMet DEF offer, Receives
  <2>2. remote' = [remote EXCEPT ![c] = "offer"] \/ failed' = [failed EXCEPT ![c] = TRUE]
    BY <1>2, <2>1 DEF offer, receive_offer_create_answer, ParseFails, SetRemoteFails
  <2> QED BY <2>2 DEF Met, TypeOK, PeerTypeOK
<1>3. CASE answer(c)
  <2>1. type_[c] = "Caller"
    BY <1>3, AnswerMet DEF answer, Receives
  <2>2. remote' = [remote EXCEPT ![c] = "answer"] \/ failed' = [failed EXCEPT ![c] = TRUE]
    BY <1>3, <2>1 DEF answer, receive_answer, ParseFails, SetRemoteFails
  <2> QED BY <2>2 DEF Met, TypeOK, PeerTypeOK
<1> QED BY <1>1, <1>2, <1>3

\* Packets that are no candidate keep the queues to the server in order.
LEMMA UpPut ==
    ASSUME TypeOK, NEW c \in Clients, NEW d \in Clients,
           \/ up' = up
           \/ \E p \in ToServer :
                up' = Put(up, {c}, p) /\ (d = c /\ p.ev = "ice" => SdpQueued(up, c))
    PROVE  /\ IceCovered(up, d) => IceCovered(up', d)
           /\ SdpQueued(up, d) => SdpQueued(up', d)
<1>1. up \in [Clients -> Seq(ToServer)]
  BY DEF TypeOK, NetTypeOK
<1>2. ASSUME NEW p \in ToServer, up' = Put(up, {c}, p),
             d = c /\ p.ev = "ice" => SdpQueued(up, c)
      PROVE  /\ IceCovered(up, d) => IceCovered(up', d)
             /\ SdpQueued(up, d) => SdpQueued(up', d)
  <2>1. IceCovered(up, d) => IceCovered(Put(up, {c}, p), d)
    BY <1>1, <1>2, PutCovered
  <2>2. SdpQueued(up, d) => SdpQueued(Put(up, {c}, p), d)
    BY <1>1, PutSdp
  <2> QED BY <1>2, <2>1, <2>2
<1> QED BY <1>2

LEMMA ListenerIce ==
    ASSUME TypeOK, RoleInv, SdpInv, IceInv, Next, NEW c \in Clients, Listener(c)
    PROVE  IceInv'
<1>1. /\ link[c] = "open" /\ down[c] # <<>> /\ down' = Take(down, c)
      /\ down \in [Clients -> Seq(ToClient)] /\ UNCHANGED <<peers, local>>
  BY ListenerTakes
     DEF Listener, set_as_caller, set_as_callee, ready, offer, answer, ice, ack,
         SessionEnded, peerVars
<1>2. MadeFirst'
  BY MadeKept DEF IceInv
<1>3. \A d \in Clients : /\ IceCovered(up, d) => IceCovered(up', d)
                         /\ SdpQueued(up, d) => SdpQueued(up', d)
  BY ListenerUp, UpPut
<1>4. ASSUME NEW o \in Clients
      PROVE  /\ IceCovered(down, o) => Met(o)' \/ IceCovered(down', o)
             /\ SdpQueued(down, o) => Met(o)' \/ SdpQueued(down', o)
  <2>1. CASE o = c /\ Head(down[c]).ev \in Sdps
    BY <2>1, HeadMet
  <2>2. CASE ~(o = c /\ Head(down[c]).ev \in Sdps)
    BY <1>1, <2>2, TakeCovered, TakeSdp
  <2> QED BY <2>1, <2>2
<1> QED BY <1>1, <1>2, <1>3, <1>4, IceKept

LEMMA ObserverIce ==
    ASSUME TypeOK, RoleInv, SdpInv, IceInv, Next, NEW c \in Clients, Observer(c)
    PROVE  IceInv'
<1>1. UNCHANGED <<link, down, peers>>
  BY DEF Observer, OnSuccess, OnIceCandidate, serverVars
<1>2. MadeFirst'
  BY MadeKept DEF IceInv
<1>3. \A o \in Clients : Met(o) => Met(o)'
  BY MetStays
<1>4. up \in [Clients -> Seq(ToServer)]
  BY DEF TypeOK, NetTypeOK
<1>5. CASE OnSuccess(c)
  <2> DEFINE p == Emit(Sdp(SdpEvent(c), c))
  <2>1. p \in ToServer /\ p.ev \in Sdps /\ emit(c, p)
    BY <1>5, PacketType DEF OnSuccess, SdpEvent, Emit, Sdp, Sdps
  <2>2. \A d \in Clients : /\ IceCovered(up, d) => IceCovered(up', d)
                           /\ SdpQueued(up, d) => SdpQueued(up', d)
    <3>1. p.ev # "ice"
      BY <2>1 DEF Sdps
    <3>2. up' = up \/ up' = Put(up, {c}, p)
      BY <2>1 DEF emit
    <3> HIDE DEF p
    <3> QED BY <2>1, <3>1, <3>2, UpPut
  <2>3. link[c] = "open" => SdpQueued(up', c)
    <3>1. SdpQueued(Put(up, {c}, p), c)
      BY <1>4, <2>1, PutSdp
    <3> QED BY <2>1, <3>1 DEF emit
  <2>4. \A d \in Clients : d # c => local'[d] = local[d]
    BY <1>5 DEF OnSuccess, TypeOK, PeerTypeOK
  <2> QED BY <1>1, <1>2, <2>2, <2>3, <2>4, IceKept
<1>6. CASE OnIceCandidate(c)
  <2>1. UNCHANGED local /\ local[c] # "none"
    BY <1>6 DEF OnIceCandidate, MayGather
  <2>2. up' = up \/ (link[c] = "open" /\ \E p \in ToServer : up' = Put(up, {c}, p))
    <3>1. gathered[c] + 1 \in 0 .. MaxIce
      BY <1>6, SignalingAssumption DEF OnIceCandidate, TypeOK, PeerTypeOK
    <3>2. Emit(Ice(c, gathered[c] + 1)) \in ToServer
      BY <3>1, PacketType
    <3> QED BY <1>6, <3>2 DEF OnIceCandidate, emit
  <2>3. ASSUME NEW d \in Clients, NEW o \in Clients, ServerWay(d, o)
        PROVE  /\ IceCovered(up, d) => Met(o)' \/ SdpQueued(down', o) \/ IceCovered(up', d)
               /\ SdpQueued(up, d) => SdpQueued(up', d)
    <3>1. d = c /\ link[c] = "open" => Met(o) \/ SdpQueued(down, o) \/ SdpQueued(up, c)
      BY <2>1, <2>3 DEF IceInv, LocalIce
    <3>2. CASE up' = up
      BY <3>2
    <3>3. ASSUME link[c] = "open", NEW p \in ToServer, up' = Put(up, {c}, p)
          PROVE  /\ IceCovered(up, d) => Met(o)' \/ SdpQueued(down', o) \/ IceCovered(up', d)
                 /\ SdpQueued(up, d) => SdpQueued(up', d)
      <4>1. SdpQueued(up, d) => SdpQueued(Put(up, {c}, p), d)
        BY <1>4, PutSdp
      <4>2. IceCovered(up, d) /\ (d = c => SdpQueued(up, c)) =>
                IceCovered(Put(up, {c}, p), d)
        BY <1>4, PutCovered
      <4> QED BY <1>1, <1>3, <3>1, <3>3, <4>1, <4>2
    <3> QED BY <2>2, <3>2, <3>3
  <2> QED BY <1>1, <1>2, <2>1, <2>3, IceKept
<1> QED BY <1>5, <1>6 DEF Observer

LEMMA EnvironmentIce ==
    ASSUME TypeOK, RoleInv, SdpInv, IceInv, Next, NEW c \in Clients, Environment(c)
    PROVE  IceInv'
<1>1. /\ down \in [Clients -> Seq(ToClient)] /\ link \in [Clients -> LinkState]
      /\ online \subseteq Clients
      /\ UNCHANGED <<peers, local>>
  BY DEF TypeOK, NetTypeOK, Environment, on_connected, on_fail, on_close, OnFailure,
         Disconnect, serverVars, peerVars
<1>2. MadeFirst'
  BY MadeKept DEF IceInv
<1>3. \/ down' = down
      \/ down' = [down EXCEPT ![c] = <<>>] /\ link' = [link EXCEPT ![c] = "closed"]
  BY DEF Environment, on_connected, on_fail, on_close, OnFailure, Disconnect, netVars
<1>4. ASSUME NEW o \in Clients, link'[o] \in {"idle", "open"} PROVE down'[o] = down[o]
  BY <1>1, <1>3, <1>4
<1>5. \/ up' = up
      \/ \E p \in ToServer : up' = Put(up, {c}, p) /\ p.ev = "connect"
      \/ up' = [up EXCEPT ![c] = <<>>] /\ online' = online \ {c}
  <2>1. Notice("connect") \in ToServer /\ Notice("connect").ev = "connect"
    BY PacketType DEF Notice
  <2> QED BY <2>1
             DEF Environment, on_connected, on_fail, on_close, OnFailure, Disconnect, netVars
<1>6. ASSUME NEW d \in Clients, NEW o \in Clients, ServerWay(d, o)'
      PROVE  /\ IceCovered(up, d) => IceCovered(up', d)
             /\ SdpQueued(up, d) => SdpQueued(up', d)
  <2>1. d \in online'
    BY <1>6 DEF ServerWay
  <2>2. CASE up' = up \/ \E p \in ToServer : up' = Put(up, {c}, p) /\ p.ev = "connect"
    BY <2>2, UpPut
  <2>3. CASE up' = [up EXCEPT ![c] = <<>>] /\ online' = online \ {c}
    <3>1. d # c
      BY <2>1, <2>3
    <3>2. up'[d] = up[d]
      BY <2>3, <3>1 DEF TypeOK, NetTypeOK
    <3> QED BY <3>2 DEF IceCovered, SdpQueued
  <2> QED BY <1>5, <2>2, <2>3
<1>7. \A o \in Clients : link'[o] \in {"idle", "open"} =>
        /\ IceCovered(down, o) => IceCovered(down', o)
        /\ SdpQueued(down, o) => SdpQueued(down', o)
  BY <1>4 DEF IceCovered, SdpQueued
<1> QED
  <2>1. MadeFirst' /\ UNCHANGED <<peers, local>>
    BY <1>1, <1>2
  <2> QED BY <1>6, <1>7, <2>1, IceKept DEF ServerWay

LEMMA AdmitIce ==
    ASSUME TypeOK, RoleInv, SdpInv, IceInv, Next, NEW c \in Clients, Admit(c),
           UNCHANGED peerVars
    PROVE  IceInv'
<1> DEFINE room == {x \in online : IsPeer(x)} \cup {c}
           caller == Put(down, {c}, Notice("set-as-caller"))
           callee == Put(down, {c}, Notice("set-as-callee"))
<1>1. /\ up \in [Clients -> Seq(ToServer)] /\ down \in [Clients -> Seq(ToClient)]
      /\ up[c] # <<>> /\ up' = Take(up, c)
      /\ UNCHANGED <<link, made, remote, failed, local>>
  BY DEF Admit, HeadIs, TypeOK, NetTypeOK, peerVars
<1>2. peers \in Seq(Clients) /\ Len(peers) \in Nat /\ peers' = Append(peers, c)
  BY DEF Admit, TypeOK, ServerTypeOK
<1>3. MadeFirst'
  BY MadeKept DEF IceInv
<1>4. /\ Notice("set-as-caller") \in ToClient /\ Notice("set-as-caller").ev # "ice"
      /\ Notice("set-as-callee") \in ToClient /\ Notice("set-as-callee").ev # "ice"
      /\ Notice("ready") \in ToClient /\ Notice("ready").ev # "ice"
  BY PacketType DEF Notice
<1>5. ASSUME NEW o \in Clients, IceCovered(down, o) PROVE IceCovered(down', o)
  <2>1. callee \in [Clients -> Seq(ToClient)]
    BY <1>1, <1>4, PutType
  <2>2. IceCovered(caller, o) /\ IceCovered(callee, o)
    BY <1>1, <1>4, <1>5, PutCovered
  <2>3. IceCovered(Put(callee, room, Notice("ready")), o)
    <3> HIDE DEF callee, room
    <3> QED BY <1>4, <2>1, <2>2, PutCovered
  <2>4. down' = caller \/ down' = Put(callee, room, Notice("ready")) \/ down' = down
    BY DEF Admit, Announce
  <2> QED BY <1>5, <2>2, <2>3, <2>4
<1>6. DownIce'
  BY <1>1, <1>5 DEF IceInv, DownIce, Met, IceCovered
\* Nothing was made before there were two peers, and so no candidate gathered.
<1>7. \A d \in Clients : made[d] = "none"
  <2>1. Len(peers) <= 2 /\ Len(peers) # 2
    BY DEF Admit, RoleInv, PeersInOrder
  <2> DEFINE n == Len(peers)
  <2>2. n \in Nat /\ n <= 2 /\ n # 2
    BY <1>2, <2>1
  <2> HIDE DEF n
  <2>3. n < 2
    BY <2>2
  <2> QED BY <2>3 DEF n, SdpInv, NotBeforeTwo
<1>8. \A d \in Clients : local[d] = "none" /\ ~Queued(up, d, "ice")
  BY <1>7 DEF IceInv, MadeFirst
<1>9. \A d \in Clients : IceCovered(up', d)
  <2>1. \A d \in Clients : ~Queued(up', d, "ice")
    BY <1>1, <1>8, TakeQueued
  <2> QED BY <2>1 DEF IceCovered, Queued
<1>10. UpIce' /\ LocalIce'
  BY <1>1, <1>8, <1>9 DEF UpIce, LocalIce, IceCovered
<1> QED BY <1>3, <1>6, <1>10 DEF IceInv

\* For every set of clients: no candidate overtakes a description on its way.
THEOREM IceInvariant == Spec => []IceInv
<1>1. Init => IceInv
  <2> SUFFICES ASSUME Init PROVE IceInv
    OBVIOUS
  <2>1. /\ peers = <<>>
        /\ \A c \in Clients : up[c] = <<>> /\ down[c] = <<>> /\ local[c] = "none"
    BY DEF Init, NetInit, ServerInit, PeerInit
  <2>2. \A c \in Clients : ~Queued(up, c, "ice") /\ IceCovered(down, c)
    <3> SUFFICES ASSUME NEW c \in Clients
                 PROVE  ~Queued(up, c, "ice") /\ IceCovered(down, c)
      OBVIOUS
    <3>1. up[c] = <<>> /\ down[c] = <<>>
      BY <2>1
    <3> QED BY <3>1 DEF Queued, IceCovered
  <2>3. \A d, o \in Clients : ~ServerWay(d, o)
    BY <2>1 DEF ServerWay, Others, First
  <2> QED BY <2>1, <2>2, <2>3 DEF IceInv, MadeFirst, DownIce, UpIce, LocalIce
<1>2. TypeOK /\ RoleInv /\ SdpInv /\ IceInv /\ [Next]_vars => IceInv'
  <2> SUFFICES ASSUME TypeOK, RoleInv, SdpInv, IceInv, [Next]_vars PROVE IceInv'
    OBVIOUS
  <2>1. ASSUME UNCHANGED <<netVars, serverVars, peerVars>> \/ \E p \in calls : TimeOut(p)
        PROVE  IceInv'
    BY <2>1 DEF TimeOut, CallTimesOut, netVars, serverVars, peerVars, IceInv, MadeFirst,
                DownIce, UpIce, LocalIce, Met, IceCovered, SdpQueued, Queued, ServerWay,
                Others, First, Second
  <2>2. CASE Next
    <3>1. ASSUME NEW c \in Clients, ServerStep(c) PROVE IceInv'
      BY <2>2, <3>1, ServerIce, AdmitIce DEF ServerStep
    <3> QED BY <2>1, <2>2, <3>1, ListenerIce, ObserverIce, EnvironmentIce DEF Next
  <2> QED BY <2>1, <2>2 DEF vars
<1> QED BY <1>1, <1>2, TypeCorrect, RoleInvariant, SdpInvariant, PTL DEF Spec

\* A candidate that arrives finds the description it belongs to.
LEMMA IceMet ==
    ASSUME TypeOK, IceInv, NEW c \in Clients, link[c] = "open", HeadIs(down, c, "ice")
    PROVE  remote[c] # "none" \/ failed[c]
<1>1. 1 \in DOMAIN down[c] /\ down[c][1].ev = "ice" /\ DOMAIN down[c] \subseteq Nat \ {0}
  BY HeadQueued DEF TypeOK, NetTypeOK
<1>2. ~IceCovered(down, c)
  BY <1>1 DEF IceCovered
<1> QED BY <1>2 DEF IceInv, DownIce, Met

\* No candidate is given to a client before the description it belongs to.
THEOREM IceNeverEarly == Spec => []IceAfterDescription
<1>1. TypeOK /\ IceInv => IceAfterDescription
  BY IceMet DEF IceAfterDescription
<1> QED BY <1>1, TypeCorrect, IceInvariant, PTL

\* While the library reports no failure of its own, what a client made it also set,
\* and so it did what it was sent.
AllWell == \A c \in Clients : ~failed[c] /\ unset[c] = "none" /\ local[c] = made[c]

LEMMA StaysWell ==
    ASSUME ~WebRtcFails
    PROVE  Spec => []AllWell
<1>1. Init => AllWell
  BY DEF Init, PeerInit, AllWell
<1>2. TypeOK /\ RoleInv /\ SdpInv /\ IceInv /\ AllWell /\ [Next]_vars => AllWell'
  <2> SUFFICES ASSUME TypeOK, RoleInv, SdpInv, IceInv, AllWell, [Next]_vars PROVE AllWell'
    OBVIOUS
  <2>1. UNCHANGED <<failed, unset, local, made>> => AllWell'
    BY DEF AllWell
  <2>2. ASSUME NEW c \in Clients, offer(c) PROVE UNCHANGED <<failed, unset, local, made>>
    <3>1. type_[c] = "Callee"
      BY <2>2, OfferMet DEF offer, Receives
    <3> QED BY <2>2, <3>1 DEF offer, receive_offer_create_answer, ParseFails, SetRemoteFails
  <2>3. ASSUME NEW c \in Clients, answer(c) PROVE UNCHANGED <<failed, unset, local, made>>
    <3>1. type_[c] = "Caller" /\ local[c] = "offer"
      BY <2>3, AnswerMet DEF answer, Receives, AllWell
    <3> QED BY <2>3, <3>1 DEF answer, receive_answer, ParseFails, SetRemoteFails
  <2>4. ASSUME NEW c \in Clients, ice(c) PROVE UNCHANGED <<failed, unset, local, made>>
    <3>1. remote[c] # "none"
      BY <2>4, IceMet DEF ice, Receives, AllWell
    <3> QED BY <2>4, <3>1 DEF ice, add_ice_candidate
  <2>5. ASSUME NEW c \in Clients, OnSuccess(c) PROVE AllWell'
    BY <2>5 DEF OnSuccess, AllWell, TypeOK, PeerTypeOK
  <2> QED BY <2>1, <2>2, <2>3, <2>4, <2>5
          DEF Next, TimeOut, CallTimesOut, ServerStep, Listener, Observer, Environment,
              set_as_caller, set_as_callee, ready, ack, SessionEnded, OnIceCandidate,
              on_connected, on_fail, on_close, OnFailure, vars, peerVars
<1> QED
  BY <1>1, <1>2, TypeCorrect, RoleInvariant, SdpInvariant, IceInvariant, PTL DEF Spec

\* With a library that does not fail by itself nothing fails: signaling brings
\* each description and each candidate when it can be taken.
THEOREM WithoutFailures ==
    ASSUME ~WebRtcFails
    PROVE  Spec => []NothingFails
<1>1. AllWell => NothingFails
  BY DEF AllWell, NothingFails
<1> QED BY <1>1, StaysWell, PTL

\* An ok for a description means that it is set, and one for a candidate that it
\* was added.
AcceptedMeansSet ==
    \A c \in Clients : \A k \in sentOk[c] :
        \E d \in Clients \ {c} :
            /\ k.ev \in Sdps => remote[d] = k.ev
            /\ k.ev = "ice" => k.n \in added[d]

\* With such a library an ok needs no excuse: although offer and answer acknowledge
\* without waiting for SetRemoteDescription, what was acknowledged with ok was done.
THEOREM AcceptedIsSet ==
    ASSUME ~WebRtcFails
    PROVE  Spec => []AcceptedMeansSet
<1>1. AcceptedMeansHandled /\ AllWell => AcceptedMeansSet
  BY DEF AcceptedMeansHandled, AllWell, AcceptedMeansSet, Sdps
<1> QED BY <1>1, AcceptedIsHandled, StaysWell, PTL

------------------------------------------------------------------------------
(* What a step adds to the packets under way to the clients *)

LEMMA ServerPuts ==
    ASSUME TypeOK, NEW c \in Clients, Refuse(c) \/ CallReturns(c) \/ Relay(c)
    PROVE  \/ down' = down
           \/ \E S, p : /\ p \in ToClient /\ down' = Put(down, S, p)
                        /\ p.ev \in {"disconnect", "ack"}
           \/ /\ Relay(c) /\ CounterIndexes(c) # {}
              /\ up[c] # <<>> /\ Head(up[c]) \in CallPacket \cap ToClient
              /\ down' = Put(down, {Counter(c)} \cap online, Head(up[c]))
<1>1. CASE Refuse(c)
  <2>1. Notice("disconnect") \in ToClient /\ Notice("disconnect").ev = "disconnect"
    BY PacketType DEF Notice
  <2> QED BY <1>1, <2>1 DEF Refuse
<1>2. CASE CallReturns(c)
  <2>1. Head(up[c]) \in ToServer
    BY <1>2, TakeType DEF CallReturns, HeadIs, TypeOK, NetTypeOK
  <2>2. Head(up[c]) \in ToClient /\ Head(up[c]).ev = "ack"
    BY <1>2, <2>1, HeadAck DEF CallReturns, HeadIs, ToClient, AckPacket
  <2> QED BY <1>2, <2>2 DEF CallReturns
<1>3. CASE Relay(c)
  <2>1. PICK k \in Call : Head(up[c]) = Emit(k) /\ Head(up[c]).call = k
    BY <1>3 DEF Relay, CallPacket, Emit
  <2>2. Head(up[c]) \in CallPacket \cap ToClient
    BY <2>1, PacketType DEF CallPacket
  <2> QED BY <1>3, <2>1, <2>2 DEF Relay
<1> QED BY <1>1, <1>2, <1>3

LEMMA DownStep ==
    ASSUME TypeOK, Next
    PROVE  \E c \in Clients :
              \/ down' = down
              \/ down' = [down EXCEPT ![c] = <<>>] /\ link' = [link EXCEPT ![c] = "closed"]
              \/ Listener(c)
              \/ Admit(c) /\ UNCHANGED peerVars
              \/ \E S, p : /\ p \in ToClient /\ down' = Put(down, S, p)
                           /\ p.ev \in {"disconnect", "ack"}
              \/ /\ Relay(c) /\ UNCHANGED peerVars /\ CounterIndexes(c) # {}
                 /\ up[c] # <<>> /\ Head(up[c]) \in CallPacket \cap ToClient
                 /\ down' = Put(down, {Counter(c)} \cap online, Head(up[c]))
<1>1. ASSUME NEW c \in Clients, Observer(c) PROVE down' = down
  BY <1>1 DEF Observer, OnSuccess, OnIceCandidate
<1>2. ASSUME NEW c \in Clients, Environment(c)
      PROVE  \/ down' = down
             \/ down' = [down EXCEPT ![c] = <<>>] /\ link' = [link EXCEPT ![c] = "closed"]
  BY <1>2 DEF Environment, on_connected, on_fail, on_close, OnFailure, Disconnect, netVars
<1>3. ASSUME NEW k \in calls, TimeOut(k) PROVE down' = down /\ Clients # {}
  BY <1>3 DEF TimeOut, CallTimesOut, netVars, TypeOK, ServerTypeOK, PendingCall
<1>4. CASE \E c \in Clients : ServerStep(c)
  BY <1>4, ServerPuts DEF ServerStep
<1> QED BY <1>1, <1>2, <1>3, <1>4 DEF Next

\* With two peers, an event of the exchange comes to a client from its peer.
LEMMA DownAdds ==
    ASSUME TypeOK, RoleInv, Next, Len(peers) >= 2, NEW d \in Clients,
           NEW ev \in Sdps \cup {"ready"}, Queued(down', d, ev)
    PROVE  \/ Queued(down, d, ev)
           \/ \E c \in Clients : /\ Relay(c) /\ CounterIndexes(c) # {} /\ d = Counter(c)
                                 /\ ev \in Sdps /\ Queued(up, c, ev)
<1>1. up \in [Clients -> Seq(ToServer)] /\ down \in [Clients -> Seq(ToClient)]
  BY DEF TypeOK, NetTypeOK
<1>2. ASSUME NEW c \in Clients PROVE ~Admit(c)
  <2> DEFINE n == Len(peers)
  <2>1. n = 2
    <3>1. n \in Nat /\ n <= 2 /\ n >= 2
      BY DEF RoleInv, PeersInOrder, TypeOK, ServerTypeOK
    <3> HIDE DEF n
    <3> QED BY <3>1
  <2>2. flag_peer_connection
    BY <2>1 DEF RoleInv, PeersInOrder
  <2> QED BY <2>2 DEF Admit
<1>3. PICK c \in Clients :
              \/ down' = down
              \/ down' = [down EXCEPT ![c] = <<>>]
              \/ Listener(c)
              \/ \E S, p : /\ p \in ToClient /\ down' = Put(down, S, p)
                           /\ p.ev \in {"disconnect", "ack"}
              \/ /\ Relay(c) /\ CounterIndexes(c) # {}
                 /\ up[c] # <<>> /\ Head(up[c]) \in CallPacket \cap ToClient
                 /\ down' = Put(down, {Counter(c)} \cap online, Head(up[c]))
  BY <1>2, DownStep
<1>4. CASE down' = down
  BY <1>4 DEF Queued
<1>5. CASE down' = [down EXCEPT ![c] = <<>>]
  BY <1>1, <1>5, DropNoMore DEF NoMore
<1>6. CASE Listener(c)
  BY <1>6, ListenerTakes DEF NoMore
<1>7. ASSUME NEW S, NEW p \in ToClient, down' = Put(down, S, p), p.ev \in {"disconnect", "ack"}
      PROVE  Queued(down, d, ev)
  <2>1. p.ev # ev
    BY <1>7 DEF Sdps
  <2>2. Queued(Put(down, S, p), d, ev)
    BY <1>7
  <2> QED BY <1>1, <2>1, <2>2, PutQueued
<1>8. CASE /\ Relay(c) /\ CounterIndexes(c) # {}
           /\ up[c] # <<>> /\ Head(up[c]) \in CallPacket \cap ToClient
           /\ down' = Put(down, {Counter(c)} \cap online, Head(up[c]))
  <2>1. Queued(Put(down, {Counter(c)} \cap online, Head(up[c])), d, ev)
    BY <1>8
  <2>2. Queued(down, d, ev) \/ (d = Counter(c) /\ Head(up[c]).ev = ev)
    <3> DEFINE S == {Counter(c)} \cap online
               p == Head(up[c])
    <3>1. p \in ToClient /\ Queued(Put(down, S, p), d, ev)
      BY <1>8, <2>1
    <3>2. Queued(down, d, ev) \/ (d \in S /\ p.ev = ev)
      <4> HIDE DEF S, p
      <4> QED BY <1>1, <3>1, PutQueued
    <3> QED BY <3>2
  <2>3. Head(up[c]).ev = ev => ev \in Sdps /\ Queued(up, c, ev)
    <3>1. Head(up[c]).ev \in Sdps \cup {"ice"}
      BY <1>8 DEF CallPacket, Emit, Call, Sdps
    <3>2. Head(up[c]).ev = ev => Queued(up, c, ev)
      BY <1>1, <1>8, HeadQueued DEF HeadIs
    <3> QED BY <3>1, <3>2
  <2> QED BY <1>8, <2>2, <2>3
<1> QED BY <1>3, <1>4, <1>5, <1>6, <1>7, <1>8

\* A description comes to be on its way to the server when it is made.
LEMMA UpAdds ==
    ASSUME TypeOK, RoleInv, SdpInv, Next, NEW d \in Clients, NEW ev \in Sdps,
           Queued(up', d, ev)
    PROVE  Queued(up, d, ev) \/ (OnSuccess(d) /\ creating[d] = ev)
<1>1. up \in [Clients -> Seq(ToServer)]
  BY DEF TypeOK, NetTypeOK
<1>2. PICK c \in Clients :
          \/ up' = up
          \/ up' = [up EXCEPT ![c] = <<>>]
          \/ up' = Take(up, c) /\ up[c] # <<>>
          \/ \E p \in ToServer : up' = Put(up, {c}, p) /\ p.ev \notin Sdps
          \/ OnSuccess(c)
  BY UpStep DEF Sdps
<1>3. CASE up' = up
  BY <1>3 DEF Queued
<1>4. CASE up' = [up EXCEPT ![c] = <<>>]
  BY <1>1, <1>4, DropNoMore DEF NoMore
<1>5. CASE up' = Take(up, c) /\ up[c] # <<>>
  BY <1>1, <1>5, TakeNoMore DEF NoMore
<1>6. ASSUME NEW p \in ToServer, up' = Put(up, {c}, p), p.ev \notin Sdps
      PROVE  Queued(up, d, ev)
  BY <1>1, <1>6, PutNoMore DEF NoMore
<1>7. CASE OnSuccess(c)
  <2> DEFINE p == Emit(Sdp(SdpEvent(c), c))
  <2>1. creating[c] \in Sdps /\ (creating[c] = "offer" <=> type_[c] = "Caller")
    BY <1>7 DEF OnSuccess, Sdps, SdpInv, SdpRoles
  <2>2. p \in ToServer /\ p.ev = creating[c] /\ emit(c, p)
    BY <1>7, <2>1, PacketType DEF OnSuccess, SdpEvent, Emit, Sdp, Sdps
  <2>3. up' = up \/ up' = Put(up, {c}, p)
    BY <2>2 DEF emit
  <2>4. Queued(Put(up, {c}, p), d, ev) => Queued(up, d, ev) \/ (d \in {c} /\ p.ev = ev)
    BY <1>1, <2>2, PutQueued
  <2> HIDE DEF p
  <2> QED BY <1>3, <1>7, <2>2, <2>3, <2>4
<1> QED BY <1>2, <1>3, <1>4, <1>5, <1>6, <1>7

\* A description comes to be made by ready, or by an offer.
LEMMA CreatingAdds ==
    ASSUME TypeOK, Next, NEW d \in Clients, creating'[d] # "none"
    PROVE  \/ creating'[d] = creating[d]
           \/ creating'[d] = "offer" /\ ready(d) /\ type_[d] = "Caller"
           \/ creating'[d] = "answer" /\ offer(d) /\ type_[d] = "Callee"
<1>1. \/ UNCHANGED creating
      \/ \E c \in Clients :
            \/ ready(c) /\ creating' = [creating EXCEPT ![c] = "offer"] /\ type_[c] = "Caller"
            \/ offer(c) /\ creating' = [creating EXCEPT ![c] = "answer"] /\ type_[c] = "Callee"
            \/ creating' = [creating EXCEPT ![c] = "none"]
  BY DEF Next, TimeOut, CallTimesOut, ServerStep, Listener, Observer, Environment,
         set_as_caller, set_as_callee, ready, create_offer, offer, answer, ice, ack,
         SessionEnded, receive_offer_create_answer, receive_answer, ParseFails,
         SetRemoteFails, Unexpected, OnSuccess, OnIceCandidate, on_connected, on_fail,
         on_close, OnFailure, peerVars
<1> QED BY <1>1 DEF TypeOK, PeerTypeOK

\* A step leaves the exchange where it is or moves it to the next stage.
LEMMA StageMoves ==
    ASSUME TypeOK, RoleInv, SdpInv, Next, NEW a \in Clients, NEW b \in Clients,
           First(a), Second(b), NEW t \in Stages, At(a, b, t)'
    PROVE  At(a, b, t) \/ (t > 1 /\ At(a, b, t - 1))
<1>1. Len(peers) >= 2 /\ a # b
  BY Places DEF Second
<1>2. /\ t = 1 => Queued(down', a, "ready")
      /\ t = 2 => creating'[a] = "offer"
      /\ t = 3 => Queued(up', a, "offer")
      /\ t = 4 => Queued(down', b, "offer")
      /\ t = 5 => creating'[b] = "answer"
      /\ t = 6 => Queued(up', b, "answer")
      /\ t = 7 => Queued(down', a, "answer")
  BY DEF At
<1>3. CASE t = 1
  BY <1>1, <1>2, <1>3, DownAdds DEF At, Sdps
<1>4. CASE t = 2
  <2>1. ready(a) => Queued(down, a, "ready")
    BY HeadQueued DEF ready, Receives, TypeOK, NetTypeOK
  <2> QED BY <1>2, <1>4, <2>1, CreatingAdds DEF At
<1>5. CASE t = 3
  BY <1>2, <1>5, UpAdds DEF At, Sdps
<1>6. CASE t = 4
  <2>1. Queued(down, b, "offer") \/ \E c \in Clients : Queued(up, c, "offer")
    BY <1>1, <1>2, <1>6, DownAdds DEF Sdps
  <2>2. \A c \in Clients : Queued(up, c, "offer") => c = a
    BY Places DEF SdpInv, SdpRoles, First
  <2> QED BY <1>6, <2>1, <2>2 DEF At
<1>7. CASE t = 5
  <2>1. offer(b) => Queued(down, b, "offer")
    BY HeadQueued DEF offer, Receives, TypeOK, NetTypeOK
  <2> QED BY <1>2, <1>7, <2>1, CreatingAdds DEF At
<1>8. CASE t = 6
  BY <1>2, <1>8, UpAdds DEF At, Sdps
<1>9. CASE t = 7
  <2>1. Queued(down, a, "answer") \/ \E c \in Clients : Queued(up, c, "answer")
    BY <1>1, <1>2, <1>9, DownAdds DEF Sdps
  <2>2. \A c \in Clients : Queued(up, c, "answer") => c = b
    BY Places DEF SdpInv, SdpRoles, Second
  <2> QED BY <1>9, <2>1, <2>2 DEF At
<1> QED BY <1>3, <1>4, <1>5, <1>6, <1>7, <1>8, <1>9 DEF Stages

------------------------------------------------------------------------------
(***************************************************************************)
(* The history.  A client is told its role once, because the role is sent  *)
(* once and type_ keeps it, and each event of the exchange once, because   *)
(* the exchange never goes back to a stage it left.                        *)
(***************************************************************************)
RoleEvents == {"set-as-caller", "set-as-callee"}

\* A role is sent once, to a client that has none.
RoleOnce ==
    \A c \in Clients : \A ev \in RoleEvents :
        Once(down, c, ev) /\ (Queued(down, c, ev) => type_[c] = "Undefined")

ToldType == told \in [Clients -> SUBSET {"role", "ready", "offer", "answer"}]

ToldRole == \A c \in Clients : "role" \in told[c] <=> type_[c] # "Undefined"

ToldReady ==
    \A c \in Clients :
        "ready" \in told[c] => Len(peers) >= 2 /\ ~Queued(down, c, "ready")

\* A callee was told of the offer when the exchange was at stage 4, and a caller of
\* the answer at stage 7.
ToldOffer ==
    \A b \in Clients : "offer" \in told[b] =>
        Second(b) /\ \A a \in Clients, s \in 1 .. 4 : First(a) => ~At(a, b, s)

ToldAnswer ==
    \A a \in Clients : "answer" \in told[a] =>
        /\ First(a) /\ Len(peers) >= 2
        /\ \A b \in Clients, s \in Stages : Second(b) => ~At(a, b, s)

\* The inductive invariant behind ToldOnce, beside TypeOK, RoleInv and SdpInv.
HistoryInv ==
    ToldType /\ RoleOnce /\ ToldRole /\ ToldReady /\ ToldOffer /\ ToldAnswer

\* A pair that is complete stays.
LEMMA PeersStay ==
    ASSUME TypeOK, RoleInv, Next, Len(peers) >= 2
    PROVE  UNCHANGED peers
<1> DEFINE n == Len(peers)
<1>1. n = 2
  <2>1. n \in Nat /\ n <= 2 /\ n >= 2
    BY DEF RoleInv, PeersInOrder, TypeOK, ServerTypeOK
  <2> HIDE DEF n
  <2> QED BY <2>1
<1>2. \A c \in Clients : ~Admit(c)
  BY <1>1 DEF Admit, RoleInv, PeersInOrder
<1> QED BY <1>2
        DEF Next, TimeOut, CallTimesOut, ServerStep, Refuse, Relay, CallReturns, Listener,
            Observer, Environment, Disconnect, serverVars

\* The history adds nothing to the session.
LEMMA HistoryStep ==
    ASSUME NextH
    PROVE  /\ Next
           /\ \/ UNCHANGED told
              \/ \E c \in Clients :
                    /\ Listener(c)
                    /\ told' = [told EXCEPT ![c] = @ \cup Kind(Head(down[c]).ev)]
BY DEF NextH, ListenerH, Next

\* A role comes by the packet that names it, and that was the only one.
LEMMA TypeStep ==
    ASSUME TypeOK, Next
    PROVE  \/ UNCHANGED type_
           \/ \E c \in Clients :
                \/ set_as_caller(c) /\ type_' = [type_ EXCEPT ![c] = "Caller"]
                \/ set_as_callee(c) /\ type_' = [type_ EXCEPT ![c] = "Callee"]
BY DEF Next, TimeOut, CallTimesOut, ServerStep, Listener, Observer, Environment,
       set_as_caller, set_as_callee, ready, offer, answer, ice, ack, SessionEnded, OnSuccess,
       OnIceCandidate, on_connected, on_fail, on_close, OnFailure, peerVars

LEMMA AdmitRoleOnce ==
    ASSUME TypeOK, RoleInv, RoleOnce, NEW c \in Clients, Admit(c), UNCHANGED peerVars
    PROVE  RoleOnce'
<1> DEFINE room == {d \in online : IsPeer(d)} \cup {c}
           caller == Put(down, {c}, Notice("set-as-caller"))
           callee == Put(down, {c}, Notice("set-as-callee"))
<1>1. down \in [Clients -> Seq(ToClient)] /\ UNCHANGED type_
  BY DEF TypeOK, NetTypeOK, peerVars
<1>2. /\ Notice("set-as-caller") \in ToClient /\ Notice("set-as-caller").ev = "set-as-caller"
      /\ Notice("set-as-callee") \in ToClient /\ Notice("set-as-callee").ev = "set-as-callee"
      /\ Notice("ready") \in ToClient /\ Notice("ready").ev = "ready"
  BY PacketType DEF Notice
<1>3. ~IsPeer(c)
  BY HeadQueued DEF Admit, RoleInv, ConnectsOnce, TypeOK, NetTypeOK
<1>4. type_[c] = "Undefined" /\ \A ev \in RoleEvents : ~Queued(down, c, ev)
  <2>1. ~(Len(peers) >= 1 /\ peers[1] = c) /\ ~(Len(peers) >= 2 /\ peers[2] = c)
    BY <1>3 DEF IsPeer, TypeOK, ServerTypeOK
  <2> QED BY <2>1 DEF RoleInv, Roles, RolePackets, RoleEvents, TypeOK, PeerTypeOK, PeerType
<1>5. ASSUME NEW e \in RoleEvents, NEW d \in Clients, NEW ev \in RoleEvents
      PROVE  /\ Once(Put(down, {c}, Notice(e)), d, ev)
             /\ Queued(Put(down, {c}, Notice(e)), d, ev) => type_[d] = "Undefined"
  <2>1. Notice(e) \in ToClient /\ Notice(e).ev = e
    BY <1>2, <1>5 DEF RoleEvents
  <2>2. d \in {c} => ~Queued(down, d, ev)
    BY <1>4
  <2>3. Once(down, d, ev) /\ (Queued(down, d, ev) => type_[d] = "Undefined")
    BY DEF RoleOnce
  <2>4. Once(Put(down, {c}, Notice(e)), d, ev)
    BY <1>1, <2>1, <2>2, <2>3, PutOnce
  <2>5. Queued(Put(down, {c}, Notice(e)), d, ev) => Queued(down, d, ev) \/ d \in {c}
    BY <1>1, <2>1, PutQueued
  <2> QED BY <1>4, <2>3, <2>4, <2>5
<1>6. callee \in [Clients -> Seq(ToClient)]
  BY <1>1, <1>2, PutType
<1>7. \A ev \in RoleEvents : NoMore(callee, Put(callee, room, Notice("ready")), ev)
  <2> HIDE DEF callee, room
  <2> QED BY <1>2, <1>6, PutNoMore DEF RoleEvents
<1>8. down' = caller \/ down' = Put(callee, room, Notice("ready")) \/ down' = down
  BY DEF Admit, Announce
<1>9. ASSUME NEW d \in Clients, NEW ev \in RoleEvents
      PROVE  Once(down', d, ev) /\ (Queued(down', d, ev) => type_'[d] = "Undefined")
  <2>1. CASE down' = caller
    BY <1>1, <1>5, <2>1 DEF RoleEvents
  <2>2. CASE down' = Put(callee, room, Notice("ready"))
    BY <1>1, <1>5, <1>7, <2>2 DEF RoleEvents, NoMore
  <2>3. CASE down' = down
    BY <1>1, <2>3 DEF RoleOnce
  <2> QED BY <1>8, <2>1, <2>2, <2>3
<1> QED BY <1>9 DEF RoleOnce, Once, Queued

LEMMA RoleOnceKept ==
    ASSUME TypeOK, RoleInv, RoleOnce, Next
    PROVE  RoleOnce'
<1>1. down \in [Clients -> Seq(ToClient)] /\ type_ \in [Clients -> PeerType]
  BY DEF TypeOK, NetTypeOK, PeerTypeOK
<1>2. CASE \E c \in Clients : Admit(c) /\ UNCHANGED peerVars
  BY <1>2, AdmitRoleOnce
<1>3. CASE ~\E c \in Clients : Admit(c) /\ UNCHANGED peerVars
  <2>1. \A ev \in RoleEvents : NoMore(down, down', ev)
    <3> SUFFICES ASSUME NEW ev \in RoleEvents PROVE NoMore(down, down', ev)
      OBVIOUS
    <3>2. PICK c \in Clients :
              \/ down' = down
              \/ down' = [down EXCEPT ![c] = <<>>]
              \/ Listener(c)
              \/ \E S, p : p \in ToClient /\ down' = Put(down, S, p) /\ p.ev # ev
      <4>1. \A p \in CallPacket : p.ev # ev
        BY DEF CallPacket, Emit, Call, RoleEvents
      <4>2. \A p : p.ev \in {"disconnect", "ack"} => p.ev # ev
        BY DEF RoleEvents
      <4>3. ASSUME NEW c \in Clients,
                   \/ down' = down
                   \/ down' = [down EXCEPT ![c] = <<>>]
                   \/ Listener(c)
                   \/ \E S, p : /\ p \in ToClient /\ down' = Put(down, S, p)
                                /\ p.ev \in {"disconnect", "ack"}
                   \/ /\ Head(up[c]) \in CallPacket \cap ToClient
                      /\ down' = Put(down, {Counter(c)} \cap online, Head(up[c]))
            PROVE  \/ down' = down
                   \/ down' = [down EXCEPT ![c] = <<>>]
                   \/ Listener(c)
                   \/ \E S, p : p \in ToClient /\ down' = Put(down, S, p) /\ p.ev # ev
        BY <4>1, <4>2, <4>3
      <4> QED BY <1>3, <4>3, DownStep
    <3>3. CASE down' = down
      BY <3>3 DEF NoMore
    <3>4. CASE down' = [down EXCEPT ![c] = <<>>]
      <4>1. NoMore(down, [down EXCEPT ![c] = <<>>], ev)
        BY <1>1, DropNoMore
      <4> QED BY <3>4, <4>1
    <3>5. CASE Listener(c)
      BY <1>1, <3>5, ListenerTakes, TakeNoMore
    <3>6. ASSUME NEW S, NEW p \in ToClient, down' = Put(down, S, p), p.ev # ev
          PROVE  NoMore(down, down', ev)
      BY <1>1, <3>6, PutNoMore
    <3> QED BY <3>2, <3>3, <3>4, <3>5, <3>6
  <2>2. ASSUME NEW c \in Clients, NEW e \in RoleEvents, Receives(c, e), NEW ev \in RoleEvents
        PROVE  ~Queued(down', c, ev)
    <3>1. HeadIs(down, c, e) /\ down' = Take(down, c) /\ Queued(down, c, e)
      BY <1>1, <2>2, HeadQueued DEF Receives
    <3>2. CASE ev = e
      BY <1>1, <3>1, <3>2, TakeGone DEF RoleOnce
    <3>3. CASE ev # e
      <4>1. ~Queued(down, c, ev)
        BY <3>1, <3>3 DEF RoleEvents, RoleInv, RolePackets, PeersInOrder, TypeOK, ServerTypeOK
      <4> QED BY <2>1, <4>1 DEF NoMore
    <3> QED BY <3>2, <3>3
  <2>3. ASSUME NEW d \in Clients, NEW ev \in RoleEvents, Queued(down', d, ev)
        PROVE  type_'[d] = "Undefined"
    <3>1. Queued(down, d, ev) /\ type_[d] = "Undefined"
      BY <2>1, <2>3 DEF NoMore, RoleOnce
    <3>2. \A e \in RoleEvents : ~Receives(d, e)
      BY <2>2, <2>3
    <3>3. ~set_as_caller(d) /\ ~set_as_callee(d)
      BY <3>2 DEF set_as_caller, set_as_callee, RoleEvents
    <3> QED BY <1>1, <3>1, <3>3, TypeStep
  <2>4. \A d \in Clients, ev \in RoleEvents : Once(down', d, ev)
    BY <2>1 DEF NoMore, RoleOnce
  <2> QED BY <2>3, <2>4 DEF RoleOnce, Once, Queued
<1> QED BY <1>2, <1>3

\* What a client is told in a step, and the handler that heard it.
LEMMA TellStep ==
    ASSUME TypeOK, NEW c \in Clients, Listener(c)
    PROVE  LET k == Kind(Head(down[c]).ev)
           IN  /\ k \subseteq {"role", "ready", "offer", "answer"}
               /\ "role" \in k <=> set_as_caller(c) \/ set_as_callee(c)
               /\ "ready" \in k => ready(c) /\ Queued(down, c, "ready")
               /\ "offer" \in k => offer(c) /\ Queued(down, c, "offer")
               /\ "answer" \in k => answer(c) /\ Queued(down, c, "answer")
<1> DEFINE ev == Head(down[c]).ev
<1>1. /\ set_as_caller(c) => ev = "set-as-caller"
      /\ set_as_callee(c) => ev = "set-as-callee"
      /\ ready(c) => ev = "ready"
      /\ offer(c) => ev = "offer"
      /\ answer(c) => ev = "answer"
      /\ ice(c) => ev = "ice"
      /\ ack(c) => ev = "ack"
      /\ SessionEnded(c) => ev = "disconnect"
  BY DEF set_as_caller, set_as_callee, ready, offer, answer, ice, ack, SessionEnded, Receives,
         HeadIs
<1>2. \/ set_as_caller(c) \/ set_as_callee(c) \/ ready(c) \/ offer(c) \/ answer(c)
      \/ ice(c) \/ ack(c) \/ SessionEnded(c)
  BY DEF Listener
<1>3. Queued(down, c, ev)
  BY ListenerTakes, HeadQueued DEF HeadIs
<1> HIDE DEF ev
<1>4. /\ Kind(ev) \subseteq {"role", "ready", "offer", "answer"}
      /\ "role" \in Kind(ev) <=> set_as_caller(c) \/ set_as_callee(c)
      /\ "ready" \in Kind(ev) => ready(c) /\ Queued(down, c, "ready")
      /\ "offer" \in Kind(ev) => offer(c) /\ Queued(down, c, "offer")
      /\ "answer" \in Kind(ev) => answer(c) /\ Queued(down, c, "answer")
  BY <1>1, <1>2, <1>3 DEF Kind
<1> QED BY <1>4 DEF ev

\* What is told in a step was told before or is told to the listener of that step.
LEMMA ToldStep ==
    ASSUME TypeOK, ToldType, NextH, NEW c \in Clients, NEW x \in told'[c], x \notin told[c]
    PROVE  Listener(c) /\ x \in Kind(Head(down[c]).ev)
BY HistoryStep DEF ToldType

LEMMA ToldTypeKept ==
    ASSUME TypeOK, ToldType, NextH
    PROVE  ToldType' /\ \A c \in Clients : told[c] \subseteq told'[c]
<1>1. CASE UNCHANGED told
  BY <1>1 DEF ToldType
<1>2. ASSUME NEW c \in Clients, Listener(c),
             told' = [told EXCEPT ![c] = @ \cup Kind(Head(down[c]).ev)]
      PROVE  ToldType' /\ \A d \in Clients : told[d] \subseteq told'[d]
  BY <1>2, TellStep DEF ToldType
<1> QED BY <1>1, <1>2, HistoryStep

LEMMA ToldRoleKept ==
    ASSUME TypeOK, ToldType, ToldRole, NextH
    PROVE  ToldRole'
<1>1. type_ \in [Clients -> PeerType]
  BY DEF TypeOK, PeerTypeOK
<1>2. ASSUME NEW c \in Clients, ListenerH(c) PROVE ToldRole'
  <2>1. told' = [told EXCEPT ![c] = @ \cup Kind(Head(down[c]).ev)] /\ Listener(c)
    BY <1>2 DEF ListenerH
  <2>2. "role" \in Kind(Head(down[c]).ev) <=> set_as_caller(c) \/ set_as_callee(c)
    BY <2>1, TellStep
  <2>3. CASE set_as_caller(c) \/ set_as_callee(c)
    <3>1. \E t \in {"Caller", "Callee"} : type_' = [type_ EXCEPT ![c] = t]
      BY <2>3 DEF set_as_caller, set_as_callee
    <3> QED BY <1>1, <2>1, <2>2, <2>3, <3>1 DEF ToldRole, ToldType
  <2>4. CASE ~(set_as_caller(c) \/ set_as_callee(c))
    <3>1. UNCHANGED type_
      BY <2>1, <2>4 DEF Listener, ready, offer, answer, ice, ack, SessionEnded, peerVars
    <3> QED BY <2>1, <2>2, <2>4, <3>1 DEF ToldRole, ToldType
  <2> QED BY <2>3, <2>4
<1>3. ASSUME UNCHANGED told,
             \/ \E c \in Clients : ServerStep(c) \/ Observer(c) \/ Environment(c)
             \/ \E p \in calls : TimeOut(p)
      PROVE  ToldRole'
  <2>1. UNCHANGED type_
    BY <1>3 DEF ServerStep, Observer, Environment, TimeOut, OnSuccess, OnIceCandidate,
                on_connected, on_fail, on_close, OnFailure, peerVars
  <2> QED BY <1>3, <2>1 DEF ToldRole
<1> QED BY <1>2, <1>3 DEF NextH

LEMMA ToldReadyKept ==
    ASSUME TypeOK, RoleInv, SdpInv, ToldType, ToldReady, NextH
    PROVE  ToldReady'
<1> SUFFICES ASSUME NEW c \in Clients, "ready" \in told'[c]
             PROVE  Len(peers') >= 2 /\ ~Queued(down', c, "ready")
  BY DEF ToldReady, Queued
<1>1. Next
  BY HistoryStep
<1>2. CASE "ready" \in told[c]
  <2>1. Len(peers) >= 2 /\ ~Queued(down, c, "ready")
    BY <1>2 DEF ToldReady
  <2> QED BY <1>1, <2>1, PeersStay, DownAdds DEF Sdps
<1>3. CASE "ready" \notin told[c]
  <2>1. ready(c) /\ Queued(down, c, "ready")
    BY <1>3, ToldStep, TellStep
  <2>2. Len(peers) >= 2
    BY <2>1 DEF SdpInv, NotBeforeTwo, TypeOK, ServerTypeOK
  <2>3. ~Queued(down', c, "ready")
    BY <2>1, TakeGone DEF ready, Receives, TypeOK, NetTypeOK, SdpInv, QueuedOnce
  <2> QED BY <1>1, <2>2, <2>3, PeersStay
<1> QED BY <1>2, <1>3

LEMMA ToldOfferKept ==
    ASSUME TypeOK, RoleInv, SdpInv, ToldType, ToldOffer, NextH
    PROVE  ToldOffer'
<1>1. Next
  BY HistoryStep
<1>2. ASSUME NEW b \in Clients, "offer" \in told'[b]
      PROVE  /\ Second(b) /\ UNCHANGED peers
             /\ \A a \in Clients, s \in 1 .. 4 : First(a) => ~At(a, b, s)'
  <2>1. CASE "offer" \in told[b]
    <3>1. Second(b) /\ \A a \in Clients, s \in 1 .. 4 : First(a) => ~At(a, b, s)
      BY <2>1 DEF ToldOffer
    <3>2. UNCHANGED peers
      BY <1>1, <3>1, PeersStay DEF Second
    <3>3. ASSUME NEW a \in Clients, NEW s \in 1 .. 4, First(a), At(a, b, s)' PROVE FALSE
      <4>1. At(a, b, s) \/ (s > 1 /\ At(a, b, s - 1))
        BY <1>1, <3>1, <3>3, StageMoves DEF Stages
      <4>2. s > 1 => s - 1 \in 1 .. 4
        OBVIOUS
      <4> QED BY <3>1, <3>3, <4>1, <4>2
    <3> QED BY <3>1, <3>2, <3>3
  <2>2. CASE "offer" \notin told[b]
    <3>1. offer(b) /\ Queued(down, b, "offer")
      BY <1>2, <2>2, ToldStep, TellStep
    <3>2. Second(b)
      BY <3>1 DEF SdpInv, SdpRoles
    <3>3. UNCHANGED peers
      BY <1>1, <3>2, PeersStay DEF Second
    <3>4. ~Queued(down', b, "offer")
      BY <3>1, TakeGone DEF offer, Receives, TypeOK, NetTypeOK, SdpInv, QueuedOnce, Sdps
    <3>5. ASSUME NEW a \in Clients, NEW s \in 1 .. 4, First(a), At(a, b, s)' PROVE FALSE
      <4>1. At(a, b, 4)
        BY <3>1 DEF At
      <4>2. \A t \in Stages : At(a, b, t) => t = 4
        BY <3>2, <3>5, <4>1, OneAtATime DEF Stages
      <4>3. At(a, b, s) \/ (s > 1 /\ At(a, b, s - 1))
        BY <1>1, <3>2, <3>5, StageMoves DEF Stages
      <4>4. s = 4
        <5>1. s \in Stages /\ (s > 1 => s - 1 \in Stages) /\ s - 1 # 4
          BY DEF Stages
        <5> QED BY <4>2, <4>3, <5>1
      <4> QED BY <3>4, <3>5, <4>4 DEF At
    <3> QED BY <3>2, <3>3, <3>5
  <2> QED BY <2>1, <2>2
<1> QED BY <1>2 DEF ToldOffer, First, Second

LEMMA ToldAnswerKept ==
    ASSUME TypeOK, RoleInv, SdpInv, ToldType, ToldAnswer, NextH
    PROVE  ToldAnswer'
<1>1. Next
  BY HistoryStep
<1>2. ASSUME NEW a \in Clients, "answer" \in told'[a]
      PROVE  /\ First(a)
             /\ Len(peers) >= 2 /\ UNCHANGED peers
             /\ \A b \in Clients, s \in Stages : Second(b) => ~At(a, b, s)'
  <2>1. CASE "answer" \in told[a]
    <3>1. /\ First(a) /\ Len(peers) >= 2
          /\ \A b \in Clients, s \in Stages : Second(b) => ~At(a, b, s)
      BY <2>1 DEF ToldAnswer
    <3>2. ASSUME NEW b \in Clients, NEW s \in Stages, Second(b), At(a, b, s)' PROVE FALSE
      <4>1. At(a, b, s) \/ (s > 1 /\ At(a, b, s - 1))
        BY <1>1, <3>1, <3>2, StageMoves
      <4>2. s > 1 => s - 1 \in Stages
        BY DEF Stages
      <4> QED BY <3>1, <3>2, <4>1, <4>2
    <3> QED BY <1>1, <3>1, <3>2, PeersStay
  <2>2. CASE "answer" \notin told[a]
    <3>1. answer(a) /\ Queued(down, a, "answer")
      BY <1>2, <2>2, ToldStep, TellStep
    <3>2. First(a) /\ Len(peers) >= 2
      BY <3>1 DEF SdpInv, SdpRoles, NotBeforeTwo, Sdps, TypeOK, ServerTypeOK
    <3>3. ~Queued(down', a, "answer")
      BY <3>1, TakeGone DEF answer, Receives, TypeOK, NetTypeOK, SdpInv, QueuedOnce, Sdps
    <3>4. ASSUME NEW b \in Clients, NEW s \in Stages, Second(b), At(a, b, s)' PROVE FALSE
      <4>1. At(a, b, 7)
        BY <3>1 DEF At
      <4>2. \A t \in Stages : At(a, b, t) => t = 7
        BY <3>2, <3>4, <4>1, OneAtATime DEF Stages
      <4>3. At(a, b, s) \/ (s > 1 /\ At(a, b, s - 1))
        BY <1>1, <3>2, <3>4, StageMoves
      <4>4. s = 7
        <5>1. (s > 1 => s - 1 \in Stages) /\ s - 1 # 7
          BY DEF Stages
        <5> QED BY <4>2, <4>3, <5>1
      <4> QED BY <3>3, <3>4, <4>4 DEF At
    <3> QED BY <1>1, <3>2, <3>4, PeersStay
  <2> QED BY <2>1, <2>2
<1> QED BY <1>2 DEF ToldAnswer, First, Second

\* The session with its history is the session.
LEMMA HistoryIsSession == SpecH => Spec
<1>1. InitH => Init
  BY DEF InitH
<1>2. [NextH]_varsH => [Next]_vars
  BY HistoryStep DEF varsH
<1> QED BY <1>1, <1>2, PTL DEF SpecH, Spec

\* For every set of clients: what each client has been told is over and done.
THEOREM HistoryInvariant == SpecH => []HistoryInv
<1>1. InitH => HistoryInv
  <2> SUFFICES ASSUME InitH PROVE HistoryInv
    OBVIOUS
  <2>1. /\ told = [c \in Clients |-> {}]
        /\ \A c \in Clients : down[c] = <<>> /\ type_[c] = "Undefined"
    BY DEF InitH, Init, NetInit, PeerInit
  <2>2. RoleOnce
    <3> SUFFICES ASSUME NEW c \in Clients, NEW ev \in RoleEvents
                 PROVE  Once(down, c, ev) /\ ~Queued(down, c, ev)
      BY DEF RoleOnce
    <3>1. down[c] = <<>>
      BY <2>1
    <3> QED BY <3>1 DEF Once, Queued
  <2> QED BY <2>1, <2>2 DEF HistoryInv, ToldType, ToldRole, ToldReady, ToldOffer, ToldAnswer
<1>2. TypeOK /\ RoleInv /\ SdpInv /\ HistoryInv /\ [NextH]_varsH => HistoryInv'
  <2> SUFFICES ASSUME TypeOK, RoleInv, SdpInv, HistoryInv, [NextH]_varsH PROVE HistoryInv'
    OBVIOUS
  <2>1. CASE UNCHANGED varsH
    BY <2>1 DEF varsH, vars, netVars, serverVars, peerVars, HistoryInv, ToldType, RoleOnce,
                Once, Queued, ToldRole, ToldReady, ToldOffer, ToldAnswer, First, Second, At
  <2>2. CASE NextH
    <3>1. ToldType' /\ ToldRole' /\ ToldReady' /\ ToldOffer' /\ ToldAnswer'
      BY <2>2, ToldTypeKept, ToldRoleKept, ToldReadyKept, ToldOfferKept, ToldAnswerKept
         DEF HistoryInv
    <3>2. RoleOnce'
      BY <2>2, HistoryStep, RoleOnceKept DEF HistoryInv
    <3> QED BY <3>1, <3>2 DEF HistoryInv
  <2> QED BY <2>1, <2>2
<1> QED BY <1>1, <1>2, HistoryIsSession, TypeCorrect, RoleInvariant, SdpInvariant, PTL DEF SpecH

(* Each step of the session as ClientEvents sees it *)

Sockets == [c \in Clients |-> Socket(c)]
Makings == [c \in Clients |-> {creating[c]} \ {"none"}]
Locals == [c \in Clients |-> local[c] # "none"]
Remotes == [c \in Clients |-> remote[c] # "none"]

\* Handlers that send, and timers, are not seen.
LEMMA Unseen ==
    ASSUME UNCHANGED <<link, type_, told, creating, local, remote>>
    PROVE  UNCHANGED Events!vars
BY DEF Events!vars, Socket

\* A connection opens, fails or closes.
LEMMA LinkEvents ==
    ASSUME TypeOK, NEW c \in Clients, NEW l \in LinkState,
           link' = [link EXCEPT ![c] = l],
           \/ link[c] = "idle" /\ l \in {"open", "closed"}
           \/ link[c] \in {"open", "detached"} /\ l = "closed",
           UNCHANGED <<type_, told, creating, local, remote>>
    PROVE  Events!Next
<1> DEFINE s == IF l = "open" THEN "open" ELSE "closed"
<1>1. Sockets' = [Sockets EXCEPT ![c] = s]
  <2>1. ASSUME NEW d \in Clients PROVE Socket(d)' = IF d = c THEN s ELSE Socket(d)
    <3>1. link'[c] = l /\ (d # c => link'[d] = link[d])
      BY DEF TypeOK, NetTypeOK
    <3>2. CASE d = c
      BY <3>1, <3>2, Zenon DEF Socket
    <3>3. CASE d # c
      <4>1. link'[d] = link[d]
        BY <3>1, <3>3
      <4>2. Socket(d)' = Socket(d)
        BY <4>1, Zenon DEF Socket
      <4> QED BY <3>3, <4>2
    <3> QED BY <3>2, <3>3
  <2> QED BY <2>1 DEF Sockets
<1>2. \/ Sockets[c] = "pending" /\ s = "open"
      \/ Sockets[c] \in {"pending", "open"} /\ s = "closed"
  BY DEF Sockets, Socket
<1>3. Events!Connects(c)
  BY <1>1, <1>2 DEF Events!Connects, Events!sdpVars, Sockets
<1> QED BY <1>3 DEF Events!Next

\* The network thread hears an event, once.
LEMMA Hears ==
    ASSUME TypeOK, ToldType, NEW c \in Clients, link[c] = "open", UNCHANGED link,
           NEW ev, ev \notin told[c], told' = [told EXCEPT ![c] = @ \cup {ev}]
    PROVE  Events!Receives(c, ev)
BY DEF Events!Receives, Socket

LEMMA RoleEvent ==
    ASSUME TypeOK, ToldType, RoleOnce, ToldRole, NEW c \in Clients, ListenerH(c),
           set_as_caller(c) \/ set_as_callee(c)
    PROVE  Events!Next
<1>1. Kind(Head(down[c]).ev) = {"role"} /\ \E ev \in RoleEvents : Receives(c, ev)
  BY DEF set_as_caller, set_as_callee, Receives, HeadIs, Kind, RoleEvents
<1>2. "role" \notin told[c]
  <2>1. \E ev \in RoleEvents : Queued(down, c, ev)
    BY <1>1, HeadQueued DEF Receives, TypeOK, NetTypeOK
  <2> QED BY <2>1 DEF RoleOnce, ToldRole
<1>3. Events!Receives(c, "role")
  BY <1>1, <1>2, Hears DEF ListenerH, Receives, set_as_caller, set_as_callee
<1>4. Events!Role(c)
  BY <1>3 DEF Events!Role, Events!sdpVars, set_as_caller, set_as_callee
<1> QED BY <1>4 DEF Events!Next

LEMMA ReadyEvent ==
    ASSUME TypeOK, RoleInv, SdpInv, ToldType, ToldReady, NEW c \in Clients, ListenerH(c),
           ready(c)
    PROVE  Events!Next
<1>1. Kind(Head(down[c]).ev) = {"ready"} /\ Queued(down, c, "ready") /\ Receives(c, "ready")
  BY HeadQueued DEF ready, Receives, HeadIs, Kind, TypeOK, NetTypeOK
<1>2. Events!Receives(c, "ready")
  BY <1>1, Hears DEF ListenerH, Receives, ready, ToldReady
<1>3. type_[c] = "Caller" => creating[c] = "none"
  <2>1. ASSUME type_[c] = "Caller", creating[c] = "offer" PROVE FALSE
    <3>1. First(c) /\ Len(peers) >= 2
      BY <1>1, <2>1, Places DEF SdpInv, NotBeforeTwo, TypeOK, ServerTypeOK
    <3>2. PICK b \in Clients : Second(b)
      BY <3>1, Places
    <3>3. At(c, b, 1) /\ At(c, b, 2)
      BY <1>1, <2>1 DEF At
    <3>4. \A s, t \in Stages : At(c, b, s) /\ At(c, b, t) => s = t
      BY <3>1, <3>2, OneAtATime
    <3>5. 1 \in Stages /\ 2 \in Stages /\ 1 # 2
      BY DEF Stages
    <3> QED BY <3>3, <3>4, <3>5
  <2> QED BY <2>1 DEF SdpInv, SdpRoles, TypeOK, PeerTypeOK, Description
<1>4. IF type_[c] = "Caller" THEN Makings' = [Makings EXCEPT ![c] = @ \cup {"offer"}]
                             ELSE UNCHANGED Makings
  <2>1. CASE type_[c] = "Caller"
    <3>1. creating' = [creating EXCEPT ![c] = "offer"]
      BY <2>1 DEF ready, create_offer
    <3> QED BY <1>3, <2>1, <3>1 DEF Makings, TypeOK, PeerTypeOK
  <2>2. CASE type_[c] # "Caller"
    BY <2>2 DEF Makings, ready
  <2> QED BY <2>1, <2>2
<1>5. Events!Ready(c)
  BY <1>2, <1>4 DEF Events!Ready, Events!Creates, Makings, ready
<1> QED BY <1>5 DEF Events!Next

LEMMA OfferEvent ==
    ASSUME TypeOK, RoleInv, SdpInv, ToldType, ToldOffer, NEW c \in Clients, ListenerH(c),
           offer(c)
    PROVE  Events!Next
<1>1. Kind(Head(down[c]).ev) = {"offer"} /\ Queued(down, c, "offer") /\ Receives(c, "offer")
  BY HeadQueued DEF offer, Receives, HeadIs, Kind, TypeOK, NetTypeOK
<1>2. Second(c) /\ type_[c] = "Callee" /\ remote[c] = "none"
  BY <1>1, OfferMet DEF Receives, SdpInv, SdpRoles
<1>3. PICK a \in Clients : First(a)
  BY <1>2, Places DEF Second
<1>4. At(a, c, 4)
  BY <1>1 DEF At
<1>5. Events!Receives(c, "offer")
  <2>1. "offer" \notin told[c]
    BY <1>3, <1>4 DEF ToldOffer
  <2> QED BY <1>1, <2>1, Hears DEF ListenerH, Receives, offer
<1>6. creating[c] = "none"
  <2>1. creating[c] # "answer"
    <3>1. \A s, t \in Stages : At(a, c, s) /\ At(a, c, t) => s = t
      BY <1>2, <1>3, OneAtATime
    <3>2. 4 \in Stages /\ 5 \in Stages /\ 4 # 5
      BY DEF Stages
    <3>3. ~At(a, c, 5)
      BY <1>4, <3>1, <3>2
    <3> QED BY <3>3 DEF At
  <2> QED BY <1>2, <2>1 DEF SdpInv, SdpRoles, TypeOK, PeerTypeOK, Description
<1>7. \/ UNCHANGED <<creating, remote>>
      \/ /\ creating' = [creating EXCEPT ![c] = "answer"]
         /\ remote' \in {remote, [remote EXCEPT ![c] = "offer"]}
  BY <1>2 DEF offer, receive_offer_create_answer, ParseFails, SetRemoteFails
<1>8. \/ UNCHANGED <<Makings, Remotes>>
      \/ /\ Makings' = [Makings EXCEPT ![c] = @ \cup {"answer"}]
         /\ Remotes' \in {Remotes, [Remotes EXCEPT ![c] = TRUE]}
  <2>1. creating' = [creating EXCEPT ![c] = "answer"] =>
            Makings' = [Makings EXCEPT ![c] = @ \cup {"answer"}]
    BY <1>6 DEF Makings, TypeOK, PeerTypeOK
  <2>2. remote' = [remote EXCEPT ![c] = "offer"] => Remotes' = [Remotes EXCEPT ![c] = TRUE]
    BY DEF Remotes, TypeOK, PeerTypeOK
  <2>3. remote' = remote => Remotes' = Remotes
    BY DEF Remotes
  <2>4. creating' = creating => Makings' = Makings
    BY DEF Makings
  <2> QED BY <1>7, <2>1, <2>2, <2>3, <2>4
<1>9. Events!Offer(c)
  BY <1>2, <1>5, <1>8 DEF Events!Offer, Events!Creates, Makings, Remotes, offer
<1> QED BY <1>9 DEF Events!Next

LEMMA AnswerEvent ==
    ASSUME TypeOK, RoleInv, SdpInv, ToldType, ToldAnswer, NEW c \in Clients, ListenerH(c),
           answer(c)
    PROVE  Events!Next
<1>1. Kind(Head(down[c]).ev) = {"answer"} /\ Queued(down, c, "answer") /\ Receives(c, "answer")
  BY HeadQueued DEF answer, Receives, HeadIs, Kind, TypeOK, NetTypeOK
<1>2. type_[c] = "Caller" /\ First(c)
  BY <1>1, AnswerMet DEF Receives, SdpInv, SdpRoles
<1>3. PICK b \in Clients : Second(b)
  <2>1. Len(peers) >= 2
    BY <1>1 DEF SdpInv, NotBeforeTwo, Sdps, TypeOK, ServerTypeOK
  <2> QED BY <2>1, Places
<1>4. Events!Receives(c, "answer")
  <2>1. At(c, b, 7) /\ 7 \in Stages
    BY <1>1 DEF At, Stages
  <2>2. "answer" \notin told[c]
    BY <1>3, <2>1 DEF ToldAnswer
  <2> QED BY <1>1, <2>2, Hears DEF ListenerH, Receives, answer
<1>5. \/ UNCHANGED remote
      \/ local[c] = "offer" /\ remote' = [remote EXCEPT ![c] = "answer"]
  BY <1>2 DEF answer, receive_answer, ParseFails, SetRemoteFails
<1>6. \/ UNCHANGED Remotes
      \/ Locals[c] /\ Remotes' = [Remotes EXCEPT ![c] = TRUE]
  <2>1. remote' = [remote EXCEPT ![c] = "answer"] => Remotes' = [Remotes EXCEPT ![c] = TRUE]
    BY DEF Remotes, TypeOK, PeerTypeOK
  <2>2. local[c] = "offer" => Locals[c]
    BY DEF Locals
  <2>3. remote' = remote => Remotes' = Remotes
    BY DEF Remotes
  <2> QED BY <1>5, <2>1, <2>2, <2>3
<1>7. UNCHANGED <<type_, creating, local>>
  BY <1>2 DEF answer, receive_answer, ParseFails, SetRemoteFails
<1>8. Events!Answer(c)
  BY <1>2, <1>4, <1>6, <1>7 DEF Events!Answer, Locals, Remotes
<1> QED BY <1>8 DEF Events!Next

\* A description is made, or that fails.
LEMMA CreatedEvent ==
    ASSUME TypeOK, NEW c \in Clients, OnSuccess(c) \/ OnFailure(c), UNCHANGED told
    PROVE  Events!Next
<1>1. /\ creating[c] \in Sdps /\ creating' = [creating EXCEPT ![c] = "none"]
      /\ UNCHANGED <<link, type_, remote>>
      /\ \/ UNCHANGED local
         \/ /\ creating[c] = "answer" => remote[c] # "none"
            /\ local' = [local EXCEPT ![c] = creating[c]]
  BY DEF OnSuccess, OnFailure, Sdps, netVars, TypeOK, PeerTypeOK, Description
<1>2. creating[c] \in Makings[c] /\ Makings' = [Makings EXCEPT ![c] = @ \ {creating[c]}]
  BY <1>1 DEF Makings, Sdps, TypeOK, PeerTypeOK
<1>3. \/ UNCHANGED Locals
      \/ (creating[c] = "answer" => Remotes[c]) /\ Locals' = [Locals EXCEPT ![c] = TRUE]
  <2>1. local' = [local EXCEPT ![c] = creating[c]] => Locals' = [Locals EXCEPT ![c] = TRUE]
    BY <1>1 DEF Locals, Sdps, TypeOK, PeerTypeOK
  <2>2. remote[c] # "none" => Remotes[c]
    BY DEF Remotes
  <2>3. local' = local => Locals' = Locals
    BY DEF Locals
  <2> QED BY <1>1, <2>1, <2>2, <2>3
<1>4. Sockets' = Sockets /\ Remotes' = Remotes
  BY <1>1 DEF Sockets, Socket, Remotes
<1>5. CASE creating[c] = "offer"
  <2>1. Events!Created(c, "offer")
    BY <1>1, <1>2, <1>3, <1>4, <1>5 DEF Events!Created, Makings, Locals, Remotes, Sockets
  <2> QED BY <2>1 DEF Events!Next
<1>6. CASE creating[c] = "answer"
  <2>1. Events!Created(c, "answer")
    BY <1>1, <1>2, <1>3, <1>4, <1>6 DEF Events!Created, Makings, Locals, Remotes, Sockets
  <2> QED BY <2>1 DEF Events!Next
<1> QED BY <1>1, <1>5, <1>6 DEF Sdps

LEMMA OtherPackets ==
    ASSUME TypeOK, ToldType, NEW c \in Clients, ListenerH(c),
           ice(c) \/ ack(c) \/ SessionEnded(c)
    PROVE  Events!Next \/ UNCHANGED Events!vars
<1>1. UNCHANGED told
  <2>1. Kind(Head(down[c]).ev) = {}
    BY DEF ice, ack, SessionEnded, Receives, HeadIs, Kind
  <2> QED BY <2>1 DEF ListenerH, ToldType
<1>2. UNCHANGED <<type_, creating, local, remote>>
  BY DEF ice, ack, SessionEnded, peerVars
<1>3. CASE ice(c) \/ ack(c)
  BY <1>1, <1>2, <1>3, Unseen DEF ice, ack
<1>4. CASE SessionEnded(c)
  <2>1. PICK l \in {"detached", "closed"} : link' = [link EXCEPT ![c] = l]
    BY <1>4 DEF SessionEnded
  <2>2. link[c] = "open"
    BY <1>4 DEF SessionEnded, Receives
  <2>3. CASE l = "closed"
    BY <1>1, <1>2, <2>1, <2>2, <2>3, LinkEvents DEF LinkState
  <2>4. CASE l = "detached"
    <3>1. ASSUME NEW d \in Clients PROVE Socket(d)' = Socket(d)
      <4>1. CASE d = c
        <5>1. link'[d] = "detached" /\ link[d] = "open"
          BY <2>1, <2>2, <2>4, <4>1 DEF TypeOK, NetTypeOK
        <5> QED BY <5>1 DEF Socket
      <4>2. CASE d # c
        <5>1. link'[d] = link[d]
          BY <2>1, <4>2 DEF TypeOK, NetTypeOK
        <5> QED BY <5>1, Zenon DEF Socket
      <4> QED BY <4>1, <4>2
    <3> QED BY <1>1, <1>2, <3>1 DEF Events!vars
  <2> QED BY <2>1, <2>3, <2>4
<1> QED BY <1>3, <1>4

\* For every set of clients: whatever the server and the other clients do, a client
\* is told its role once, and once at most to be ready, of an offer and of an answer,
\* and makes and takes descriptions only then.  AndroidDataChannel and CombinedClient,
\* which have no server in them, take this for granted.
THEOREM ImplementsClientEvents == SpecH => ToldOnce
<1>1. InitH => Events!Init
  <2> SUFFICES ASSUME InitH PROVE Events!Init
    OBVIOUS
  <2>1. /\ type_ = [c \in Clients |-> "Undefined"] /\ told = [c \in Clients |-> {}]
        /\ \A c \in Clients : link[c] = "idle" /\ creating[c] = "none"
        /\ \A c \in Clients : local[c] = "none" /\ remote[c] = "none"
    BY DEF InitH, Init, NetInit, PeerInit
  <2>2. Sockets = [c \in Clients |-> "pending"]
    BY <2>1 DEF Sockets, Socket
  <2>3. Makings = [c \in Clients |-> {}]
    BY <2>1 DEF Makings
  <2>4. Locals = [c \in Clients |-> FALSE] /\ Remotes = [c \in Clients |-> FALSE]
    BY <2>1 DEF Locals, Remotes
  <2> QED BY <2>1, <2>2, <2>3, <2>4 DEF Events!Init, Sockets, Makings, Locals, Remotes
<1>2. TypeOK /\ RoleInv /\ SdpInv /\ HistoryInv /\ [NextH]_varsH =>
        [Events!Next]_(Events!vars)
  <2> SUFFICES ASSUME TypeOK, RoleInv, SdpInv, HistoryInv, [NextH]_varsH
               PROVE  Events!Next \/ UNCHANGED Events!vars
    OBVIOUS
  <2>1. UNCHANGED varsH => UNCHANGED Events!vars
    BY Unseen DEF varsH, vars, netVars, peerVars
  <2>2. ASSUME NEW c \in Clients, ListenerH(c) PROVE Events!Next \/ UNCHANGED Events!vars
    <3>1. \/ set_as_caller(c) \/ set_as_callee(c) \/ ready(c) \/ offer(c) \/ answer(c)
          \/ ice(c) \/ ack(c) \/ SessionEnded(c)
      BY <2>2 DEF ListenerH, Listener
    <3> QED BY <2>2, <3>1, RoleEvent, ReadyEvent, OfferEvent, AnswerEvent, OtherPackets
            DEF HistoryInv
  <2>3. ASSUME NEW c \in Clients, ServerStep(c) \/ Observer(c) \/ Environment(c), UNCHANGED told
        PROVE  Events!Next \/ UNCHANGED Events!vars
    <3>1. CASE OnSuccess(c) \/ OnFailure(c)
      BY <2>3, <3>1, CreatedEvent
    <3>2. CASE on_connected(c) \/ on_fail(c) \/ on_close(c)
      BY <2>3, <3>2, LinkEvents
         DEF on_connected, on_fail, on_close, is_connected, peerVars, LinkState
    <3>3. CASE ServerStep(c) \/ OnIceCandidate(c) \/ (Disconnect(c) /\ UNCHANGED peerVars)
      BY <2>3, <3>3, Unseen
         DEF ServerStep, Refuse, Admit, Relay, CallReturns, OnIceCandidate, Disconnect, peerVars
    <3>4. \/ OnSuccess(c) \/ OnFailure(c)
          \/ on_connected(c) \/ on_fail(c) \/ on_close(c)
          \/ ServerStep(c) \/ OnIceCandidate(c) \/ (Disconnect(c) /\ UNCHANGED peerVars)
      BY <2>3 DEF Observer, Environment
    <3> QED BY <3>1, <3>2, <3>3, <3>4
  <2>4. ASSUME NEW p \in calls, TimeOut(p), UNCHANGED told PROVE UNCHANGED Events!vars
    BY <2>4, Unseen DEF TimeOut, CallTimesOut, netVars, peerVars
  <2> QED BY <2>1, <2>2, <2>3, <2>4 DEF NextH
<1> QED BY <1>1, <1>2, HistoryIsSession, TypeCorrect, RoleInvariant, SdpInvariant,
           HistoryInvariant, PTL DEF SpecH, ToldOnce, Events!Spec

------------------------------------------------------------------------------
(***************************************************************************)
(* Nothing loses the exchange.  The caller's role is ahead of ready as the *)
(* callee's is ahead of the offer, so ready finds a caller and each stage  *)
(* hands over to the next, as long as the two peers stay connected and the *)
(* library does what it is asked.                                          *)
(***************************************************************************)

\* The caller's role is ahead of ready.
CallerAhead(q, c) ==
    \E j \in DOMAIN q[c] :
        /\ q[c][j].ev = "set-as-caller"
        /\ \A i \in DOMAIN q[c] : q[c][i].ev = "ready" => j < i

CallerKnows ==
    \A c \in Clients :
        link[c] = "open" /\ First(c) => type_[c] = "Caller" \/ CallerAhead(down, c)

\* A client none of whose calls failed has set what it made, and makes an answer to
\* an offer it has set.
Unfailed ==
    \A c \in Clients : ~failed[c] =>
        local[c] = made[c] /\ (creating[c] = "answer" => remote[c] = "offer")

UnderWay(a, b) == remote[a] = "answer" \/ \E s \in Stages : At(a, b, s)

Well(a, b) == Together /\ First(a) /\ Second(b) /\ ~failed[a] /\ ~failed[b]

\* The inductive invariant behind ExchangeNeverLost, beside TypeOK, RoleInv and SdpInv.
LostInv ==
    CallerKnows /\ Unfailed /\ \A a, b \in Clients : Well(a, b) => UnderWay(a, b)

LEMMA TakeCallerAhead ==
    ASSUME NEW q \in [Clients -> Seq(ToClient)], NEW c \in Clients, q[c] # <<>>,
           Head(q[c]).ev # "set-as-caller", NEW d \in Clients, CallerAhead(q, d)
    PROVE  CallerAhead(Take(q, c), d)
<1> DEFINE t == Take(q, c)
<1>1. PICK j \in DOMAIN q[d] : /\ q[d][j].ev = "set-as-caller"
                               /\ \A i \in DOMAIN q[d] : q[d][i].ev = "ready" => j < i
  BY DEF CallerAhead
<1>2. CASE d # c
  <2>1. t[d] = q[d]
    BY <1>2 DEF Take
  <2> QED BY <1>1, <2>1 DEF CallerAhead
<1>3. CASE d = c
  <2>1. j \in Nat /\ j # 1 /\ j # 0
    BY <1>1, <1>3
  <2>2. t[c] = Tail(q[c])
    BY DEF Take
  <2>3. j - 1 \in DOMAIN t[c] /\ t[c][j - 1] = q[c][j]
    BY <1>1, <1>3, <2>1, <2>2
  <2>4. ASSUME NEW i \in DOMAIN t[c], t[c][i].ev = "ready" PROVE j - 1 < i
    <3>1. i + 1 \in DOMAIN q[c] /\ t[c][i] = q[c][i + 1] /\ i \in Nat
      BY <2>2
    <3> QED BY <1>1, <1>3, <2>1, <2>4, <3>1
  <2> QED BY <1>1, <1>3, <2>3, <2>4 DEF CallerAhead
<1> QED BY <1>2, <1>3

LEMMA PutCallerAhead ==
    ASSUME NEW q \in [Clients -> Seq(ToClient)], NEW S, NEW p \in ToClient,
           NEW d \in Clients, CallerAhead(q, d)
    PROVE  CallerAhead(Put(q, S, p), d)
<1> DEFINE r == Put(q, S, p)
<1>1. PICK j \in DOMAIN q[d] : /\ q[d][j].ev = "set-as-caller"
                               /\ \A i \in DOMAIN q[d] : q[d][i].ev = "ready" => j < i
  BY DEF CallerAhead
<1>2. j \in DOMAIN r[d] /\ r[d][j] = q[d][j] /\ j \in Nat /\ j <= Len(q[d])
  BY DEF Put
<1>3. ASSUME NEW i \in DOMAIN r[d], r[d][i].ev = "ready" PROVE j < i
  <2>1. (i \in DOMAIN q[d] /\ r[d][i] = q[d][i]) \/ i = Len(q[d]) + 1
    BY PutAt
  <2> QED BY <1>1, <1>2, <1>3, <2>1
<1> QED BY <1>1, <1>2, <1>3 DEF CallerAhead

\* Only the handler of set-as-caller and the loss of the connection end it.
LEMMA CallerAheadKept ==
    ASSUME TypeOK, RoleInv, SdpInv, Next, NEW d \in Clients, CallerAhead(down, d),
           link'[d] = "open", type_'[d] # "Caller"
    PROVE  CallerAhead(down', d)
<1>1. down \in [Clients -> Seq(ToClient)] /\ link \in [Clients -> LinkState]
      /\ type_ \in [Clients -> PeerType]
  BY DEF TypeOK, NetTypeOK, PeerTypeOK
<1>2. PICK c \in Clients :
          \/ down' = down
          \/ down' = [down EXCEPT ![c] = <<>>] /\ link' = [link EXCEPT ![c] = "closed"]
          \/ Listener(c)
          \/ Admit(c)
          \/ \E S, p : p \in ToClient /\ down' = Put(down, S, p)
  BY DownStep
<1>3. CASE down' = down
  BY <1>3 DEF CallerAhead
<1>4. CASE down' = [down EXCEPT ![c] = <<>>] /\ link' = [link EXCEPT ![c] = "closed"]
  <2>1. down'[d] = down[d]
    BY <1>1, <1>4
  <2> QED BY <2>1 DEF CallerAhead
<1>5. CASE Listener(c)
  <2>1. down' = Take(down, c) /\ down[c] # <<>>
    BY <1>5, ListenerTakes
  <2>2. CASE Head(down[c]).ev # "set-as-caller"
    <3>1. CallerAhead(Take(down, c), d)
      BY <1>1, <2>1, <2>2, TakeCallerAhead
    <3> QED BY <2>1, <3>1
  <2>3. CASE Head(down[c]).ev = "set-as-caller"
    <3>1. set_as_caller(c)
      BY <1>5, <2>3 DEF Listener, Receives, HeadIs, set_as_callee, ready, offer, answer, ice,
                        ack, SessionEnded
    <3>2. d # c
      BY <1>1, <3>1 DEF set_as_caller
    <3>3. down'[d] = down[d]
      BY <1>1, <2>1, <3>2 DEF Take
    <3> QED BY <3>3 DEF CallerAhead
  <2> QED BY <2>2, <2>3
<1>6. CASE Admit(c)
  <2> DEFINE room == {x \in online : IsPeer(x)} \cup {c}
             caller == Put(down, {c}, Notice("set-as-caller"))
             callee == Put(down, {c}, Notice("set-as-callee"))
  <2>1. /\ Notice("set-as-caller") \in ToClient /\ Notice("set-as-callee") \in ToClient
        /\ Notice("ready") \in ToClient
    BY PacketType
  <2>2. callee \in [Clients -> Seq(ToClient)]
    BY <1>1, <2>1, PutType
  <2>3. CallerAhead(caller, d) /\ CallerAhead(callee, d)
    BY <1>1, <2>1, PutCallerAhead
  <2>4. CallerAhead(Put(callee, room, Notice("ready")), d)
    <3> HIDE DEF callee, room
    <3> QED BY <2>1, <2>2, <2>3, PutCallerAhead
  <2>5. down' = caller \/ down' = Put(callee, room, Notice("ready")) \/ down' = down
    BY <1>6 DEF Admit, Announce
  <2> QED BY <1>3, <2>3, <2>4, <2>5
<1>7. ASSUME NEW S, NEW p \in ToClient, down' = Put(down, S, p)
      PROVE  CallerAhead(down', d)
  BY <1>1, <1>7, PutCallerAhead
<1> QED BY <1>2, <1>3, <1>4, <1>5, <1>6, <1>7

\* The first to come is sent its role before anything else of the exchange.
LEMMA FirstAdmitted ==
    ASSUME TypeOK, RoleInv, SdpInv, NEW c \in Clients, Admit(c), Len(peers) = 0
    PROVE  CallerAhead(down', c)
<1> DEFINE n == Len(down[c])
           p == Notice("set-as-caller")
<1>1. down \in [Clients -> Seq(ToClient)] /\ p.ev = "set-as-caller"
  BY DEF TypeOK, NetTypeOK, Notice
<1>2. down' = Put(down, {c}, p)
  BY DEF Admit, Announce, Place
<1>3. down'[c] = Append(down[c], p)
  BY <1>2 DEF Put
<1>4. n + 1 \in DOMAIN down'[c] /\ down'[c][n + 1] = p
  BY <1>1, <1>3
<1>5. \A i \in DOMAIN down'[c] : down'[c][i].ev # "ready"
  <2>1. ~Queued(down, c, "ready")
    BY DEF SdpInv, NotBeforeTwo
  <2>2. \A i \in DOMAIN down'[c] : i = n + 1 \/ (i \in DOMAIN down[c] /\ down'[c][i] = down[c][i])
    BY <1>1, <1>3
  <2> QED BY <1>1, <1>4, <2>1, <2>2 DEF Queued
<1> QED BY <1>1, <1>4, <1>5 DEF CallerAhead

LEMMA LinkOpens ==
    ASSUME TypeOK, Next, NEW c \in Clients, link'[c] = "open"
    PROVE  link[c] \in {"open", "idle"}
<1>1. \/ link' = link
      \/ \E d \in Clients, l \in {"detached", "closed"} : link' = [link EXCEPT ![d] = l]
      \/ \E d \in Clients : link[d] = "idle" /\ link' = [link EXCEPT ![d] = "open"]
  BY DEF Next, TimeOut, CallTimesOut, ServerStep, Refuse, Admit, Relay, CallReturns, Listener,
         Receives, set_as_caller, set_as_callee, ready, offer, answer, ice, ack, SessionEnded,
         Observer, OnSuccess, OnIceCandidate,
         Environment, on_connected, on_fail, on_close, OnFailure, Disconnect, netVars
<1> QED BY <1>1 DEF TypeOK, NetTypeOK

\* How the list of the peers grows.
LEMMA PeersStep ==
    ASSUME TypeOK, Next
    PROVE  \/ UNCHANGED peers
           \/ \E c \in Clients : /\ Admit(c) /\ peers' = Append(peers, c) /\ UNCHANGED peerVars
BY DEF Next, TimeOut, CallTimesOut, ServerStep, Refuse, Admit, Relay, CallReturns, Listener,
       Observer, Environment, Disconnect, serverVars

LEMMA KnowsKept ==
    ASSUME TypeOK, RoleInv, SdpInv, CallerKnows, Next
    PROVE  CallerKnows'
<1> SUFFICES ASSUME NEW c \in Clients, link'[c] = "open", First(c)'
             PROVE  type_'[c] = "Caller" \/ CallerAhead(down', c)
  BY DEF CallerKnows, CallerAhead
<1>1. peers \in Seq(Clients) /\ Len(peers) \in Nat
  BY DEF TypeOK, ServerTypeOK
<1>2. CASE First(c)
  <2>1. link[c] = "open"
    <3>1. IsPeer(c)
      BY <1>1, <1>2 DEF First, IsPeer
    <3> QED BY <3>1, LinkOpens DEF RoleInv, ConnectsOnce
  <2>2. type_[c] = "Caller" => type_'[c] = "Caller"
    BY RolesAreKept DEF RolesStay
  <2> QED BY <1>2, <2>1, <2>2, CallerAheadKept DEF CallerKnows
<1>3. CASE ~First(c)
  <2>1. PICK d \in Clients : Admit(d) /\ peers' = Append(peers, d)
    BY <1>3, PeersStep DEF First
  <2>2. Len(peers) = 0 /\ d = c
    BY <1>1, <1>3, <2>1 DEF First
  <2> QED BY <2>1, <2>2, FirstAdmitted
<1> QED BY <1>2, <1>3

\* What the peers have been given stays.
LEMMA RemoteStep ==
    ASSUME TypeOK, RoleInv, SdpInv, Next, NEW c \in Clients
    PROVE  \/ remote'[c] = remote[c]
           \/ remote[c] = "none" /\ remote'[c] = "offer" /\ offer(c)
           \/ remote[c] = "none" /\ remote'[c] = "answer" /\ answer(c) /\ type_[c] = "Caller"
<1>1. \/ UNCHANGED remote
      \/ \E d \in Clients :
            \/ offer(d) /\ remote' = [remote EXCEPT ![d] = "offer"]
            \/ answer(d) /\ remote' = [remote EXCEPT ![d] = "answer"]
  BY DEF Next, TimeOut, CallTimesOut, ServerStep, Listener, Observer, Environment,
         set_as_caller, set_as_callee, ready, offer, answer, ice, ack, SessionEnded,
         receive_offer_create_answer, receive_answer, ParseFails, SetRemoteFails, Unexpected,
         OnSuccess, OnIceCandidate, on_connected, on_fail, on_close, OnFailure, peerVars
<1>2. offer(c) => remote[c] = "none"
  BY OfferMet DEF offer, Receives
<1>3. answer(c) => remote[c] = "none" /\ type_[c] = "Caller"
  BY AnswerMet DEF answer, Receives
<1> QED BY <1>1, <1>2, <1>3 DEF TypeOK, PeerTypeOK

LEMMA UnfailedKept ==
    ASSUME TypeOK, RoleInv, SdpInv, Unfailed, Next
    PROVE  Unfailed'
<1> SUFFICES ASSUME NEW c \in Clients, ~failed'[c]
             PROVE  local'[c] = made'[c] /\ (creating'[c] = "answer" => remote'[c] = "offer")
  BY DEF Unfailed
<1>1. ~failed[c]
  BY FailedStays
<1>2. local'[c] = made'[c]
  <2>1. \/ UNCHANGED <<local, made>>
        \/ \E d \in Clients :
              /\ made' = [made EXCEPT ![d] = creating[d]]
              /\ \/ local' = [local EXCEPT ![d] = creating[d]]
                 \/ local' = local /\ failed' = [failed EXCEPT ![d] = TRUE]
    BY DEF Next, TimeOut, CallTimesOut, ServerStep, Listener, Observer, Environment,
           set_as_caller, set_as_callee, ready, offer, answer, ice, ack, SessionEnded,
           OnSuccess, OnIceCandidate, on_connected, on_fail, on_close, OnFailure, peerVars
  <2> QED BY <1>1, <2>1 DEF Unfailed, TypeOK, PeerTypeOK
<1>3. ASSUME creating'[c] = "answer" PROVE remote'[c] = "offer"
  <2>1. CASE creating[c] = "answer"
    <3>1. remote[c] = "offer"
      BY <1>1, <2>1 DEF Unfailed
    <3> QED BY <3>1, RemoteStep
  <2>2. CASE creating[c] # "answer"
    <3>1. offer(c) /\ type_[c] = "Callee"
      BY <1>3, <2>2, CreatingAdds
    <3> QED BY <1>3, <2>2, <3>1
            DEF offer, receive_offer_create_answer, ParseFails, SetRemoteFails, TypeOK, PeerTypeOK
  <2> QED BY <2>1, <2>2
<1> QED BY <1>2, <1>3

(* What leaves its place goes to the next *)

LEMMA TakeKeeps ==
    ASSUME NEW P, NEW q \in [Clients -> Seq(P)], NEW c \in Clients, q[c] # <<>>,
           NEW d \in Clients, NEW ev, Queued(q, d, ev), d = c => Head(q[c]).ev # ev
    PROVE  Queued(Take(q, c), d, ev)
<1>1. PICK j \in DOMAIN q[d] : q[d][j].ev = ev
  BY DEF Queued
<1>2. CASE d = c
  <2>1. j \in Nat /\ j # 0 /\ j # 1
    BY <1>1, <1>2
  <2>2. Take(q, c)[c] = Tail(q[c])
    BY DEF Take
  <2>3. j - 1 \in DOMAIN Tail(q[c]) /\ Tail(q[c])[j - 1] = q[c][j]
    BY <1>1, <1>2, <2>1
  <2> QED BY <1>1, <1>2, <2>2, <2>3 DEF Queued
<1>3. CASE d # c
  <2>1. Take(q, c)[d] = q[d]
    BY <1>3 DEF Take
  <2> QED BY <1>1, <2>1 DEF Queued
<1> QED BY <1>2, <1>3

LEMMA PutKeeps ==
    ASSUME NEW P, NEW q \in [Clients -> Seq(P)], NEW S, NEW p \in P,
           NEW d \in Clients, NEW ev, Queued(q, d, ev) \/ (d \in S /\ p.ev = ev)
    PROVE  Queued(Put(q, S, p), d, ev)
<1>1. Put(q, S, p)[d] = IF d \in S THEN Append(q[d], p) ELSE q[d]
  BY DEF Put
<1>2. CASE Queued(q, d, ev)
  BY <1>1, <1>2 DEF Queued
<1>3. CASE d \in S /\ p.ev = ev
  <2>1. Len(q[d]) + 1 \in DOMAIN Append(q[d], p) /\ Append(q[d], p)[Len(q[d]) + 1] = p
    OBVIOUS
  <2> QED BY <1>1, <1>3, <2>1 DEF Queued
<1> QED BY <1>2, <1>3

LEMMA DownLeaves ==
    ASSUME TypeOK, RoleInv, Next, UNCHANGED peers, NEW d \in Clients, NEW ev,
           Queued(down, d, ev), link'[d] = "open"
    PROVE  Queued(down', d, ev) \/ (Listener(d) /\ Head(down[d]).ev = ev)
<1>1. down \in [Clients -> Seq(ToClient)] /\ link \in [Clients -> LinkState]
  BY DEF TypeOK, NetTypeOK
<1>2. PICK c \in Clients :
          \/ down' = down
          \/ down' = [down EXCEPT ![c] = <<>>] /\ link' = [link EXCEPT ![c] = "closed"]
          \/ Listener(c)
          \/ Admit(c)
          \/ \E S, p : p \in ToClient /\ down' = Put(down, S, p)
  BY DownStep
<1>3. CASE down' = down
  BY <1>3 DEF Queued
<1>4. CASE down' = [down EXCEPT ![c] = <<>>] /\ link' = [link EXCEPT ![c] = "closed"]
  <2>1. down'[d] = down[d]
    BY <1>1, <1>4
  <2> QED BY <2>1 DEF Queued
<1>5. CASE Listener(c)
  <2>1. down' = Take(down, c) /\ down[c] # <<>>
    BY <1>5, ListenerTakes
  <2>2. d = c \/ Queued(Take(down, c), d, ev)
    BY <1>1, <2>1, TakeKeeps
  <2>3. d = c => Head(down[c]).ev = ev \/ Queued(Take(down, c), d, ev)
    BY <1>1, <2>1, TakeKeeps
  <2> QED BY <1>5, <2>1, <2>2, <2>3
<1>6. ~Admit(c)
  <2>1. Len(Append(peers, c)) = Len(peers) + 1 /\ Len(peers) \in Nat
    BY DEF TypeOK, ServerTypeOK
  <2>2. Append(peers, c) # peers
    BY <2>1
  <2> QED BY <2>2 DEF Admit
<1>7. ASSUME NEW S, NEW p \in ToClient, down' = Put(down, S, p) PROVE Queued(down', d, ev)
  BY <1>1, <1>7, PutKeeps
<1> QED BY <1>2, <1>3, <1>4, <1>5, <1>6, <1>7

LEMMA UpLeaves ==
    ASSUME TypeOK, Next, NEW d \in Clients, NEW ev, Queued(up, d, ev), d \in online'
    PROVE  Queued(up', d, ev) \/ (ServerStep(d) /\ Head(up[d]).ev = ev)
<1>1. up \in [Clients -> Seq(ToServer)]
  BY DEF TypeOK, NetTypeOK
<1>2. PICK c \in Clients :
          \/ up' = up
          \/ up' = [up EXCEPT ![c] = <<>>] /\ Disconnect(c)
          \/ up' = Take(up, c) /\ up[c] # <<>> /\ ServerStep(c)
          \/ \E p \in ToServer : up' = Put(up, {c}, p)
  BY UpStep
<1>3. CASE up' = up
  BY <1>3 DEF Queued
<1>4. CASE up' = [up EXCEPT ![c] = <<>>] /\ Disconnect(c)
  <2>1. up'[d] = up[d]
    BY <1>1, <1>4 DEF Disconnect
  <2> QED BY <2>1 DEF Queued
<1>5. CASE up' = Take(up, c) /\ up[c] # <<>> /\ ServerStep(c)
  <2>1. d = c \/ Queued(Take(up, c), d, ev)
    BY <1>1, <1>5, TakeKeeps
  <2>2. d = c => Head(up[c]).ev = ev \/ Queued(Take(up, c), d, ev)
    BY <1>1, <1>5, TakeKeeps
  <2> QED BY <1>5, <2>1, <2>2
<1>6. ASSUME NEW p \in ToServer, up' = Put(up, {c}, p) PROVE Queued(up', d, ev)
  BY <1>1, <1>6, PutKeeps
<1> QED BY <1>2, <1>3, <1>4, <1>5, <1>6

LEMMA CreatingLeaves ==
    ASSUME TypeOK, SdpInv, Next, NEW d \in Clients, NEW ev \in Sdps, creating[d] = ev,
           ~failed'[d]
    PROVE  creating'[d] = ev \/ OnSuccess(d)
<1>1. \/ UNCHANGED creating
      \/ \E c \in Clients :
            \/ creating' = [creating EXCEPT ![c] = "offer"] /\ type_[c] = "Caller"
            \/ creating' = [creating EXCEPT ![c] = "answer"] /\ type_[c] = "Callee"
            \/ OnSuccess(c) /\ creating' = [creating EXCEPT ![c] = "none"]
            \/ failed' = [failed EXCEPT ![c] = TRUE] /\ creating' = [creating EXCEPT ![c] = "none"]
  BY DEF Next, TimeOut, CallTimesOut, ServerStep, Listener, Observer, Environment,
         set_as_caller, set_as_callee, ready, create_offer, offer, answer, ice, ack,
         SessionEnded, receive_offer_create_answer, receive_answer, ParseFails,
         SetRemoteFails, Unexpected, OnSuccess, OnIceCandidate, on_connected, on_fail,
         on_close, OnFailure, peerVars
<1>2. /\ creating[d] = "offer" => type_[d] = "Caller"
      /\ creating[d] = "answer" => type_[d] = "Callee"
  BY DEF SdpInv, SdpRoles
<1> QED BY <1>1, <1>2 DEF TypeOK, PeerTypeOK, Sdps

\* ready is heard by a client that knows it is the caller.
LEMMA ReadyMet ==
    ASSUME TypeOK, RoleInv, CallerKnows, NEW a \in Clients, First(a), link[a] = "open",
           HeadIs(down, a, "ready")
    PROVE  type_[a] = "Caller"
<1>1. 1 \in DOMAIN down[a] /\ down[a][1].ev = "ready" /\ DOMAIN down[a] \subseteq Nat \ {0}
  BY HeadQueued DEF TypeOK, NetTypeOK
<1>2. ~CallerAhead(down, a)
  BY <1>1 DEF CallerAhead
<1> QED BY <1>2 DEF CallerKnows

\* The server hands a description on to the other peer.
LEMMA RelayHands ==
    ASSUME TypeOK, RoleInv, SdpInv, NEW a \in Clients, NEW b \in Clients, First(a), Second(b),
           NEW c \in {a, b}, NEW o \in {a, b} \ {c}, o \in online,
           ServerStep(c), NEW ev \in Sdps, Head(up[c]).ev = ev
    PROVE  Queued(down', o, ev)
<1>1. up \in [Clients -> Seq(ToServer)] /\ down \in [Clients -> Seq(ToClient)] /\ c \in Clients
  BY DEF TypeOK, NetTypeOK
<1>2. Relay(c)
  BY DEF ServerStep, Refuse, Admit, CallReturns, HeadIs, Sdps
<1>3. CounterIndexes(c) # {}
  <2>1. Len(peers) >= 2 /\ peers \in Seq(Clients) /\ peers[1] = a /\ peers[2] = b /\ a # b
    BY Places DEF First, Second, TypeOK, ServerTypeOK
  <2>2. 1 \in DOMAIN peers /\ 2 \in DOMAIN peers
    BY <2>1
  <2> QED BY <2>1, <2>2 DEF CounterIndexes
<1>4. Counter(c) = o
  BY <1>3, CounterOfPeer, Places
<1>5. /\ up[c] # <<>> /\ Head(up[c]) \in ToClient
      /\ down' = Put(down, {Counter(c)} \cap online, Head(up[c]))
  <2>1. PICK k \in Call : Head(up[c]) = Emit(k) /\ Head(up[c]).call = k
    BY <1>2 DEF Relay, CallPacket, Emit
  <2> QED BY <1>2, <1>3, <2>1, PacketType DEF Relay
<1>6. o \in {Counter(c)} \cap online /\ o \in Clients
  BY <1>4 DEF TypeOK, NetTypeOK
<1>7. Queued(Put(down, {Counter(c)} \cap online, Head(up[c])), o, ev)
  <2> DEFINE S == {Counter(c)} \cap online
             p == Head(up[c])
  <2>1. p \in ToClient /\ o \in S /\ p.ev = ev
    BY <1>5, <1>6
  <2> HIDE DEF S, p
  <2>2. Queued(Put(down, S, p), o, ev)
    BY <1>1, <1>6, <2>1, PutKeeps
  <2> QED BY <2>2 DEF S, p
<1> QED BY <1>5, <1>7

\* A description that is made is emitted.
LEMMA MadeIsSent ==
    ASSUME TypeOK, SdpInv, NEW c \in Clients, OnSuccess(c), link[c] = "open",
           NEW ev \in Sdps, creating[c] = ev
    PROVE  Queued(up', c, ev)
<1> DEFINE p == Emit(Sdp(SdpEvent(c), c))
<1>1. up \in [Clients -> Seq(ToServer)]
  BY DEF TypeOK, NetTypeOK
<1>2. p \in ToServer /\ p.ev = ev /\ up' = Put(up, {c}, p)
  <2>1. ev = "offer" <=> type_[c] = "Caller"
    BY DEF SdpInv, SdpRoles, Sdps
  <2> QED BY <2>1, PacketType DEF OnSuccess, emit, SdpEvent, Emit, Sdp, Sdps
<1> HIDE DEF p
<1>3. Queued(Put(up, {c}, p), c, ev)
  BY <1>1, <1>2, PutKeeps
<1> QED BY <1>2, <1>3

\* Each stage hands over to the next.
LEMMA StageHands ==
    ASSUME TypeOK, RoleInv, SdpInv, LostInv, Next, UNCHANGED peers,
           NEW a \in Clients, NEW b \in Clients, First(a), Second(b),
           {a, b} \subseteq online, {a, b} \subseteq online',
           link[a] = "open", link'[a] = "open", link[b] = "open", link'[b] = "open",
           ~failed'[a], ~failed'[b], NEW s \in Stages, At(a, b, s)
    PROVE  UnderWay(a, b)'
<1> USE DEF Stages
<1>1. a # b /\ type_ \in [Clients -> PeerType]
  BY Places DEF TypeOK, PeerTypeOK
<1>2. \A t \in Stages : At(a, b, t)' => UnderWay(a, b)'
  BY DEF UnderWay
<1>3. CASE s = 1
  <2>1. Queued(down, a, "ready")
    BY <1>3 DEF At
  <2>2. CASE Queued(down', a, "ready")
    BY <1>2, <1>3, <2>2 DEF At
  <2>3. CASE Listener(a) /\ Head(down[a]).ev = "ready"
    <3>1. ready(a) /\ HeadIs(down, a, "ready")
      BY <2>3 DEF Listener, Receives, HeadIs, set_as_caller, set_as_callee, ready, offer,
                  answer, ice, ack, SessionEnded
    <3>2. type_[a] = "Caller"
      BY <3>1, ReadyMet DEF LostInv
    <3>3. At(a, b, 2)'
      BY <3>1, <3>2 DEF ready, create_offer, At, TypeOK, PeerTypeOK
    <3> QED BY <1>2, <3>3
  <2> QED BY <2>1, <2>2, <2>3, DownLeaves
<1>4. CASE s = 2
  <2>1. creating[a] = "offer"
    BY <1>4 DEF At
  <2>2. CASE creating'[a] = "offer"
    BY <1>2, <1>4, <2>2 DEF At
  <2>3. CASE OnSuccess(a)
    <3>1. At(a, b, 3)'
      BY <2>1, <2>3, MadeIsSent DEF At, Sdps
    <3> QED BY <1>2, <3>1
  <2> QED BY <2>1, <2>2, <2>3, CreatingLeaves DEF Sdps
<1>5. CASE s = 3
  <2>1. Queued(up, a, "offer")
    BY <1>5 DEF At
  <2>2. CASE Queued(up', a, "offer")
    BY <1>2, <1>5, <2>2 DEF At
  <2>3. CASE ServerStep(a) /\ Head(up[a]).ev = "offer"
    <3>1. At(a, b, 4)'
      BY <1>1, <2>3, RelayHands DEF At, Sdps
    <3> QED BY <1>2, <3>1
  <2> QED BY <2>1, <2>2, <2>3, UpLeaves
<1>6. CASE s = 4
  <2>1. Queued(down, b, "offer")
    BY <1>6 DEF At
  <2>2. CASE Queued(down', b, "offer")
    BY <1>2, <1>6, <2>2 DEF At
  <2>3. CASE Listener(b) /\ Head(down[b]).ev = "offer"
    <3>1. offer(b)
      BY <2>3 DEF Listener, Receives, HeadIs, set_as_caller, set_as_callee, ready, answer,
                  ice, ack, SessionEnded
    <3>2. type_[b] = "Callee"
      BY <3>1, OfferMet DEF offer, Receives
    <3>3. At(a, b, 5)'
      BY <3>1, <3>2 DEF offer, receive_offer_create_answer, ParseFails, SetRemoteFails, At,
                        TypeOK, PeerTypeOK
    <3> QED BY <1>2, <3>3
  <2> QED BY <2>1, <2>2, <2>3, DownLeaves
<1>7. CASE s = 5
  <2>1. creating[b] = "answer"
    BY <1>7 DEF At
  <2>2. CASE creating'[b] = "answer"
    BY <1>2, <1>7, <2>2 DEF At
  <2>3. CASE OnSuccess(b)
    <3>1. At(a, b, 6)'
      BY <2>1, <2>3, MadeIsSent DEF At, Sdps
    <3> QED BY <1>2, <3>1
  <2> QED BY <2>1, <2>2, <2>3, CreatingLeaves DEF Sdps
<1>8. CASE s = 6
  <2>1. Queued(up, b, "answer")
    BY <1>8 DEF At
  <2>2. CASE Queued(up', b, "answer")
    BY <1>2, <1>8, <2>2 DEF At
  <2>3. CASE ServerStep(b) /\ Head(up[b]).ev = "answer"
    <3>1. At(a, b, 7)'
      BY <1>1, <2>3, RelayHands DEF At, Sdps
    <3> QED BY <1>2, <3>1
  <2> QED BY <2>1, <2>2, <2>3, UpLeaves
<1>9. CASE s = 7
  <2>1. Queued(down, a, "answer")
    BY <1>9 DEF At
  <2>2. CASE Queued(down', a, "answer")
    BY <1>2, <1>9, <2>2 DEF At
  <2>3. CASE Listener(a) /\ Head(down[a]).ev = "answer"
    <3>1. answer(a)
      BY <2>3 DEF Listener, Receives, HeadIs, set_as_caller, set_as_callee, ready, offer,
                  ice, ack, SessionEnded
    <3>2. type_[a] = "Caller"
      BY <3>1, AnswerMet DEF answer, Receives
    <3>3. remote'[a] = "answer"
      BY <3>1, <3>2 DEF answer, receive_answer, ParseFails, SetRemoteFails, TypeOK, PeerTypeOK
    <3> QED BY <3>3 DEF UnderWay
  <2> QED BY <2>1, <2>2, <2>3, DownLeaves
<1> QED BY <1>3, <1>4, <1>5, <1>6, <1>7, <1>8, <1>9

\* When the second peer is admitted, ready is on its way to the first.
LEMMA AdmitStarts ==
    ASSUME TypeOK, RoleInv, NEW c \in Clients, Admit(c), NEW a \in Clients, First(a),
           Len(peers) = 1, a \in online'
    PROVE  Queued(down', a, "ready")
<1> DEFINE room == {x \in online : IsPeer(x)} \cup {c}
           callee == Put(down, {c}, Notice("set-as-callee"))
<1>1. down \in [Clients -> Seq(ToClient)] /\ peers \in Seq(Clients)
  BY DEF TypeOK, NetTypeOK, ServerTypeOK
<1>2. /\ Notice("set-as-callee") \in ToClient
      /\ Notice("ready") \in ToClient /\ Notice("ready").ev = "ready"
  BY PacketType DEF Notice
<1>3. callee \in [Clients -> Seq(ToClient)]
  BY <1>1, <1>2, PutType
<1>4. down' = Put(callee, room, Notice("ready"))
  <2>1. Place = 2
    BY DEF Place
  <2> QED BY <2>1 DEF Admit, Announce
<1>5. a \in room
  <2>1. IsPeer(a)
    BY <1>1 DEF First, IsPeer
  <2> QED BY <2>1 DEF Admit
<1>6. Queued(Put(callee, room, Notice("ready")), a, "ready")
  <2> HIDE DEF callee, room
  <2> QED BY <1>2, <1>3, <1>5, PutKeeps
<1> QED BY <1>4, <1>6

LEMMA UnderWayKept ==
    ASSUME TypeOK, RoleInv, SdpInv, LostInv, Next, NEW a \in Clients, NEW b \in Clients,
           Well(a, b)'
    PROVE  UnderWay(a, b)'
<1>1. /\ First(a)' /\ Second(b)' /\ ~failed'[a] /\ ~failed'[b]
      /\ {a, b} \subseteq online' /\ link'[a] = "open" /\ link'[b] = "open" /\ Len(peers') = 2
  <2>1. /\ First(a)' /\ Second(b)' /\ ~failed'[a] /\ ~failed'[b] /\ Len(peers') = 2
        /\ \A i \in 1 .. 2 : peers'[i] \in online' /\ link'[peers'[i]] = "open"
    BY DEF Well, Together
  <2>2. peers'[1] = a /\ peers'[2] = b
    BY <2>1 DEF First, Second
  <2> QED BY <2>1, <2>2
<1>2. peers \in Seq(Clients) /\ Len(peers) \in Nat
  BY DEF TypeOK, ServerTypeOK
<1>3. ASSUME NEW c \in Clients, Admit(c), peers' = Append(peers, c) PROVE UnderWay(a, b)'
  <2>1. Len(peers) = 1 /\ First(a)
    <3>1. Len(peers') = Len(peers) + 1
      BY <1>2, <1>3
    <3>2. Len(peers) = 1
      <4> DEFINE n == Len(peers)
      <4>1. n \in Nat /\ n + 1 = 2
        BY <1>1, <1>2, <3>1
      <4> HIDE DEF n
      <4>2. n = 1
        BY <4>1
      <4> QED BY <4>2 DEF n
    <3>3. peers'[1] = peers[1] /\ peers'[1] = a
      BY <1>1, <1>2, <1>3, <3>2 DEF First
    <3> QED BY <3>2, <3>3 DEF First
  <2>2. At(a, b, 1)'
    BY <1>1, <1>3, <2>1, AdmitStarts DEF At
  <2> QED BY <2>2 DEF UnderWay, Stages
<1>4. CASE UNCHANGED peers
  <2>1. First(a) /\ Second(b) /\ IsPeer(a) /\ IsPeer(b) /\ Len(peers) = 2
    <3>1. First(a) /\ Second(b) /\ Len(peers) = 2
      BY <1>1, <1>4 DEF First, Second
    <3>2. 1 \in DOMAIN peers /\ 2 \in DOMAIN peers
      BY <1>2, <3>1
    <3> QED BY <3>1, <3>2 DEF First, Second, IsPeer
  <2>2. link[a] = "open" /\ link[b] = "open"
    BY <1>1, <2>1, LinkOpens DEF RoleInv, ConnectsOnce
  <2>3. {a, b} \subseteq online
    <3>1. Others(a, b)
      BY <2>1 DEF Others
    <3>2. ServerWay(a, b)'
      BY <1>1, <1>4, <3>1 DEF ServerWay, Others, First, Second
    <3> QED BY <1>4, <3>2, WaysClose DEF ServerWay
  <2>4. ~failed[a] /\ ~failed[b]
    BY <1>1, FailedStays
  <2>5. UnderWay(a, b)
    <3>1. Together
      BY <2>1, <2>2, <2>3 DEF Together, First, Second
    <3> QED BY <2>1, <2>4, <3>1 DEF LostInv, Well
  <2>6. CASE remote[a] = "answer"
    BY <2>6, RemoteStep DEF UnderWay
  <2>7. ASSUME NEW s \in Stages, At(a, b, s) PROVE UnderWay(a, b)'
    BY <1>1, <1>4, <2>1, <2>2, <2>3, <2>7, StageHands
  <2> QED BY <2>5, <2>6, <2>7 DEF UnderWay
<1> QED BY <1>3, <1>4, PeersStep

\* The inductive invariant: the exchange of two well peers is somewhere.
THEOREM LostInvariant == Spec => []LostInv
<1>1. Init => LostInv
  <2> SUFFICES ASSUME Init PROVE LostInv
    OBVIOUS
  <2>1. /\ peers = <<>>
        /\ \A c \in Clients : local[c] = "none" /\ made[c] = "none" /\ creating[c] = "none"
    BY DEF Init, ServerInit, PeerInit
  <2> QED BY <2>1 DEF LostInv, CallerKnows, Unfailed, Well, First
<1>2. TypeOK /\ RoleInv /\ SdpInv /\ LostInv /\ [Next]_vars => LostInv'
  <2> SUFFICES ASSUME TypeOK, RoleInv, SdpInv, LostInv, [Next]_vars PROVE LostInv'
    OBVIOUS
  <2>1. CASE UNCHANGED vars
    BY <2>1 DEF vars, netVars, serverVars, peerVars, LostInv, CallerKnows, CallerAhead,
                Unfailed, Well, Together, UnderWay, First, Second, At, Queued
  <2>2. CASE Next
    BY <2>2, KnowsKept, UnfailedKept, UnderWayKept DEF LostInv
  <2> QED BY <2>1, <2>2
<1> QED BY <1>1, <1>2, TypeCorrect, RoleInvariant, SdpInvariant, PTL DEF Spec

\* For every set of clients: while two peers stay connected and no call into the
\* library fails, what they exchange is complete or on its way to be.
THEOREM NeverLost == Spec => []ExchangeNeverLost
<1>1. TypeOK /\ RoleInv /\ SdpInv /\ LostInv => ExchangeNeverLost
  <2> SUFFICES ASSUME TypeOK, RoleInv, SdpInv, LostInv, NEW a \in Clients, NEW b \in Clients,
                      Together, First(a), Second(b), ~failed[a], ~failed[b]
               PROVE  /\ remote[a] = "answer" \/ \E s \in Stages : At(a, b, s)
                      /\ creating[b] = "answer" => remote[b] = "offer"
                      /\ Queued(down, a, "answer") => local[a] = "offer"
    BY DEF ExchangeNeverLost
  <2>1. UnderWay(a, b)
    BY DEF LostInv, Well
  <2>2. Queued(down, a, "answer") => made[a] = "offer"
    BY OneAtATime DEF At, Stages, Before
  <2> QED BY <2>1, <2>2 DEF LostInv, Unfailed, UnderWay
<1> QED BY <1>1, TypeCorrect, RoleInvariant, SdpInvariant, LostInvariant, PTL

------------------------------------------------------------------------------
(***************************************************************************)
(* The order of the candidates.  Between a candidate's gathering and its   *)
(* AddIceCandidate there are two queues, and the candidates in them are    *)
(* numbered without a gap: those on the way to the peer follow the last it *)
(* was given, those on the way to the server follow these.                 *)
(***************************************************************************)
IceSorted(q, c) ==
    \A i, j \in DOMAIN q[c] :
        i < j /\ q[c][i].ev = "ice" /\ q[c][j].ev = "ice" => q[c][i].call.n < q[c][j].call.n

\* A candidate in a queue has a number.
LEMMA IceNumber ==
    ASSUME NEW p \in ToServer \cup ToClient, p.ev = "ice"
    PROVE  p.call.n \in 0 .. MaxIce /\ p.call.n \in Nat
<1>1. p.call \in Call
  BY HeadCall
<1> QED BY <1>1, SignalingAssumption DEF Call

LEMMA IceMember ==
    ASSUME NEW q, NEW c, NEW n
    PROVE  n \in IceIn(q, c) <=> \E i \in DOMAIN q[c] : q[c][i].ev = "ice" /\ n = q[c][i].call.n
BY DEF IceIn

LEMMA NoIce ==
    ASSUME NEW q, NEW c, ~Queued(q, c, "ice")
    PROVE  IceIn(q, c) = {} /\ IceSorted(q, c)
<1>1. \A i \in DOMAIN q[c] : q[c][i].ev # "ice"
  BY DEF Queued
<1> QED BY <1>1 DEF IceIn, IceSorted

\* A queue that stays keeps its candidates.
LEMMA SameIce ==
    ASSUME NEW q, NEW r, NEW c, q[c] = r[c]
    PROVE  IceIn(q, c) = IceIn(r, c) /\ (IceSorted(q, c) <=> IceSorted(r, c))
BY DEF IceIn, IceSorted

LEMMA PutIce ==
    ASSUME NEW P, NEW q \in [Clients -> Seq(P)], NEW S, NEW p \in P, NEW d \in Clients
    PROVE  /\ IceIn(Put(q, S, p), d) =
                IF d \in S /\ p.ev = "ice" THEN IceIn(q, d) \cup {p.call.n} ELSE IceIn(q, d)
           /\ IceSorted(q, d) /\ (d \in S /\ p.ev = "ice" => \A n \in IceIn(q, d) : n < p.call.n)
                => IceSorted(Put(q, S, p), d)
<1> DEFINE r == Put(q, S, p)
<1>1. r[d] = IF d \in S THEN Append(q[d], p) ELSE q[d]
  BY DEF Put
<1>2. CASE d \notin S
  BY <1>1, <1>2, SameIce
<1>3. CASE d \in S
  <2> DEFINE k == Len(q[d]) + 1
  <2>1. /\ k \in DOMAIN r[d] /\ r[d][k] = p
        /\ \A i \in DOMAIN q[d] : i \in DOMAIN r[d] /\ r[d][i] = q[d][i] /\ i # k /\ i < k
        /\ \A i \in DOMAIN r[d] : i \in DOMAIN q[d] \/ i = k
        /\ DOMAIN r[d] \subseteq Nat /\ k \in Nat
    BY <1>1, <1>3
  <2> HIDE DEF r, k
  <2>2. ASSUME NEW n
        PROVE  n \in IceIn(r, d) <=> n \in IceIn(q, d) \/ (p.ev = "ice" /\ n = p.call.n)
    BY <2>1, IceMember
  <2>3. IceIn(r, d) = IF p.ev = "ice" THEN IceIn(q, d) \cup {p.call.n} ELSE IceIn(q, d)
    BY <2>2
  <2>4. ASSUME IceSorted(q, d), p.ev = "ice" => \A n \in IceIn(q, d) : n < p.call.n
        PROVE  IceSorted(r, d)
    <3> SUFFICES ASSUME NEW i \in DOMAIN r[d], NEW j \in DOMAIN r[d], i < j,
                        r[d][i].ev = "ice", r[d][j].ev = "ice"
                 PROVE  r[d][i].call.n < r[d][j].call.n
      BY DEF IceSorted
    <3>1. i \in DOMAIN q[d]
      BY <2>1
    <3>2. CASE j = k
      <4>1. r[d][i].call.n \in IceIn(q, d)
        BY <2>1, <3>1, IceMember
      <4> QED BY <2>1, <2>4, <3>2, <4>1
    <3>3. CASE j # k
      BY <2>1, <2>4, <3>1, <3>3 DEF IceSorted
    <3> QED BY <3>2, <3>3
  <2> QED BY <1>3, <2>3, <2>4 DEF r
<1> QED BY <1>2, <1>3

LEMMA PutOther ==
    ASSUME NEW P, NEW q \in [Clients -> Seq(P)], NEW S, NEW p \in P, NEW d \in Clients,
           NEW r, r = Put(q, S, p), d \notin S \/ p.ev # "ice"
    PROVE  IceIn(r, d) = IceIn(q, d) /\ (IceSorted(q, d) => IceSorted(r, d))
BY PutIce

LEMMA PutNext ==
    ASSUME NEW P, NEW q \in [Clients -> Seq(P)], NEW S, NEW p \in P, NEW d \in Clients,
           NEW r, r = Put(q, S, p), d \in S, p.ev = "ice"
    PROVE  /\ IceIn(r, d) = IceIn(q, d) \cup {p.call.n}
           /\ IceSorted(q, d) /\ (\A n \in IceIn(q, d) : n < p.call.n) => IceSorted(r, d)
BY PutIce

LEMMA TakeIce ==
    ASSUME NEW P, P \subseteq ToServer \cup ToClient, NEW q \in [Clients -> Seq(P)],
           NEW c \in Clients, q[c] # <<>>, NEW d \in Clients
    PROVE  /\ d = c /\ Head(q[c]).ev # "ice" => IceIn(Take(q, c), d) = IceIn(q, d)
           /\ d # c => IceIn(Take(q, c), d) = IceIn(q, d)
           /\ IceSorted(q, d) => IceSorted(Take(q, c), d)
<1> DEFINE t == Take(q, c)
<1>1. CASE d # c
  <2>1. t[d] = q[d]
    BY <1>1 DEF Take
  <2> QED BY <1>1, <2>1, SameIce
<1>2. CASE d = c
  <2>1. /\ \A i \in DOMAIN t[d] : i + 1 \in DOMAIN q[d] /\ t[d][i] = q[d][i + 1]
        /\ \A i \in DOMAIN q[d] : i = 1 \/ (i - 1 \in DOMAIN t[d] /\ t[d][i - 1] = q[d][i])
        /\ q[d][1] = Head(q[c]) /\ DOMAIN t[d] \subseteq Nat
    <3>1. t[d] = Tail(q[d])
      BY <1>2 DEF Take
    <3> QED BY <1>2, <3>1
  <2> HIDE DEF t
  <2>2. ASSUME Head(q[c]).ev # "ice" PROVE IceIn(t, d) = IceIn(q, d)
    <3>1. ASSUME NEW n PROVE n \in IceIn(t, d) <=> n \in IceIn(q, d)
      BY <2>1, <2>2, IceMember
    <3> QED BY <3>1
  <2>3. ASSUME IceSorted(q, d) PROVE IceSorted(t, d)
    <3> SUFFICES ASSUME NEW i \in DOMAIN t[d], NEW j \in DOMAIN t[d], i < j,
                        t[d][i].ev = "ice", t[d][j].ev = "ice"
                 PROVE  t[d][i].call.n < t[d][j].call.n
      BY DEF IceSorted
    <3>1. i + 1 < j + 1
      BY <2>1
    <3> QED BY <2>1, <2>3, <3>1 DEF IceSorted
  <2> QED BY <1>2, <2>2, <2>3 DEF t
<1> QED BY <1>1, <1>2

\* The candidate that heads a queue in order is the first in it.
LEMMA TakeFirstIce ==
    ASSUME NEW P, P \subseteq ToServer \cup ToClient, NEW q \in [Clients -> Seq(P)],
           NEW c \in Clients, HeadIs(q, c, "ice"), IceSorted(q, c)
    PROVE  LET n == Head(q[c]).call.n
           IN  /\ n \in IceIn(q, c) /\ n \in 0 .. MaxIce
               /\ \A k \in IceIn(q, c) : k \in Nat /\ n <= k
               /\ IceIn(Take(q, c), c) = IceIn(q, c) \ {n}
<1> DEFINE n == Head(q[c]).call.n
           t == Take(q, c)
<1>1. /\ q[c] # <<>> /\ 1 \in DOMAIN q[c] /\ q[c][1] = Head(q[c]) /\ q[c][1].ev = "ice"
      /\ Head(q[c]) \in P
  BY HeadQueued DEF HeadIs
<1>2. n \in IceIn(q, c)
  BY <1>1, IceMember
<1>3. n \in 0 .. MaxIce /\ n \in Nat
  BY <1>1, IceNumber
<1>4. ASSUME NEW i \in DOMAIN q[c], q[c][i].ev = "ice"
      PROVE  q[c][i].call.n \in Nat /\ (i # 1 => n < q[c][i].call.n)
  <2>1. q[c][i] \in P /\ i \in Nat /\ i >= 1
    OBVIOUS
  <2>2. q[c][i].call.n \in Nat
    BY <1>4, <2>1, IceNumber
  <2>3. i # 1 => 1 < i
    BY <2>1
  <2> QED BY <1>1, <1>4, <2>2, <2>3 DEF IceSorted
<1>5. \A k \in IceIn(q, c) : k \in Nat /\ n <= k
  <2> HIDE DEF n
  <2>1. ASSUME NEW k \in IceIn(q, c) PROVE k \in Nat /\ n <= k
    <3>1. PICK i \in DOMAIN q[c] : q[c][i].ev = "ice" /\ k = q[c][i].call.n
      BY IceMember
    <3>2. i = 1 => k = n
      BY <1>1, <3>1 DEF n
    <3> QED BY <1>3, <1>4, <3>1, <3>2
  <2> QED BY <2>1
<1>6. IceIn(t, c) = IceIn(q, c) \ {n}
  <2>1. /\ \A i \in DOMAIN t[c] : i + 1 \in DOMAIN q[c] /\ t[c][i] = q[c][i + 1] /\ i + 1 # 1
        /\ \A i \in DOMAIN q[c] : i = 1 \/ (i - 1 \in DOMAIN t[c] /\ t[c][i - 1] = q[c][i])
    <3>1. t[c] = Tail(q[c])
      BY DEF Take
    <3> QED BY <1>1, <3>1
  <2>2. ASSUME NEW k \in IceIn(t, c) PROVE k \in IceIn(q, c) /\ k # n
    <3>1. PICK i \in DOMAIN t[c] : t[c][i].ev = "ice" /\ k = t[c][i].call.n
      BY IceMember
    <3>2. n < k
      BY <1>4, <2>1, <3>1
    <3>3. k \in IceIn(q, c)
      BY <2>1, <3>1, IceMember
    <3> HIDE DEF n
    <3> QED BY <1>3, <1>5, <3>2, <3>3
  <2>3. ASSUME NEW k \in IceIn(q, c), k # n PROVE k \in IceIn(t, c)
    <3>1. PICK i \in DOMAIN q[c] : q[c][i].ev = "ice" /\ k = q[c][i].call.n
      BY IceMember
    <3>2. i # 1
      BY <1>1, <2>3, <3>1
    <3> QED BY <2>1, <3>1, <3>2, IceMember
  <2> QED BY <2>2, <2>3
<1> QED BY <1>2, <1>3, <1>5, <1>6

\* What follows m on the way from d to the server: all that d gathered since,
\* unless its connection has closed.
Behind(d, m) ==
    \E m2 \in m .. gathered[d] :
        IceIn(up, d) = (m + 1) .. m2 /\ (link[d] = "open" => m2 = gathered[d])

\* What o was given, what is on the way to it, and behind that what d still has
\* with the server.
OnWay(d, o) ==
    /\ IceSorted(down, o)
    /\ \E a \in 0 .. MaxIce, m \in 0 .. MaxIce :
        /\ added[o] = 1 .. a /\ a <= m
        /\ IceIn(down, o) = (a + 1) .. m
        /\ ServerWay(d, o) => Behind(d, m)

UpSorted == \A c \in Clients : IceSorted(up, c) /\ \A n \in IceIn(up, c) : n <= gathered[c]

NoIceYet ==
    Len(peers) < 2 =>
        \A c \in Clients :
            /\ gathered[c] = 0 /\ added[c] = {}
            /\ ~Queued(up, c, "ice") /\ ~Queued(down, c, "ice")

IcePeer == \A c \in Clients : Queued(down, c, "ice") => First(c) \/ Second(c)

DownRange ==
    \A d, o \in Clients :
        Others(d, o) /\ link[o] = "open" /\ ~failed[o] => OnWay(d, o)

\* The inductive invariant behind the order of the candidates.
CandInv == UpSorted /\ NoIceYet /\ IcePeer /\ DownRange

\* No candidate is gathered, relayed or taken in this step.
NoIceStep ==
    \A c \in Clients :
        /\ ~(ice(c) /\ UNCHANGED serverVars)
        /\ ~OnIceCandidate(c)
        /\ ~(Relay(c) /\ HeadIs(up, c, "ice") /\ UNCHANGED peerVars)

LEMMA AnnounceIce ==
    ASSUME TypeOK, NEW c \in Clients, Admit(c), NEW d \in Clients
    PROVE  /\ IceIn(down', d) = IceIn(down, d)
           /\ IceSorted(down, d) => IceSorted(down', d)
           /\ Queued(down', d, "ice") => Queued(down, d, "ice")
<1> DEFINE R == {e \in online : IsPeer(e)} \cup {c}
           n == Len(peers) + 1
<1>1. down \in [Clients -> Seq(ToClient)]
  BY DEF TypeOK, NetTypeOK
<1>2. down' = Announce(c, n, R)
  BY DEF Admit, Place
<1> HIDE DEF R, n
<1>3. ASSUME NEW q \in [Clients -> Seq(ToClient)], NEW S, NEW e \in RoleEvents \cup {"ready"}
      PROVE  /\ Put(q, S, Notice(e)) \in [Clients -> Seq(ToClient)]
             /\ IceIn(Put(q, S, Notice(e)), d) = IceIn(q, d)
             /\ IceSorted(q, d) => IceSorted(Put(q, S, Notice(e)), d)
             /\ Queued(Put(q, S, Notice(e)), d, "ice") => Queued(q, d, "ice")
  <2> DEFINE p == Notice(e)
  <2>1. p \in ToClient /\ p.ev # "ice"
    BY PacketType DEF Notice, RoleEvents
  <2> HIDE DEF p
  <2> QED BY <2>1, PutType, PutIce, PutQueued DEF p
<1>4. CASE n = 1
  BY <1>1, <1>2, <1>3, <1>4 DEF Announce, RoleEvents
<1>5. CASE n = 2
  <2> DEFINE q == Put(down, {c}, Notice("set-as-callee"))
  <2>1. down' = Put(q, R, Notice("ready"))
    BY <1>2, <1>5 DEF Announce
  <2>2. /\ q \in [Clients -> Seq(ToClient)] /\ IceIn(q, d) = IceIn(down, d)
        /\ IceSorted(down, d) => IceSorted(q, d)
        /\ Queued(q, d, "ice") => Queued(down, d, "ice")
    BY <1>1, <1>3 DEF RoleEvents
  <2> HIDE DEF q
  <2> QED BY <1>3, <2>1, <2>2
<1>6. CASE n # 1 /\ n # 2
  BY <1>2, <1>6 DEF Announce
<1> QED BY <1>4, <1>5, <1>6

LEMMA IceDownStill ==
    ASSUME TypeOK, Next, NoIceStep, NEW d \in Clients, link'[d] = "open"
    PROVE  IceIn(down', d) = IceIn(down, d) /\ (IceSorted(down, d) => IceSorted(down', d))
<1>1. down \in [Clients -> Seq(ToClient)] /\ link \in [Clients -> LinkState]
  BY DEF TypeOK, NetTypeOK
<1>2. CASE down' = down
  BY <1>2, SameIce
<1>3. CASE \E c \in Clients : /\ down' = [down EXCEPT ![c] = <<>>]
                              /\ link' = [link EXCEPT ![c] = "closed"]
  <2>1. down'[d] = down[d]
    BY <1>1, <1>3
  <2> QED BY <2>1, SameIce
<1>4. CASE \E c \in Clients : Listener(c)
  <2>1. PICK c \in Clients : Listener(c)
    BY <1>4
  <2>2. down' = Take(down, c) /\ down[c] # <<>>
    BY <2>1, ListenerTakes
  <2>3. Head(down[c]).ev # "ice"
    BY <2>1 DEF NoIceStep, Listener, set_as_caller, set_as_callee, ready, offer, answer, ack,
                SessionEnded, Receives, HeadIs
  <2> QED BY <1>1, <2>2, <2>3, TakeIce
<1>5. CASE \E c \in Clients : Admit(c)
  BY <1>5, AnnounceIce
<1>6. CASE \E S, p : p \in ToClient /\ down' = Put(down, S, p) /\ p.ev # "ice"
  BY <1>1, <1>6, PutIce
<1>7. CASE \E c \in Clients : /\ Relay(c) /\ UNCHANGED peerVars
                              /\ up[c] # <<>> /\ Head(up[c]) \in CallPacket \cap ToClient
                              /\ down' = Put(down, {Counter(c)} \cap online, Head(up[c]))
  <2>1. PICK c \in Clients : /\ Relay(c) /\ UNCHANGED peerVars
                             /\ up[c] # <<>> /\ Head(up[c]) \in CallPacket \cap ToClient
                             /\ down' = Put(down, {Counter(c)} \cap online, Head(up[c]))
    BY <1>7
  <2>2. Head(up[c]).ev # "ice"
    BY <2>1 DEF NoIceStep, HeadIs
  <2> QED BY <1>6, <2>1, <2>2
<1> QED BY <1>2, <1>3, <1>4, <1>5, <1>6, <1>7, DownStep

LEMMA IceUpStill ==
    ASSUME TypeOK, Next, NoIceStep, NEW d \in Clients, d \in online'
    PROVE  IceIn(up', d) = IceIn(up, d)
<1>1. up \in [Clients -> Seq(ToServer)]
  BY DEF TypeOK, NetTypeOK
<1>2. PICK c \in Clients :
              \/ up' = up
              \/ up' = [up EXCEPT ![c] = <<>>] /\ Disconnect(c)
              \/ up' = Take(up, c) /\ up[c] # <<>> /\ ServerStep(c)
              \/ \E p \in ToServer :
                    /\ up' = Put(up, {c}, p)
                    /\ \/ p.ev \in {"connect", "ack"}
                       \/ p.ev = "ice" /\ OnIceCandidate(c)
                       \/ p.ev \in Sdps /\ OnSuccess(c)
  BY UpStep
<1>3. CASE up' = up
  BY <1>3, SameIce
<1>4. CASE up' = [up EXCEPT ![c] = <<>>] /\ Disconnect(c)
  <2>1. d # c
    BY <1>4 DEF Disconnect
  <2>2. up'[d] = up[d]
    BY <1>1, <1>4, <2>1
  <2> QED BY <2>2, SameIce
<1>5. CASE up' = Take(up, c) /\ up[c] # <<>> /\ ServerStep(c)
  <2>1. Head(up[c]).ev # "ice"
    BY <1>5 DEF NoIceStep, ServerStep, Refuse, Admit, CallReturns, HeadIs
  <2> QED BY <1>1, <1>5, <2>1, TakeIce
<1>6. CASE \E p \in ToServer : up' = Put(up, {c}, p) /\ p.ev # "ice"
  BY <1>1, <1>6, PutIce
<1> QED BY <1>2, <1>3, <1>4, <1>5, <1>6 DEF NoIceStep, Sdps

LEMMA CountsStill ==
    ASSUME Next, NoIceStep
    PROVE  UNCHANGED <<added, gathered>>
<1>1. CASE \E c \in Clients : ServerStep(c)
  BY <1>1 DEF ServerStep, peerVars
<1>2. CASE \E c \in Clients : Listener(c)
  BY <1>2 DEF NoIceStep, Listener, set_as_caller, set_as_callee, ready, offer, answer, ack,
              SessionEnded, peerVars
<1>3. CASE \E c \in Clients : Observer(c)
  BY <1>3 DEF NoIceStep, Observer, OnSuccess
<1>4. CASE \E c \in Clients : Environment(c)
  BY <1>4 DEF Environment, on_connected, on_fail, on_close, OnFailure, peerVars
<1>5. CASE \E p \in calls : TimeOut(p)
  BY <1>5 DEF TimeOut, peerVars
<1> QED BY <1>1, <1>2, <1>3, <1>4, <1>5 DEF Next

LEMMA Gathers ==
    ASSUME TypeOK, NEW c \in Clients, OnIceCandidate(c)
    PROVE  /\ gathered[c] \in Nat /\ gathered[c] + 1 \in 0 .. MaxIce
           /\ gathered' = [gathered EXCEPT ![c] = gathered[c] + 1]
           /\ Emit(Ice(c, gathered[c] + 1)) \in ToServer
           /\ up' = IF link[c] = "open" THEN Put(up, {c}, Emit(Ice(c, gathered[c] + 1))) ELSE up
<1>1. gathered[c] \in Nat /\ gathered[c] + 1 \in 0 .. MaxIce
  BY SignalingAssumption DEF TypeOK, PeerTypeOK, OnIceCandidate
<1> QED BY <1>1, PacketType DEF OnIceCandidate, emit

LEMMA GatheredGrows ==
    ASSUME TypeOK, Next
    PROVE  \A d \in Clients : gathered[d] \in Nat /\ gathered'[d] \in Nat /\ gathered[d] <= gathered'[d]
<1>1. \A d \in Clients : gathered[d] \in Nat
  BY SignalingAssumption DEF TypeOK, PeerTypeOK
<1>2. CASE \E c \in Clients : OnIceCandidate(c)
  <2>1. PICK c \in Clients : OnIceCandidate(c)
    BY <1>2
  <2>2. /\ gathered \in [Clients -> 0 .. MaxIce] /\ gathered[c] \in Nat
        /\ gathered' = [gathered EXCEPT ![c] = gathered[c] + 1]
    BY <2>1, Gathers DEF TypeOK, PeerTypeOK
  <2>3. \A d \in Clients : gathered'[d] = IF d = c THEN gathered[c] + 1 ELSE gathered[d]
    BY <2>2
  <2> QED BY <1>1, <2>2, <2>3
<1>3. CASE \A c \in Clients : ~OnIceCandidate(c)
  <2>1. gathered' = gathered
    <3>1. CASE \E c \in Clients : ServerStep(c)
      BY <3>1 DEF ServerStep, peerVars
    <3>2. CASE \E c \in Clients : Listener(c)
      BY <3>2 DEF Listener, set_as_caller, set_as_callee, ready, offer, answer, ice, ack,
                  SessionEnded, peerVars
    <3>3. CASE \E c \in Clients : Observer(c)
      BY <1>3, <3>3 DEF Observer, OnSuccess
    <3>4. CASE \E c \in Clients : Environment(c)
      BY <3>4 DEF Environment, on_connected, on_fail, on_close, OnFailure, peerVars
    <3>5. CASE \E p \in calls : TimeOut(p)
      BY <3>5 DEF TimeOut, peerVars
    <3> QED BY <3>1, <3>2, <3>3, <3>4, <3>5 DEF Next
  <2> QED BY <1>1, <2>1
<1> QED BY <1>2, <1>3

LEMMA UpSortedKept ==
    ASSUME TypeOK, UpSorted, Next
    PROVE  UpSorted'
<1>1. up \in [Clients -> Seq(ToServer)]
  BY DEF TypeOK, NetTypeOK
<1>2. SUFFICES ASSUME NEW d \in Clients
               PROVE  IceSorted(up', d) /\ \A n \in IceIn(up', d) : n <= gathered'[d]
  BY DEF UpSorted
<1>3. /\ gathered[d] \in Nat /\ gathered'[d] \in Nat /\ gathered[d] <= gathered'[d]
      /\ IceSorted(up, d) /\ \A n \in IceIn(up, d) : n <= gathered[d]
  BY GatheredGrows DEF UpSorted
<1>4. \A n \in IceIn(up, d) : n \in Nat
  <2> SUFFICES ASSUME NEW n \in IceIn(up, d) PROVE n \in Nat
    OBVIOUS
  <2>1. PICK i \in DOMAIN up[d] : up[d][i].ev = "ice" /\ n = up[d][i].call.n
    BY IceMember
  <2>2. up[d][i] \in ToServer
    BY <1>1
  <2> QED BY <2>1, <2>2, IceNumber
<1>5. SUFFICES IceSorted(up', d) /\ \/ IceIn(up', d) \subseteq IceIn(up, d)
                                    \/ IceIn(up', d) = IceIn(up, d) \cup {gathered'[d]}
  BY <1>3, <1>4
<1>6. CASE \E c \in Clients : OnIceCandidate(c)
  <2>1. PICK c \in Clients : OnIceCandidate(c)
    BY <1>6
  <2> DEFINE p == Emit(Ice(c, gathered[c] + 1))
  <2>2. /\ p.ev = "ice" /\ p.call.n = gathered[c] + 1 /\ p \in ToServer /\ gathered[c] \in Nat
        /\ gathered'[c] = gathered[c] + 1
        /\ up' = IF link[c] = "open" THEN Put(up, {c}, p) ELSE up
    BY <2>1, Gathers DEF Emit, Ice, TypeOK, PeerTypeOK
  <2> HIDE DEF p
  <2>3. CASE link[c] # "open"
    BY <1>3, <2>2, <2>3, SameIce
  <2>4. CASE link[c] = "open"
    <3>1. up' = Put(up, {c}, p)
      BY <2>2, <2>4
    <3>2. CASE d = c
      BY <1>1, <1>3, <1>4, <2>2, <3>1, <3>2, PutIce
    <3>3. CASE d # c
      <4>1. IceIn(up', d) = IceIn(up, d) /\ (IceSorted(up, d) => IceSorted(up', d))
        <5>1. d \notin {c}
          BY <3>3
        <5> DEFINE S == {c}
        <5> HIDE DEF S
        <5>2. d \notin S /\ up' = Put(up, S, p)
          BY <3>1, <5>1 DEF S
        <5> QED BY <1>1, <2>2, <5>2, PutIce
      <4> QED BY <1>3, <4>1
    <3> QED BY <3>2, <3>3
  <2> QED BY <2>3, <2>4
<1>7. CASE \A c \in Clients : ~OnIceCandidate(c)
  <2>1. PICK c \in Clients :
              \/ up' = up
              \/ up' = [up EXCEPT ![c] = <<>>]
              \/ up' = Take(up, c) /\ up[c] # <<>>
              \/ \E p \in ToServer : up' = Put(up, {c}, p) /\ p.ev # "ice"
    BY <1>7, UpStep DEF Sdps
  <2>2. CASE up' = up
    BY <1>3, <2>2, SameIce
  <2>3. CASE up' = [up EXCEPT ![c] = <<>>]
    <3>1. CASE d = c
      <4>1. up'[d] = <<>>
        BY <1>1, <2>3, <3>1
      <4>2. ~Queued(up', d, "ice")
        BY <4>1 DEF Queued
      <4> QED BY <4>2, NoIce
    <3>2. CASE d # c
      <4>1. up'[d] = up[d]
        BY <1>1, <2>3, <3>2
      <4> QED BY <1>3, <4>1, SameIce
    <3> QED BY <3>1, <3>2
  <2>4. CASE up' = Take(up, c) /\ up[c] # <<>>
    <3>1. CASE d = c /\ Head(up[c]).ev = "ice"
      BY <1>1, <1>3, <2>4, <3>1, TakeFirstIce, TakeIce DEF HeadIs
    <3>2. CASE ~(d = c /\ Head(up[c]).ev = "ice")
      BY <1>1, <1>3, <2>4, <3>2, TakeIce
    <3> QED BY <3>1, <3>2
  <2>5. CASE \E p \in ToServer : up' = Put(up, {c}, p) /\ p.ev # "ice"
    BY <1>1, <1>3, <2>5, PutIce
  <2> QED BY <2>1, <2>2, <2>3, <2>4, <2>5
<1> QED BY <1>6, <1>7

LEMMA QueuedIce ==
    ASSUME TypeOK, RoleInv, Next, NEW d \in Clients, Queued(down', d, "ice")
    PROVE  \/ Queued(down, d, "ice")
           \/ \E c \in Clients : CounterIndexes(c) # {} /\ d = Counter(c) /\ Queued(up, c, "ice")
<1>1. down \in [Clients -> Seq(ToClient)] /\ up \in [Clients -> Seq(ToServer)]
  BY DEF TypeOK, NetTypeOK
<1>2. PICK c \in Clients :
              \/ down' = down
              \/ down' = [down EXCEPT ![c] = <<>>]
              \/ Listener(c)
              \/ Admit(c)
              \/ \E S, p : /\ p \in ToClient /\ down' = Put(down, S, p)
                           /\ p.ev \in {"disconnect", "ack"}
              \/ /\ CounterIndexes(c) # {}
                 /\ up[c] # <<>> /\ Head(up[c]) \in CallPacket \cap ToClient
                 /\ down' = Put(down, {Counter(c)} \cap online, Head(up[c]))
  BY DownStep
<1>3. CASE down' = down
  BY <1>3
<1>4. CASE down' = [down EXCEPT ![c] = <<>>]
  BY <1>1, <1>4, DropNoMore DEF NoMore
<1>5. CASE Listener(c)
  BY <1>1, <1>5, ListenerTakes, TakeQueued
<1>6. CASE Admit(c)
  BY <1>6, AnnounceIce
<1>7. CASE \E S, p : /\ p \in ToClient /\ down' = Put(down, S, p)
                     /\ p.ev \in {"disconnect", "ack"}
  BY <1>1, <1>7, PutQueued
<1>8. CASE /\ CounterIndexes(c) # {}
           /\ up[c] # <<>> /\ Head(up[c]) \in CallPacket \cap ToClient
           /\ down' = Put(down, {Counter(c)} \cap online, Head(up[c]))
  <2>1. Queued(down, d, "ice") \/ (d = Counter(c) /\ Head(up[c]).ev = "ice")
    BY <1>1, <1>8, PutQueued
  <2>2. Head(up[c]).ev = "ice" => Queued(up, c, "ice")
    BY <1>1, <1>8, HeadQueued DEF HeadIs
  <2> QED BY <1>8, <2>1, <2>2
<1> QED BY <1>2, <1>3, <1>4, <1>5, <1>6, <1>7, <1>8

LEMMA FewerPeers ==
    ASSUME TypeOK, Next, Len(peers') < 2
    PROVE  Len(peers) < 2
<1>1. peers \in Seq(Clients)
  BY DEF TypeOK, ServerTypeOK
<1>2. UNCHANGED peers \/ \E c \in Clients : peers' = Append(peers, c)
  BY PeersStep
<1> QED BY <1>1, <1>2

LEMMA NoIceYetKept ==
    ASSUME TypeOK, RoleInv, SdpInv, MadeFirst, NoIceYet, Next
    PROVE  NoIceYet'
<1>1. SUFFICES ASSUME Len(peers') < 2, NEW d \in Clients
               PROVE  /\ gathered'[d] = 0 /\ added'[d] = {}
                      /\ ~Queued(up', d, "ice") /\ ~Queued(down', d, "ice")
  BY DEF NoIceYet
<1>2. \A c \in Clients : /\ gathered[c] = 0 /\ added[c] = {} /\ made[c] = "none"
                         /\ ~Queued(up, c, "ice") /\ ~Queued(down, c, "ice")
  BY <1>1, FewerPeers DEF NoIceYet, SdpInv, NotBeforeTwo
<1>3. up \in [Clients -> Seq(ToServer)] /\ down \in [Clients -> Seq(ToClient)]
  BY DEF TypeOK, NetTypeOK
<1>4. \A c \in Clients : ~OnIceCandidate(c)
  BY <1>2 DEF MadeFirst, OnIceCandidate, MayGather
<1>5. NoIceStep
  <2>1. \A c \in Clients : ~HeadIs(up, c, "ice") /\ ~HeadIs(down, c, "ice")
    BY <1>2, <1>3, HeadQueued
  <2> QED BY <1>4, <2>1 DEF NoIceStep, ice, Receives
<1>6. gathered' = gathered /\ added' = added
  BY <1>5, CountsStill
<1>7. ~Queued(down', d, "ice")
  BY <1>2, QueuedIce
<1>8. ~Queued(up', d, "ice")
  <2>1. PICK c \in Clients :
              \/ up' = up
              \/ up' = [up EXCEPT ![c] = <<>>]
              \/ up' = Take(up, c) /\ up[c] # <<>>
              \/ \E p \in ToServer : up' = Put(up, {c}, p) /\ p.ev # "ice"
    BY <1>4, UpStep DEF Sdps
  <2>2. CASE up' = up
    BY <1>2, <2>2
  <2>3. CASE up' = [up EXCEPT ![c] = <<>>]
    BY <1>2, <1>3, <2>3, DropNoMore DEF NoMore
  <2>4. CASE up' = Take(up, c) /\ up[c] # <<>>
    BY <1>2, <1>3, <2>4, TakeQueued
  <2>5. CASE \E p \in ToServer : up' = Put(up, {c}, p) /\ p.ev # "ice"
    <3>1. PICK p \in ToServer : up' = Put(up, {c}, p) /\ p.ev # "ice"
      BY <2>5
    <3> DEFINE S == {c}
    <3>2. up' = Put(up, S, p)
      BY <3>1
    <3> HIDE DEF S
    <3>3. Queued(Put(up, S, p), d, "ice") => Queued(up, d, "ice")
      BY <1>3, <3>1, PutQueued
    <3> QED BY <1>2, <3>2, <3>3
  <2> QED BY <2>1, <2>2, <2>3, <2>4, <2>5
<1> QED BY <1>2, <1>6, <1>7, <1>8

LEMMA IcePeerKept ==
    ASSUME TypeOK, RoleInv, NoIceYet, IcePeer, Next
    PROVE  IcePeer'
<1>1. SUFFICES ASSUME NEW d \in Clients, Queued(down', d, "ice")
               PROVE  First(d)' \/ Second(d)'
  BY DEF IcePeer
<1>2. peers \in Seq(Clients) /\ Len(peers) <= 2 /\ ServerTypeOK
  BY DEF TypeOK, ServerTypeOK, RoleInv, PeersInOrder
<1>3. First(d) \/ Second(d)
  <2>1. CASE Queued(down, d, "ice")
    BY <2>1 DEF IcePeer
  <2>2. CASE \E c \in Clients : CounterIndexes(c) # {} /\ d = Counter(c)
    <3>1. IsPeer(d)
      BY <1>2, <2>2, CounterIsOther
    <3>2. PICK i \in DOMAIN peers : peers[i] = d
      BY <3>1 DEF IsPeer
    <3> DEFINE n == Len(peers)
    <3>3. n \in Nat /\ n <= 2 /\ i \in 1 .. n
      BY <1>2, <3>2
    <3> HIDE DEF n
    <3>4. (i = 1 /\ n >= 1) \/ (i = 2 /\ n >= 2)
      BY <3>3
    <3> QED BY <3>2, <3>4 DEF First, Second, n
  <2> QED BY <1>1, <2>1, <2>2, QueuedIce
<1>4. UNCHANGED peers
  <2>1. CASE Len(peers) >= 2
    BY <2>1, PeersStay
  <2>2. CASE Len(peers) < 2
    <3>1. \A c \in Clients : ~Queued(up, c, "ice") /\ ~Queued(down, c, "ice")
      BY <2>2 DEF NoIceYet
    <3> QED BY <1>1, <3>1, QueuedIce
  <2> QED BY <1>2, <2>1, <2>2
<1> QED BY <1>3, <1>4 DEF First, Second

\* A peer whose connection is open had it open before the step.
LEMMA PairBefore ==
    ASSUME TypeOK, RoleInv, Next, UNCHANGED peers, NEW d \in Clients, NEW o \in Clients,
           Others(d, o)', link'[o] = "open", ~failed'[o]
    PROVE  /\ Others(d, o) /\ link[o] = "open" /\ ~failed[o] /\ d # o
           /\ ServerWay(d, o)' => ServerWay(d, o)
           /\ link'[d] = "open" => link[d] = "open"
<1>1. Others(d, o) /\ Others(o, d)
  BY DEF Others, First, Second
<1>2. d # o
  BY <1>1, Places DEF Others
<1> QED BY <1>1, <1>2, WaysClose, FailedStays

LEMMA OnWayStays ==
    ASSUME NEW d \in Clients, NEW o \in Clients, OnWay(d, o),
           IceIn(down', o) = IceIn(down, o), IceSorted(down, o) => IceSorted(down', o),
           added'[o] = added[o], gathered'[d] = gathered[d],
           ServerWay(d, o)' => ServerWay(d, o) /\ IceIn(up', d) = IceIn(up, d),
           link'[d] = "open" => link[d] = "open"
    PROVE  OnWay(d, o)'
<1>1. PICK a \in 0 .. MaxIce, m \in 0 .. MaxIce :
        /\ added[o] = 1 .. a /\ a <= m
        /\ IceIn(down, o) = (a + 1) .. m
        /\ ServerWay(d, o) => Behind(d, m)
  BY DEF OnWay
<1>2. ASSUME ServerWay(d, o)' PROVE Behind(d, m)'
  <2>1. PICK m2 \in m .. gathered[d] :
          IceIn(up, d) = (m + 1) .. m2 /\ (link[d] = "open" => m2 = gathered[d])
    BY <1>1, <1>2 DEF Behind
  <2>2. /\ m2 \in m .. gathered'[d]
        /\ IceIn(up', d) = (m + 1) .. m2 /\ (link'[d] = "open" => m2 = gathered'[d])
    BY <1>2, <2>1
  <2> QED BY <2>2 DEF Behind
<1>3. /\ IceSorted(down', o) /\ added'[o] = 1 .. a
      /\ IceIn(down', o) = (a + 1) .. m
  BY <1>1 DEF OnWay
<1> QED BY <1>1, <1>2, <1>3 DEF OnWay

LEMMA StillRange ==
    ASSUME TypeOK, RoleInv, DownRange, Next, UNCHANGED peers, NoIceStep
    PROVE  DownRange'
<1>1. SUFFICES ASSUME NEW d \in Clients, NEW o \in Clients,
                      Others(d, o)', link'[o] = "open", ~failed'[o]
               PROVE  OnWay(d, o)'
  BY DEF DownRange
<1>2. OnWay(d, o)
  BY <1>1, PairBefore DEF DownRange
<1>3. ServerWay(d, o)' => d \in online'
  BY DEF ServerWay
<1>4. /\ IceIn(down', o) = IceIn(down, o) /\ (IceSorted(down, o) => IceSorted(down', o))
      /\ added'[o] = added[o] /\ gathered'[d] = gathered[d]
      /\ d \in online' => IceIn(up', d) = IceIn(up, d)
  BY <1>1, IceDownStill, IceUpStill, CountsStill
<1> QED BY <1>1, <1>2, <1>3, <1>4, PairBefore, OnWayStays

LEMMA GatherRange ==
    ASSUME TypeOK, RoleInv, UpSorted, DownRange, Next, NEW c \in Clients, OnIceCandidate(c),
           UNCHANGED peers
    PROVE  DownRange'
<1>1. SUFFICES ASSUME NEW d \in Clients, NEW o \in Clients,
                      Others(d, o)', link'[o] = "open", ~failed'[o]
               PROVE  OnWay(d, o)'
  BY DEF DownRange
<1> DEFINE p == Emit(Ice(c, gathered[c] + 1))
<1>2. /\ UNCHANGED <<link, down, online, added, peers>> /\ up \in [Clients -> Seq(ToServer)]
      /\ gathered[c] \in Nat /\ gathered' = [gathered EXCEPT ![c] = gathered[c] + 1]
      /\ gathered \in [Clients -> 0 .. MaxIce]
      /\ p.ev = "ice" /\ p.call.n = gathered[c] + 1 /\ p \in ToServer
      /\ up' = IF link[c] = "open" THEN Put(up, {c}, p) ELSE up
  BY Gathers DEF OnIceCandidate, serverVars, TypeOK, NetTypeOK, PeerTypeOK, Emit, Ice
<1> HIDE DEF p
<1>3. OnWay(d, o)
  BY <1>1, <1>2, PairBefore DEF DownRange
<1>4. IceIn(down', o) = IceIn(down, o) /\ (IceSorted(down, o) => IceSorted(down', o))
  BY <1>2, SameIce
<1>5. CASE d # c
  <2> DEFINE S == {c}
  <2>1. d \notin S /\ gathered'[d] = gathered[d]
    BY <1>2, <1>5
  <2>2. up' = up \/ up' = Put(up, S, p)
    BY <1>2
  <2> HIDE DEF S
  <2>3. IceIn(up', d) = IceIn(up, d)
    BY <1>2, <2>1, <2>2, PutIce, SameIce
  <2> QED BY <1>1, <1>2, <1>3, <1>4, <2>1, <2>3, PairBefore, OnWayStays
<1>6. CASE d = c
  <2>1. PICK a \in 0 .. MaxIce, m \in 0 .. MaxIce :
          /\ added[o] = 1 .. a /\ a <= m
          /\ IceIn(down, o) = (a + 1) .. m
          /\ ServerWay(d, o) => Behind(d, m)
    BY <1>3 DEF OnWay
  <2>2. ASSUME ServerWay(d, o)' PROVE Behind(d, m)'
    <3>1. ServerWay(d, o)
      BY <1>1, <1>2, <2>2, PairBefore
    <3>2. PICK m2 \in m .. gathered[d] :
            IceIn(up, d) = (m + 1) .. m2 /\ (link[d] = "open" => m2 = gathered[d])
      BY <2>1, <3>1 DEF Behind
    <3>3. gathered'[d] = gathered[d] + 1 /\ gathered[d] \in Nat /\ link' = link
      BY <1>2, <1>6
    <3>4. CASE link[d] = "open"
      <4>1. up' = Put(up, {c}, p)
        BY <1>2, <1>6, <3>4
      <4>2. IceIn(up', d) = IceIn(up, d) \cup {gathered[d] + 1}
        <5> DEFINE S == {c}
        <5>1. d \in S /\ up' = Put(up, S, p)
          BY <1>6, <4>1
        <5> HIDE DEF S
        <5>2. IceIn(up', d) = IceIn(up, d) \cup {p.call.n}
          <6>1. up \in [Clients -> Seq(ToServer)] /\ p \in ToServer /\ p.ev = "ice"
            BY <1>2
          <6> QED BY <5>1, <6>1, PutNext
        <5> QED BY <1>2, <1>6, <5>2
      <4>3. /\ gathered[d] + 1 \in m .. gathered'[d]
            /\ IceIn(up', d) = (m + 1) .. (gathered[d] + 1)
        BY <2>1, <3>2, <3>3, <3>4, <4>2
      <4> QED BY <3>3, <4>3 DEF Behind
    <3>5. CASE link[d] # "open"
      <4>1. IceIn(up', d) = IceIn(up, d)
        BY <1>2, <1>6, <3>5, SameIce
      <4>2. m2 \in m .. gathered'[d] /\ IceIn(up', d) = (m + 1) .. m2 /\ link'[d] # "open"
        BY <3>2, <3>3, <3>5, <4>1
      <4> QED BY <4>2 DEF Behind
    <3> QED BY <3>4, <3>5
  <2>3. /\ IceSorted(down', o) /\ added'[o] = 1 .. a
        /\ IceIn(down', o) = (a + 1) .. m
    BY <1>2, <1>3, <1>4, <2>1 DEF OnWay
  <2> QED BY <2>1, <2>2, <2>3 DEF OnWay
<1> QED BY <1>5, <1>6

LEMMA TakenRange ==
    ASSUME TypeOK, RoleInv, DownRange, Next, NEW c \in Clients, ice(c), UNCHANGED serverVars
    PROVE  DownRange'
<1>1. SUFFICES ASSUME NEW d \in Clients, NEW o \in Clients,
                      Others(d, o)', link'[o] = "open", ~failed'[o]
               PROVE  OnWay(d, o)'
  BY DEF DownRange
<1>2. /\ UNCHANGED <<link, online, peers, gathered>> /\ up \in [Clients -> Seq(ToServer)]
      /\ down \in [Clients -> Seq(ToClient)] /\ HeadIs(down, c, "ice") /\ down[c] # <<>>
      /\ down' = Take(down, c) /\ failed \in [Clients -> BOOLEAN]
      /\ added \in [Clients -> SUBSET (0 .. MaxIce)]
      /\ \/ added' = [added EXCEPT ![c] = @ \cup {Head(down[c]).call.n}]
         \/ failed' = [failed EXCEPT ![c] = TRUE] /\ added' = added
  BY DEF ice, add_ice_candidate, Receives, HeadIs, serverVars, TypeOK, NetTypeOK, PeerTypeOK
<1>3. Listener(c)
  BY DEF Listener
<1>4. IceIn(up', d) = IceIn(up, d)
  <2>1. CASE up' = up
    BY <2>1, SameIce
  <2>2. CASE \E p \in ToServer : up' = Put(up, {c}, p) /\ p.ev = "ack"
    <3>1. PICK p \in ToServer : up' = Put(up, {c}, p) /\ p.ev = "ack"
      BY <2>2
    <3> DEFINE S == {c}
    <3>2. up' = Put(up, S, p)
      BY <3>1
    <3> HIDE DEF S
    <3>3. up \in [Clients -> Seq(ToServer)]
      BY <1>2
    <3> QED BY <3>1, <3>2, <3>3, PutOther
  <2> QED BY <1>3, <2>1, <2>2, ListenerUp
<1>5. OnWay(d, o) /\ (ServerWay(d, o)' => ServerWay(d, o))
  BY <1>1, <1>2, PairBefore DEF DownRange
<1>6. CASE o # c
  <2>1. IceIn(down', o) = IceIn(down, o) /\ (IceSorted(down, o) => IceSorted(down', o))
    BY <1>2, <1>6, TakeIce
  <2>2. added'[o] = added[o] /\ gathered'[d] = gathered[d]
    BY <1>2, <1>6
  <2> QED BY <1>2, <1>4, <1>5, <2>1, <2>2, OnWayStays
<1>7. CASE o = c
  <2>1. PICK a \in 0 .. MaxIce, m \in 0 .. MaxIce :
          /\ added[o] = 1 .. a /\ a <= m
          /\ IceIn(down, o) = (a + 1) .. m
          /\ ServerWay(d, o) => Behind(d, m)
    BY <1>5 DEF OnWay
  <2> DEFINE n == Head(down[c]).call.n
  <2>2. added'[o] = added[o] \cup {n}
    BY <1>1, <1>2, <1>7
  <2>3. /\ IceSorted(down, c) /\ n \in IceIn(down, c) /\ n \in 0 .. MaxIce
        /\ \A k \in IceIn(down, c) : k \in Nat /\ n <= k
        /\ IceIn(down', c) = IceIn(down, c) \ {n}
    BY <1>2, <1>5, <1>7, TakeFirstIce DEF OnWay
  <2> HIDE DEF n
  <2>4. n = a + 1 /\ a \in Nat /\ m \in Nat /\ n <= m
    BY <1>7, <2>1, <2>3
  <2>5. /\ a + 1 \in 0 .. MaxIce /\ added'[o] = 1 .. (a + 1) /\ a + 1 <= m
        /\ IceIn(down', o) = (a + 1 + 1) .. m
    BY <1>7, <2>1, <2>2, <2>3, <2>4, SignalingAssumption
  <2>6. IceSorted(down', o)
    BY <1>2, <1>7, <2>3, TakeIce
  <2>7. ServerWay(d, o)' => Behind(d, m)'
    <3>1. Behind(d, m) => Behind(d, m)'
      BY <1>2, <1>4 DEF Behind
    <3> QED BY <1>5, <2>1, <3>1
  <2> QED BY <2>1, <2>5, <2>6, <2>7 DEF OnWay
<1> QED BY <1>6, <1>7

LEMMA RelayRange ==
    ASSUME TypeOK, RoleInv, DownRange, UpSorted, Next, NEW c \in Clients, Relay(c),
           HeadIs(up, c, "ice"), UNCHANGED peerVars
    PROVE  DownRange'
<1>1. SUFFICES ASSUME NEW d \in Clients, NEW o \in Clients,
                      Others(d, o)', link'[o] = "open", ~failed'[o]
               PROVE  OnWay(d, o)'
  BY DEF DownRange
<1> DEFINE p == Head(up[c])
           n == p.call.n
           S == {Counter(c)} \cap online
<1>2. /\ UNCHANGED <<link, online, peers, gathered, added>> /\ up \in [Clients -> Seq(ToServer)]
      /\ down \in [Clients -> Seq(ToClient)] /\ up[c] # <<>> /\ c \in online
      /\ up' = Take(up, c) /\ p.ev = "ice"
  BY DEF Relay, HeadIs, peerVars, TypeOK, NetTypeOK, PeerTypeOK
<1>3. p \in ToClient
  <2>1. p \in ToServer
    BY <1>2, TakeType
  <2> QED BY <1>2, <2>1, HeadCall, PacketType
<1>4. Others(d, o) /\ OnWay(d, o) /\ d # o /\ (ServerWay(d, o)' => ServerWay(d, o))
  BY <1>1, <1>2, PairBefore DEF DownRange
<1>5. c = d \/ c = o
  <2>1. IsPeer(c)
    BY <1>2, CallerIsPeer
  <2>2. PICK i \in DOMAIN peers : peers[i] = c
    BY <2>1 DEF IsPeer
  <2> DEFINE k == Len(peers)
  <2>3. k \in Nat /\ k <= 2 /\ i \in 1 .. k
    BY <2>2 DEF TypeOK, ServerTypeOK, RoleInv, PeersInOrder
  <2> HIDE DEF k
  <2>4. i = 1 \/ i = 2
    BY <2>3
  <2> QED BY <1>4, <2>2, <2>4 DEF Others, First, Second
<1>6. CounterIndexes(c) # {} /\ (c = d => Counter(c) = o) /\ (c = o => Counter(c) = d)
  <2>1. CounterIndexes(c) # {}
    <3>1. \E e \in {d, o} : e # c /\ IsPeer(e)
      <4>1. IsPeer(d) /\ IsPeer(o)
        <5>1. ASSUME NEW e \in Clients, First(e) \/ Second(e) PROVE IsPeer(e)
          BY <5>1 DEF First, Second, IsPeer, TypeOK, ServerTypeOK
        <5> QED BY <1>4, <5>1 DEF Others
      <4> QED BY <1>4, <4>1
    <3> QED BY <3>1 DEF CounterIndexes, IsPeer
  <2> QED BY <1>4, <2>1, CounterOfPeer DEF Others
<1>7. down' = Put(down, S, p)
  <2>1. p = Emit(p.call)
    BY <1>2, <1>3, HeadCall
  <2> QED BY <1>6, <2>1 DEF Relay
<1>8. CASE c = o
  <2>1. o \notin S
    BY <1>4, <1>6, <1>8
  <2> HIDE DEF S, p
  <2>2. IceIn(down', o) = IceIn(down, o) /\ (IceSorted(down, o) => IceSorted(down', o))
    <3>1. down \in [Clients -> Seq(ToClient)]
      BY <1>2
    <3> QED BY <1>3, <1>7, <2>1, <3>1, PutOther
  <2>3. IceIn(up', d) = IceIn(up, d)
    BY <1>2, <1>4, <1>8, TakeIce
  <2> QED BY <1>2, <1>4, <2>2, <2>3, OnWayStays
<1>9. CASE c = d /\ o \notin online
  <2>1. o \notin S /\ ~ServerWay(d, o)'
    BY <1>2, <1>9 DEF ServerWay
  <2> HIDE DEF S, p
  <2>2. IceIn(down', o) = IceIn(down, o) /\ (IceSorted(down, o) => IceSorted(down', o))
    <3>1. down \in [Clients -> Seq(ToClient)]
      BY <1>2
    <3> QED BY <1>3, <1>7, <2>1, <3>1, PutOther
  <2> QED BY <1>2, <1>4, <2>1, <2>2, OnWayStays
<1>10. CASE c = d /\ o \in online
  <2>1. o \in S
    BY <1>6, <1>10
  <2>2. ServerWay(d, o)
    BY <1>1, <1>2, <1>4, <1>10 DEF ServerWay
  <2>3. PICK a \in 0 .. MaxIce, m \in 0 .. MaxIce :
          added[o] = 1 .. a /\ a <= m /\ IceIn(down, o) = (a + 1) .. m /\ Behind(d, m)
    BY <1>4, <2>2 DEF OnWay
  <2>4. PICK m2 \in m .. gathered[d] :
          IceIn(up, d) = (m + 1) .. m2 /\ (link[d] = "open" => m2 = gathered[d])
    BY <2>3 DEF Behind
  <2>5. a \in Nat /\ m \in Nat /\ m <= MaxIce /\ MaxIce \in Nat /\ a <= m
    BY <1>2, <2>3, SignalingAssumption
  <2>6. gathered[d] \in Nat
    BY SignalingAssumption DEF TypeOK, PeerTypeOK
  <2>7. /\ n \in IceIn(up, d) /\ n \in 0 .. MaxIce
        /\ \A k \in IceIn(up, d) : k \in Nat /\ n <= k
        /\ IceIn(up', d) = IceIn(up, d) \ {n}
    BY <1>2, <1>10, TakeFirstIce DEF UpSorted
  <2> HIDE DEF S, p, n
  <2>8. n = m + 1 /\ m2 \in Nat /\ n <= m2
    BY <2>4, <2>5, <2>6, <2>7
  <2>9. IceIn(down', o) = IceIn(down, o) \cup {n} /\ IceSorted(down', o)
    <3>1. \A k \in IceIn(down, o) : k < n
      BY <2>3, <2>5, <2>8
    <3>2. IceSorted(down, o)
      BY <1>4 DEF OnWay
    <3>3. p.call.n = n
      BY DEF n
    <3>4. down \in [Clients -> Seq(ToClient)] /\ p.ev = "ice"
      BY <1>2
    <3> QED BY <1>3, <1>7, <2>1, <3>1, <3>2, <3>3, <3>4, PutNext
  <2>10. /\ m + 1 \in 0 .. MaxIce /\ added'[o] = 1 .. a /\ a <= m + 1
         /\ IceIn(down', o) = (a + 1) .. (m + 1)
    BY <1>2, <2>3, <2>5, <2>7, <2>8, <2>9
  <2>11. /\ m2 \in (m + 1) .. gathered'[d] /\ IceIn(up', d) = (m + 1 + 1) .. m2
         /\ link'[d] = "open" => m2 = gathered'[d]
    BY <1>2, <2>4, <2>5, <2>6, <2>7, <2>8
  <2>12. Behind(d, m + 1)'
    BY <2>11 DEF Behind
  <2> QED BY <2>3, <2>9, <2>10, <2>12 DEF OnWay
<1> QED BY <1>5, <1>8, <1>9, <1>10

\* The second peer comes before any candidate.
LEMMA AdmitRange ==
    ASSUME TypeOK, RoleInv, NoIceYet, NEW c \in Clients, Admit(c), UNCHANGED peerVars
    PROVE  DownRange'
<1>1. SUFFICES ASSUME NEW d \in Clients, NEW o \in Clients
               PROVE  OnWay(d, o)'
  BY DEF DownRange
<1>2. Len(peers) < 2
  <2> DEFINE n == Len(peers)
  <2>1. n \in Nat /\ n <= 2 /\ n # 2
    BY DEF Admit, RoleInv, PeersInOrder, TypeOK, ServerTypeOK
  <2> HIDE DEF n
  <2>2. n < 2
    BY <2>1
  <2> QED BY <2>2 DEF n
<1>3. \A e \in Clients : /\ gathered[e] = 0 /\ added[e] = {}
                         /\ ~Queued(up, e, "ice") /\ ~Queued(down, e, "ice")
  BY <1>2 DEF NoIceYet
<1>4. gathered'[d] = 0 /\ added'[o] = {}
  BY <1>3 DEF peerVars
<1>5. IceIn(down', o) = {} /\ IceSorted(down', o)
  BY <1>3, AnnounceIce, NoIce
<1>6. IceIn(up', d) = {}
  <2>1. up \in [Clients -> Seq(ToServer)] /\ up[c] # <<>> /\ up' = Take(up, c)
    BY DEF Admit, HeadIs, TypeOK, NetTypeOK
  <2>2. ~Queued(up', d, "ice")
    BY <1>3, <2>1, TakeQueued
  <2> QED BY <2>2, NoIce
<1>7. 0 \in 0 .. MaxIce /\ (0 + 1) .. 0 = {} /\ 1 .. 0 = {}
  BY SignalingAssumption
<1>8. Behind(d, 0)'
  BY <1>4, <1>6 DEF Behind
<1> QED BY <1>4, <1>5, <1>7, <1>8 DEF OnWay

LEMMA DownRangeKept ==
    ASSUME TypeOK, RoleInv, CandInv, Next
    PROVE  DownRange'
<1>1. CASE UNCHANGED peers
  <2>1. CASE \E c \in Clients : ice(c) /\ UNCHANGED serverVars
    BY <2>1, TakenRange DEF CandInv
  <2>2. CASE \E c \in Clients : OnIceCandidate(c)
    BY <1>1, <2>2, GatherRange DEF CandInv
  <2>3. CASE \E c \in Clients : Relay(c) /\ HeadIs(up, c, "ice") /\ UNCHANGED peerVars
    BY <2>3, RelayRange DEF CandInv
  <2>4. CASE NoIceStep
    BY <1>1, <2>4, StillRange DEF CandInv
  <2> QED BY <2>1, <2>2, <2>3, <2>4 DEF NoIceStep
<1>2. CASE \E c \in Clients : Admit(c) /\ UNCHANGED peerVars
  BY <1>2, AdmitRange DEF CandInv
<1> QED BY <1>1, <1>2, PeersStep

\* The candidates of each peer reach the other in the order they were gathered and
\* none is missing among them, in every reachable state.
THEOREM CandidatesInvariant == Spec => []CandInv
<1>1. Init => CandInv
  <2> SUFFICES ASSUME Init PROVE CandInv
    OBVIOUS
  <2>1. peers = <<>> /\ \A c \in Clients : /\ gathered[c] = 0 /\ added[c] = {}
                                           /\ up[c] = <<>> /\ down[c] = <<>>
    BY DEF Init, NetInit, ServerInit, PeerInit
  <2>2. \A c \in Clients : ~Queued(up, c, "ice") /\ ~Queued(down, c, "ice")
    <3>1. \A ev : \A q, c : q[c] = <<>> => ~Queued(q, c, ev)
      BY DEF Queued
    <3> QED BY <2>1, <3>1
  <2>3. NoIceYet /\ IcePeer
    BY <2>1, <2>2 DEF NoIceYet, IcePeer
  <2>4. UpSorted
    BY <2>2, NoIce DEF UpSorted
  <2>5. DownRange
    BY <2>1 DEF DownRange, Others, First, Second
  <2> QED BY <2>3, <2>4, <2>5 DEF CandInv
<1>2. TypeOK /\ RoleInv /\ SdpInv /\ IceInv /\ CandInv /\ [Next]_vars => CandInv'
  <2> SUFFICES ASSUME TypeOK, RoleInv, SdpInv, IceInv, CandInv, [Next]_vars PROVE CandInv'
    OBVIOUS
  <2>1. CASE Next
    <3>1. UpSorted' /\ NoIceYet' /\ IcePeer' /\ DownRange'
      BY <2>1, UpSortedKept, NoIceYetKept, IcePeerKept, DownRangeKept DEF CandInv, IceInv
    <3> QED BY <3>1 DEF CandInv
  <2>2. CASE UNCHANGED vars
    <3>1. UNCHANGED <<link, up, down, online, peers, gathered, added, failed>>
      BY <2>2 DEF vars, netVars, serverVars, peerVars
    <3>2. UpSorted' /\ NoIceYet' /\ IcePeer'
      BY <3>1 DEF CandInv, UpSorted, NoIceYet, IcePeer, IceSorted, IceIn, Queued, First, Second
    <3>3. ASSUME NEW d \in Clients, NEW o \in Clients, OnWay(d, o) PROVE OnWay(d, o)'
      <4>1. /\ IceIn(down', o) = IceIn(down, o) /\ IceIn(up', d) = IceIn(up, d)
            /\ IceSorted(down, o) => IceSorted(down', o)
        BY <3>1, SameIce
      <4>2. ServerWay(d, o)' => ServerWay(d, o)
        BY <3>1 DEF ServerWay, Others, First, Second
      <4>3. /\ added'[o] = added[o] /\ gathered'[d] = gathered[d]
            /\ link'[d] = "open" => link[d] = "open"
        BY <3>1
      <4> QED BY <3>3, <4>1, <4>2, <4>3, OnWayStays
    <3>4. DownRange'
      BY <3>1, <3>3 DEF CandInv, DownRange, Others, First, Second
    <3> QED BY <3>2, <3>4 DEF CandInv
  <2> QED BY <2>1, <2>2
<1> QED BY <1>1, <1>2, TypeCorrect, RoleInvariant, SdpInvariant, IceInvariant, PTL DEF Spec

\* A client is given the candidates of its peer in the order they were gathered,
\* each once and after the description, by green threads that do not wait for one
\* another (on_ice): their queues keep the order.
THEOREM CandidatesOrdered == Spec => []CandidatesInOrder
<1>1. TypeOK /\ RoleInv /\ IceInv /\ CandInv => CandidatesInOrder
  <2> SUFFICES ASSUME TypeOK, RoleInv, IceInv, CandInv, NEW c \in Clients,
                      link[c] = "open", HeadIs(down, c, "ice"), ~failed[c]
               PROVE  remote[c] # "none" /\ added[c] = 1 .. (Head(down[c]).call.n - 1)
    BY DEF CandidatesInOrder
  <2>1. remote[c] # "none"
    BY IceMet
  <2>2. /\ down \in [Clients -> Seq(ToClient)] /\ peers \in Seq(Clients)
    BY DEF TypeOK, NetTypeOK, ServerTypeOK, PeerTypeOK
  <2>3. Queued(down, c, "ice")
    BY <2>2, HeadQueued
  <2>4. First(c) \/ Second(c)
    BY <2>3 DEF CandInv, IcePeer
  <2>5. Len(peers) >= 2
    <3>1. ~(Len(peers) < 2)
      BY <2>3 DEF CandInv, NoIceYet
    <3> QED BY <2>2, <3>1
  <2>6. PICK d \in Clients : Others(d, c)
    BY <2>4, <2>5, Places DEF Others, First, Second
  <2>7. OnWay(d, c)
    BY <2>6 DEF CandInv, DownRange
  <2>8. PICK a \in 0 .. MaxIce, m \in 0 .. MaxIce :
          added[c] = 1 .. a /\ IceIn(down, c) = (a + 1) .. m
    BY <2>7 DEF OnWay
  <2> DEFINE n == Head(down[c]).call.n
  <2>9. /\ n \in IceIn(down, c) /\ n \in 0 .. MaxIce
        /\ \A k \in IceIn(down, c) : k \in Nat /\ n <= k
    BY <2>2, <2>7, TakeFirstIce DEF OnWay
  <2> HIDE DEF n
  <2>10. a \in Nat /\ n = a + 1
    <3>1. a \in Nat /\ m \in Nat /\ n \in (a + 1) .. m
      BY <2>8, <2>9, SignalingAssumption
    <3>2. a + 1 \in (a + 1) .. m
      BY <3>1
    <3>3. n <= a + 1
      BY <2>8, <2>9, <3>2
    <3> QED BY <3>1, <3>3
  <2>11. added[c] = 1 .. (n - 1)
    BY <2>8, <2>10
  <2> QED BY <2>1, <2>11 DEF n
<1> QED BY <1>1, TypeCorrect, RoleInvariant, IceInvariant, CandidatesInvariant, PTL

\* While both peers stay connected, the candidates one has gathered and the other
\* was not yet given are in the two queues between them: none is lost.
THEOREM NothingOnTheWayLost == Spec => []NoCandidateLost
<1>1. TypeOK /\ RoleInv /\ CandInv => NoCandidateLost
  <2> SUFFICES ASSUME TypeOK, RoleInv, CandInv, NEW d \in Clients, NEW o \in Clients,
                      Together, Others(d, o), ~failed[o]
               PROVE  IceIn(up, d) \cup IceIn(down, o) = (1 .. gathered[d]) \ added[o]
    BY DEF NoCandidateLost
  <2>1. {d, o} \subseteq online /\ link[d] = "open" /\ link[o] = "open"
    BY DEF Together, Others, First, Second
  <2>2. PICK a \in 0 .. MaxIce, m \in 0 .. MaxIce :
          added[o] = 1 .. a /\ a <= m /\ IceIn(down, o) = (a + 1) .. m /\ Behind(d, m)
    BY <2>1 DEF CandInv, DownRange, OnWay, ServerWay
  <2>3. IceIn(up, d) = (m + 1) .. gathered[d] /\ m <= gathered[d]
    <3>1. gathered[d] \in Nat
      BY SignalingAssumption DEF TypeOK, PeerTypeOK
    <3>2. PICK m2 \in m .. gathered[d] : IceIn(up, d) = (m + 1) .. m2 /\ m2 = gathered[d]
      BY <2>1, <2>2 DEF Behind
    <3>3. m <= m2
      BY <2>2, <3>1, <3>2 DEF TypeOK, PeerTypeOK
    <3> QED BY <3>2, <3>3
  <2>4. a \in Nat /\ gathered[d] \in Nat /\ m \in Nat /\ a <= m
    BY <2>2, SignalingAssumption DEF TypeOK, PeerTypeOK
  <2> QED BY <2>2, <2>3, <2>4
<1> QED BY <1>1, TypeCorrect, RoleInvariant, CandidatesInvariant, PTL

=============================================================================
