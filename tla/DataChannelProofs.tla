-------------------------- MODULE DataChannelProofs --------------------------
(***************************************************************************)
(* The wait of send_message_sync never misses its notify.                  *)
(***************************************************************************)
EXTENDS DataChannel, TLAPS

LEMMA InitInv == Init => TypeOK /\ WaitInv
BY DataChannelAssumption
DEF Init, TypeOK, WaitInv, WaitsForSomething, Peer

\* Steps that leave the messages under way alone.
LEMMA QuietStep ==
    ASSUME TypeOK, WaitInv, NEW c \in Peer,
           connect(c) \/ connect_wait(c) \/ wait_for_data_channel_connection(c) \/ Loop(c)
             \/ on_connected(c) \/ on_fail(c) \/ on_close(c) \/ SetType(c)
             \/ SpuriousWakeup(c)
    PROVE  TypeOK' /\ WaitInv'
<1> USE DEF TypeOK, WaitInv, WaitsForSomething, Peer, Running, UnderWay,
            channelVars, countVars, linkVars
<1>1. CASE connect(c)
  BY <1>1 DEF connect
<1>2. CASE connect_wait(c)
  BY <1>2 DEF connect_wait
<1>3. CASE wait_for_data_channel_connection(c)
  BY <1>3 DEF wait_for_data_channel_connection
<1>4. CASE Loop(c)
  BY <1>4 DEF Loop
<1>5. CASE on_connected(c)
  BY <1>5 DEF on_connected, ConnectOutcome, NotifyMsg
<1>6. CASE on_fail(c)
  BY <1>6 DEF on_fail, ConnectOutcome, NotifyMsg
<1>7. CASE on_close(c)
  BY <1>7 DEF on_close
<1>8. CASE SetType(c)
  BY <1>8 DEF SetType
<1>9. CASE SpuriousWakeup(c)
  BY <1>9 DEF SpuriousWakeup
<1> QED BY <1>1, <1>2, <1>3, <1>4, <1>5, <1>6, <1>7, <1>8, <1>9

\* Steps of the peer connection and its channels that deliver nothing.
LEMMA ConnectionStep ==
    ASSUME TypeOK, WaitInv, NEW c \in Peer, NEW k \in Peer,
           Negotiated \/ PeerLost \/ Opens(c, k) \/ Closes(c, k) \/ OnDataChannel(c) \/ Stop(c)
    PROVE  TypeOK' /\ WaitInv'
<1> USE DEF TypeOK, WaitInv, WaitsForSomething, Peer, Running, UnderWay,
            channelVars, countVars, linkVars
<1>1. CASE Negotiated
  BY <1>1 DEF Negotiated
<1>2. CASE PeerLost
  BY <1>2 DEF PeerLost
<1>3. CASE Opens(c, k)
  BY <1>3 DEF Opens
<1>4. CASE Closes(c, k)
  BY <1>4 DEF Closes, Other
<1>5. CASE OnDataChannel(c)
  BY <1>5 DEF OnDataChannel, NotifyChannel, Other
<1>6. CASE Stop(c)
  BY <1>6 DEF Stop
<1> QED BY <1>1, <1>2, <1>3, <1>4, <1>5, <1>6

\* Send, an action of a message's receiver or of main: it is refused, or puts the
\* message on its way, or there is nobody there.
LEMMA SendStep ==
    ASSUME TypeOK, WaitInv, NEW c \in Peer, NEW q \in [Peer -> [Peer -> Nat]], Send(c, q)
    PROVE  /\ inbox' \in [Peer -> [Peer -> Nat]] /\ refused' \in [Peer -> BOOLEAN]
           /\ \A d \in Peer \ {c} : refused'[d] = refused[d]
           /\ \/ refused'[c]
              \/ transport = "lost" \/ ~Running(Other(c))
              \/ \E k \in Peer : inbox'[Other(c)][k] > 0
<1> DEFINE k == data_channel_[c]
<1>1. k \in Peer /\ Other(c) \in Peer
  BY DEF TypeOK, Other, Peer
<1>2. refused' = [refused EXCEPT ![c] = ~(ends[c][k] = "open")]
  BY DEF Send
<1>3. \/ inbox' = q
      \/ inbox' = [q EXCEPT ![Other(c)][k] = q[Other(c)][k] + 1]
  BY DEF Send
<1>4. ends[c][k] = "open" => transport \in {"up", "lost"}
  BY <1>1 DEF WaitInv, TypeOK
<1>5. inbox' \in [Peer -> [Peer -> Nat]]
  BY <1>1, <1>3
<1>6. CASE ends[c][k] = "open" /\ transport = "up" /\ Running(Other(c))
  <2>1. inbox' = [q EXCEPT ![Other(c)][k] = q[Other(c)][k] + 1]
    BY <1>6 DEF Send
  <2>2. inbox'[Other(c)][k] = q[Other(c)][k] + 1
    BY <1>1, <2>1
  <2>3. q[Other(c)][k] \in Nat
    BY <1>1
  <2>4. inbox'[Other(c)][k] > 0
    BY <2>2, <2>3
  <2>5. refused' \in [Peer -> BOOLEAN] /\ \A d \in Peer \ {c} : refused'[d] = refused[d]
    BY <1>2 DEF TypeOK
  <2> QED BY <1>1, <1>5, <2>4, <2>5
<1>7. CASE ~(ends[c][k] = "open" /\ transport = "up" /\ Running(Other(c)))
  BY <1>1, <1>2, <1>4, <1>5, <1>7 DEF TypeOK
<1> QED BY <1>6, <1>7

LEMMA MessageStep ==
    ASSUME TypeOK, WaitInv, NEW c \in Peer, NEW k \in Peer, OnMessage(c, k)
    PROVE  TypeOK' /\ WaitInv'
<1> DEFINE taken == [inbox EXCEPT ![c][k] = @ - 1]
<1>1. /\ Running(c) /\ inbox[c][k] > 0 /\ NotifyChannel(c)
      /\ UNCHANGED <<link, type_, transport, ends, data_channel_, sent, count>>
      /\ IF Responds(c) THEN Send(c, taken) ELSE inbox' = taken /\ UNCHANGED refused
  BY DEF OnMessage, linkVars, countVars
<1>2. taken \in [Peer -> [Peer -> Nat]]
  BY <1>1 DEF TypeOK, Peer
<1>3. inbox' \in [Peer -> [Peer -> Nat]] /\ refused' \in [Peer -> BOOLEAN]
  BY <1>1, <1>2, SendStep DEF TypeOK
<1>4. TypeOK'
  BY <1>1, <1>3 DEF TypeOK, NotifyChannel, Peer
<1>5. WaitsForSomething'
  <2>1. CASE c = "Caller"
    BY <1>1, <2>1 DEF NotifyChannel, WaitsForSomething, TypeOK, Peer
  <2>2. CASE c = "Callee"
    <3>1. Responds(c)
      <4>1. transport # "down"
        BY <2>2 DEF OnMessage, WaitInv
      <4> QED BY <2>2, <4>1 DEF Responds, WaitInv
    <3>2. \/ refused'[c]
          \/ transport' = "lost" \/ pc[Other(c)] = "stopped"
          \/ \E j \in Peer : inbox'[Other(c)][j] > 0
      BY <1>1, <1>2, <3>1, SendStep DEF Running
    <3>3. Other(c) = "Caller" /\ Other(c) \in Peer
      BY <2>2 DEF Other, Peer
    <3>4. ASSUME NEW j \in Peer, inbox'[Other(c)][j] > 0 PROVE UnderWay' > 0
      BY <1>3, <3>3, <3>4 DEF UnderWay, Peer
    <3>5. pc'["Caller"] = "reply" => pc["Caller"] = "reply"
      BY <1>1, <2>2 DEF NotifyChannel, TypeOK, Peer
    <3> QED BY <2>2, <3>2, <3>3, <3>4, <3>5 DEF WaitsForSomething
  <2> QED BY <2>1, <2>2 DEF Peer
<1>6. WaitInv'
  BY <1>1, <1>5 DEF WaitInv, NotifyChannel, TypeOK, Peer
<1> QED BY <1>4, <1>6

LEMMA SendMessageStep ==
    ASSUME TypeOK, WaitInv, NEW c \in Peer, send_message_sync(c)
    PROVE  TypeOK' /\ WaitInv'
<1>1. /\ c = "Caller" /\ pc[c] = "send" /\ pc' = [pc EXCEPT ![c] = "reply"]
      /\ Send(c, inbox) /\ SendCounts(c)
      /\ UNCHANGED <<link, type_, transport, ends, data_channel_, count>>
  BY DEF send_message_sync, WaitInv, linkVars
<1>2. inbox \in [Peer -> [Peer -> Nat]]
  BY DEF TypeOK
<1>3. /\ inbox' \in [Peer -> [Peer -> Nat]] /\ refused' \in [Peer -> BOOLEAN]
      /\ \/ refused'[c]
         \/ transport = "lost" \/ ~Running(Other(c))
         \/ \E k \in Peer : inbox'[Other(c)][k] > 0
  BY <1>1, <1>2, SendStep
<1>4. sent' \in 0 .. MaxCount /\ sent' <= count + 1
  BY <1>1, DataChannelAssumption DEF SendCounts, WaitInv, TypeOK
<1>5. TypeOK'
  BY <1>1, <1>3, <1>4 DEF TypeOK
<1>6. WaitsForSomething'
  <2>1. Other(c) = "Callee" /\ Other(c) \in Peer
    BY <1>1 DEF Other, Peer
  <2>2. ASSUME NEW j \in Peer, inbox'[Other(c)][j] > 0 PROVE UnderWay' > 0
    BY <1>3, <2>1, <2>2 DEF UnderWay, Peer
  <2>3. ~Running("Callee") => ~Running("Callee")'
    BY <1>1 DEF Running, TypeOK, Peer
  <2> QED BY <1>1, <1>3, <2>1, <2>2, <2>3 DEF WaitsForSomething
<1>7. WaitInv'
  BY <1>1, <1>4, <1>6 DEF WaitInv, TypeOK, Peer
<1> QED BY <1>5, <1>7

LEMMA CountStep ==
    ASSUME TypeOK, WaitInv, NEW c \in Peer, CountMessage(c)
    PROVE  TypeOK' /\ WaitInv'
BY DataChannelAssumption
DEF CountMessage, TypeOK, WaitInv, WaitsForSomething, Peer, Running, UnderWay,
    linkVars, channelVars

LEMMA NextStep == TypeOK /\ WaitInv /\ [Next]_vars => TypeOK' /\ WaitInv'
<1> SUFFICES ASSUME TypeOK, WaitInv, [Next]_vars PROVE TypeOK' /\ WaitInv'
  OBVIOUS
<1>1. ASSUME NEW c \in Peer, Main(c) \/ Signaling(c) PROVE TypeOK' /\ WaitInv'
  BY <1>1, QuietStep, ConnectionStep, SendMessageStep, CountStep DEF Main, Signaling
<1>2. ASSUME NEW c \in Peer, WebRtc(c) \/ Environment(c) PROVE TypeOK' /\ WaitInv'
  BY <1>2, QuietStep, ConnectionStep, MessageStep DEF WebRtc, Environment
<1>3. CASE Negotiated \/ PeerLost
  BY <1>3, ConnectionStep DEF Peer
<1>4. CASE UNCHANGED vars
  BY <1>4 DEF vars, TypeOK, WaitInv, WaitsForSomething, Peer, Running, UnderWay
<1> QED BY <1>1, <1>2, <1>3, <1>4 DEF Next

\* Every variable keeps its type: no count passes its bound.
THEOREM DataChannelTypes == Spec => []TypeOK
<1> QED BY InitInv, NextStep, PTL DEF Spec

\* The types and what the wait for a response rests on, for every bound.
THEOREM ChannelInvariant == Spec => []ChannelInv
<1>1. TypeOK /\ WaitInv <=> ChannelInv
  BY DEF ChannelInv
<1> QED BY <1>1, InitInv, NextStep, PTL DEF Spec

\* Whatever wakes main, whenever the channel is announced, opens or fails: while
\* the caller waits in send_message_sync something is under way that will wake
\* it, unless a Send was refused or the other client or the connection is gone.
THEOREM NoMissedWakeup == Spec => []WaitsForSomething
<1>1. WaitInv => WaitsForSomething
  BY DEF WaitInv
<1> QED BY <1>1, InitInv, NextStep, PTL DEF Spec

------------------------------------------------------------------------------
(* The steady case: no wakeup without a notify, no notify before its wait, *)
(* channels announced open.                                                *)

Steady == ~SpuriousWakeups /\ ~EarlyNotify /\ ~EarlyAnnounce

\* Main is let out of its wait for a channel only by the channel the callee
\* created, so no announcement can be taken for a response.
AnnouncedFirst ==
    /\ pc["Caller"] = "connected" => link["Caller"] # "pending"
    /\ link["Caller"] = "idle" => pc["Caller"] = "start"
    /\ pc["Caller"] \in {"calling", "connecting"} => link["Caller"] = "pending"
    /\ pc["Caller"] = "loop" =>
        ends["Caller"]["Callee"] # "none" \/ link["Caller"] = "closed"
    /\ pc["Caller"] \in {"send", "reply", "replied"} => ends["Caller"]["Callee"] # "none"

\* Whatever is under way, or was answered, Send took.
Counted ==
    /\ count <= sent \/ pc["Caller"] = "replied"
    /\ pc["Caller"] = "reply" /\ UnderWay > 0 => count < sent
    /\ pc["Caller"] = "replied" => count < sent

\* The inductive invariant of the steady case, beside TypeOK and WaitInv.
SteadyInv == AnnouncedFirst /\ InStep /\ Counted

LEMMA SteadyInit == Init => SteadyInv
BY DEF Init, SteadyInv, AnnouncedFirst, InStep, Counted, UnderWay, Peer

\* Steps that leave the messages under way alone.
LEMMA SteadyQuietStep ==
    ASSUME Steady, TypeOK, WaitInv, SteadyInv, NEW c \in Peer, NEW k \in Peer,
           connect(c) \/ connect_wait(c) \/ wait_for_data_channel_connection(c) \/ Loop(c)
             \/ on_connected(c) \/ on_fail(c) \/ on_close(c) \/ SetType(c)
             \/ SpuriousWakeup(c) \/ CountMessage(c) \/ Negotiated \/ PeerLost \/ Opens(c, k)
    PROVE  SteadyInv'
<1> USE DEF Steady, TypeOK, WaitInv, SteadyInv, AnnouncedFirst, InStep, Counted, Peer,
            UnderWay, channelVars, countVars, linkVars
<1>1. CASE connect(c)
  BY <1>1 DEF connect
<1>2. CASE connect_wait(c)
  BY <1>2 DEF connect_wait
<1>3. CASE wait_for_data_channel_connection(c)
  BY <1>3 DEF wait_for_data_channel_connection, connected_
<1>4. CASE Loop(c)
  BY <1>4 DEF Loop, connected_
<1>5. CASE on_connected(c) \/ on_fail(c)
  BY <1>5 DEF on_connected, on_fail, ConnectOutcome, NotifyMsg
<1>6. CASE on_close(c)
  BY <1>6 DEF on_close
<1>7. CASE SetType(c)
  BY <1>7 DEF SetType
<1>8. CASE SpuriousWakeup(c)
  BY <1>8 DEF SpuriousWakeup
<1>9. CASE CountMessage(c)
  BY <1>9 DEF CountMessage
<1>10. CASE Negotiated \/ PeerLost
  BY <1>10 DEF Negotiated, PeerLost
<1>11. CASE Opens(c, k)
  BY <1>11 DEF Opens
<1> QED BY <1>1, <1>2, <1>3, <1>4, <1>5, <1>6, <1>7, <1>8, <1>9, <1>10, <1>11

\* An end that closes drops what is under way to it.
LEMMA SteadyCloseStep ==
    ASSUME TypeOK, SteadyInv, NEW c \in Peer, NEW k \in Peer, Closes(c, k) \/ Stop(c)
    PROVE  SteadyInv'
<1> USE DEF TypeOK, SteadyInv, AnnouncedFirst, InStep, Counted, Peer, UnderWay,
            countVars, linkVars
<1>1. CASE Closes(c, k)
  BY <1>1 DEF Closes
<1>2. CASE Stop(c)
  BY <1>2 DEF Stop
<1> QED BY <1>1, <1>2

\* A channel that is announced to the caller ends its first wait: it is not sending yet.
LEMMA SteadyAnnounceStep ==
    ASSUME Steady, TypeOK, SteadyInv, NEW c \in Peer, OnDataChannel(c)
    PROVE  SteadyInv'
<1>1. CASE c = "Caller"
  BY <1>1 DEF Steady, TypeOK, SteadyInv, AnnouncedFirst, InStep, Counted, Peer, UnderWay,
              countVars, linkVars, OnDataChannel, NotifyChannel, Other
<1>2. CASE c = "Callee"
  BY <1>2 DEF Steady, TypeOK, SteadyInv, AnnouncedFirst, InStep, Counted, Peer, UnderWay,
              countVars, linkVars, OnDataChannel, NotifyChannel, Other
<1> QED BY <1>1, <1>2 DEF Peer

\* The sum of what is under way in queues like inbox.
Total(q) == q["Caller"]["Caller"] + q["Caller"]["Callee"]
              + q["Callee"]["Caller"] + q["Callee"]["Callee"]

\* Send adds at most one message, and none that it does not take.
LEMMA SendAddsOne ==
    ASSUME TypeOK, NEW c \in Peer, NEW q \in [Peer -> [Peer -> Nat]], Send(c, q)
    PROVE  /\ UnderWay' <= Total(q) + 1
           /\ ends[c][data_channel_[c]] # "open" => UnderWay' = Total(q)
<1>1. data_channel_[c] \in Peer /\ Other(c) \in Peer
  BY DEF TypeOK, Other, Peer
<1>2. \/ inbox' = q
      \/ /\ ends[c][data_channel_[c]] = "open"
         /\ inbox' = [q EXCEPT ![Other(c)][data_channel_[c]] =
                                    q[Other(c)][data_channel_[c]] + 1]
  BY DEF Send
<1>3. Total(q) \in Nat
  BY DEF Total, Peer
<1>4. CASE inbox' = q
  BY <1>3, <1>4 DEF UnderWay, Total
<1>5. ASSUME NEW d \in Peer, NEW j \in Peer, inbox' = [q EXCEPT ![d][j] = q[d][j] + 1]
      PROVE  UnderWay' = Total(q) + 1
  BY <1>5 DEF UnderWay, Total, Peer
<1> QED BY <1>1, <1>2, <1>3, <1>4, <1>5

\* A message is taken only while the caller waits; the callee's response takes its
\* place, the caller's main is let go by it.
LEMMA SteadyMessageStep ==
    ASSUME TypeOK, WaitInv, SteadyInv, NEW c \in Peer, NEW k \in Peer, OnMessage(c, k)
    PROVE  SteadyInv'
<1> DEFINE taken == [inbox EXCEPT ![c][k] = @ - 1]
<1>1. /\ inbox[c][k] > 0 /\ NotifyChannel(c)
      /\ UNCHANGED <<link, type_, transport, ends, data_channel_, sent, count>>
      /\ IF Responds(c) THEN Send(c, taken) ELSE inbox' = taken
  BY DEF OnMessage, linkVars, countVars
<1>2. taken \in [Peer -> [Peer -> Nat]]
  BY <1>1 DEF TypeOK, Peer
<1>3. Total(taken) = UnderWay - 1 /\ UnderWay > 0 /\ UnderWay \in Nat
  BY <1>1 DEF Total, UnderWay, TypeOK, Peer
<1>4. pc["Caller"] = "reply" /\ UnderWay = 1 /\ Total(taken) = 0 /\ count < sent
  BY <1>3 DEF SteadyInv, InStep, Counted
<1>5. CASE c = "Caller"
  <2>1. ~Responds(c)
    BY <1>5 DEF Responds, WaitInv
  <2>2. UnderWay' = 0
    BY <1>1, <1>4, <2>1 DEF UnderWay, Total
  <2>3. pc'["Caller"] = "replied"
    BY <1>1, <1>4, <1>5 DEF NotifyChannel, TypeOK
  <2> QED BY <1>1, <1>4, <2>2, <2>3 DEF SteadyInv, AnnouncedFirst, InStep, Counted
<1>6. CASE c = "Callee"
  <2>1. UnderWay' <= 1
    <3>1. CASE Responds(c)
      <4>1. Send(c, taken)
        BY <1>1, <3>1
      <4>2. UnderWay' <= Total(taken) + 1
        BY <1>2, <4>1, SendAddsOne
      <4> QED BY <1>4, <4>2
    <3>2. CASE ~Responds(c)
      <4>1. inbox' = taken
        BY <1>1, <3>2
      <4>2. UnderWay' = Total(taken)
        BY <4>1 DEF UnderWay, Total
      <4> QED BY <1>4, <4>2
    <3> QED BY <3>1, <3>2
  <2>2. pc'["Caller"] = "reply"
    BY <1>1, <1>4, <1>6 DEF NotifyChannel, TypeOK, Peer
  <2>3. count' <= sent'
    BY <1>1, <1>4 DEF TypeOK
  <2> QED BY <1>1, <1>4, <2>1, <2>2, <2>3 DEF SteadyInv, AnnouncedFirst, InStep, Counted
<1> QED BY <1>5, <1>6 DEF Peer

LEMMA SteadySendStep ==
    ASSUME TypeOK, WaitInv, SteadyInv, NEW c \in Peer, send_message_sync(c)
    PROVE  SteadyInv'
<1>1. /\ c = "Caller" /\ pc[c] = "send" /\ pc'["Caller"] = "reply"
      /\ Send(c, inbox) /\ SendCounts(c)
      /\ UNCHANGED <<link, type_, transport, ends, data_channel_, count>>
  BY DEF send_message_sync, WaitInv, linkVars, TypeOK
<1>2. inbox \in [Peer -> [Peer -> Nat]]
  BY DEF TypeOK
<1>3. UnderWay = 0 /\ Total(inbox) = 0
  BY <1>1, <1>2 DEF SteadyInv, InStep, UnderWay, Total, Peer
<1>4. UnderWay' <= 1 /\ (ends[c][data_channel_[c]] # "open" => UnderWay' = 0)
  BY <1>1, <1>2, <1>3, SendAddsOne
<1>5. count' <= sent' /\ (UnderWay' > 0 => count' < sent')
  BY <1>1, <1>4, DataChannelAssumption DEF SendCounts, SteadyInv, Counted, TypeOK
<1> QED BY <1>1, <1>4, <1>5 DEF SteadyInv, AnnouncedFirst, InStep, Counted

LEMMA SteadyStep ==
    Steady /\ TypeOK /\ WaitInv /\ SteadyInv /\ [Next]_vars => SteadyInv'
<1> SUFFICES ASSUME Steady, TypeOK, WaitInv, SteadyInv, [Next]_vars PROVE SteadyInv'
  OBVIOUS
<1>1. ASSUME NEW c \in Peer, Main(c) \/ Signaling(c) PROVE SteadyInv'
  BY <1>1, SteadyQuietStep, SteadyCloseStep, SteadySendStep DEF Main, Signaling
<1>2. ASSUME NEW c \in Peer, WebRtc(c) \/ Environment(c) PROVE SteadyInv'
  BY <1>2, SteadyQuietStep, SteadyCloseStep, SteadyAnnounceStep, SteadyMessageStep
  DEF WebRtc, Environment
<1>3. CASE Negotiated \/ PeerLost
  BY <1>3, SteadyQuietStep DEF Peer
<1>4. CASE UNCHANGED vars
  BY <1>4 DEF vars, SteadyInv, AnnouncedFirst, InStep, Counted, UnderWay
<1> QED BY <1>1, <1>2, <1>3, <1>4 DEF Next

\* In the steady case send_message_sync is synchronous: at most one message or
\* response is under way, and none while main does not wait for it, also when the
\* peer is lost.
THEOREM SteadyInStep == ASSUME Steady PROVE Spec => []InStep
<1>1. SteadyInv => InStep
  BY DEF SteadyInv
<1>2. TypeOK /\ WaitInv /\ SteadyInv /\ [Next]_vars => TypeOK' /\ WaitInv' /\ SteadyInv'
  BY NextStep, SteadyStep
<1> QED BY <1>1, <1>2, InitInv, SteadyInit, PTL DEF Spec

\* In the steady case main reports no message that Send did not take.
THEOREM SteadyCount == ASSUME Steady PROVE Spec => []SentCountsSent
<1>1. SteadyInv => SentCountsSent
  BY DEF SteadyInv, Counted, SentCountsSent
<1>2. TypeOK /\ WaitInv /\ SteadyInv /\ [Next]_vars => TypeOK' /\ WaitInv' /\ SteadyInv'
  BY NextStep, SteadyStep
<1> QED BY <1>1, <1>2, InitInv, SteadyInit, PTL DEF Spec

=============================================================================
