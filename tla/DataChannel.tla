----------------------------- MODULE DataChannel -----------------------------
(***************************************************************************)
(* The data-channel half of PeerDataChannelClient and its main():          *)
(* peer_client.hpp connect_sync, on_connected, on_close, on_fail;          *)
(* peer_datachannel_client.cpp OnDataChannel, OnMessage,                   *)
(* wait_for_data_channel_connection, send_message_sync, main.              *)
(*                                                                         *)
(* main blocks in condition variables without a predicate, so a wakeup is  *)
(* all it learns.  A critical section under data_channel_mutex_ is one     *)
(* action up to the wait that releases the mutex.  The exchange of         *)
(* descriptions (SignalingSession) is here the one step Negotiated.        *)
(*                                                                         *)
(* Both clients create a channel in init_webrtc, so each end of the peer   *)
(* connection has two: its own and, once announced, the other client's.    *)
(***************************************************************************)
EXTENDS Naturals

CONSTANTS
    SpuriousWakeups, \* a condition variable may wake without a notify
    EarlyNotify,     \* a notify may come before main reaches its wait
    EarlyAnnounce,   \* OnDataChannel may come before the channel is open
    MayLosePeer,     \* the peer connection may break while both clients run
    MaxUnderWay,     \* bound: messages under way when main wakes for nothing
    MaxCount         \* bound: messages between two reports of main

ASSUME DataChannelAssumption ==
    /\ {SpuriousWakeups, EarlyNotify, EarlyAnnounce, MayLosePeer} \subseteq BOOLEAN
    /\ MaxUnderWay \in Nat
    /\ MaxCount \in Nat \ {0}

Peer == {"Caller", "Callee"}
Other(c) == IF c = "Caller" THEN "Callee" ELSE "Caller"

VARIABLES
    pc,           \* pc[c]: where main of client c is
    link,         \* link[c]: the signaling connection; connected_ is link = "open"
    type_,        \* type_[c]
    transport,    \* the peer connection between the two
    ends,         \* ends[c][k]: c's end of the channel that k created
    data_channel_,\* data_channel_[c]: the creator of the channel c sends on
    inbox,        \* inbox[c][k]: messages under way to c on the channel k created
    refused,      \* refused[c]: the last Send of c returned false
    sent,         \* messages Send took from the caller's main since its last report
    count         \* count in the caller's main

vars == <<pc, link, type_, transport, ends, data_channel_, inbox, refused, sent, count>>
linkVars == <<link, type_>>
channelVars == <<transport, ends, data_channel_, inbox, refused>>
countVars == <<sent, count>>

connected_(c) == link[c] = "open"

\* Every variable has its type.
TypeOK ==
    /\ pc \in [Peer -> {"start", "calling", "connecting", "connected", "opening",
                        "loop", "send", "reply", "replied", "stopping", "stopped"}]
    /\ link \in [Peer -> {"idle", "pending", "open", "closed"}]
    /\ type_ \in [Peer -> Peer \cup {"Undefined"}]
    /\ transport \in {"down", "up", "lost"}
    /\ ends \in [Peer -> [Peer -> {"none", "connecting", "open", "closed"}]]
    /\ data_channel_ \in [Peer -> Peer]
    /\ inbox \in [Peer -> [Peer -> Nat]]
    /\ refused \in [Peer -> BOOLEAN]
    /\ sent \in 0 .. MaxCount
    /\ count \in 0 .. MaxCount

\* init_webrtc has created each client's own channel.
Init ==
    /\ pc = [c \in Peer |-> "start"]
    /\ link = [c \in Peer |-> "idle"]
    /\ type_ = [c \in Peer |-> "Undefined"]
    /\ transport = "down"
    /\ ends = [c \in Peer |-> [k \in Peer |-> IF k = c THEN "connecting" ELSE "none"]]
    /\ data_channel_ = [c \in Peer |-> c]
    /\ inbox = [c \in Peer |-> [k \in Peer |-> 0]]
    /\ refused = [c \in Peer |-> FALSE]
    /\ sent = 0
    /\ count = 0

Running(c) == pc[c] # "stopped"

UnderWay == inbox["Caller"]["Caller"] + inbox["Caller"]["Callee"]
              + inbox["Callee"]["Caller"] + inbox["Callee"]["Callee"]

------------------------------------------------------------------------------
(* PeerClient: the signaling connection and connect_sync *)

\* connect_sync, up to the lock: connect() only starts to connect.
connect(c) ==
    /\ pc[c] = "start"
    /\ pc' = [pc EXCEPT ![c] = "calling"]
    /\ link' = [link EXCEPT ![c] = "pending"]
    /\ UNCHANGED <<type_, channelVars, countVars>>

\* connect_sync, from the lock on: wait for a notify of msg_cond_.
connect_wait(c) ==
    /\ pc[c] = "calling"
    /\ pc' = [pc EXCEPT ![c] = "connecting"]
    /\ UNCHANGED <<linkVars, channelVars, countVars>>

\* msg_cond_.notify_all.
NotifyMsg(c) == pc' = IF pc[c] = "connecting" THEN [pc EXCEPT ![c] = "connected"] ELSE pc

ConnectOutcome(c, state) ==
    /\ link[c] = "pending"
    /\ EarlyNotify \/ pc[c] = "connecting"
    /\ link' = [link EXCEPT ![c] = state]
    /\ NotifyMsg(c)
    /\ UNCHANGED <<type_, channelVars, countVars>>

on_connected(c) == ConnectOutcome(c, "open")
on_fail(c) == ConnectOutcome(c, "closed")

\* on_close notifies nobody.
on_close(c) ==
    /\ link[c] = "open"
    /\ link' = [link EXCEPT ![c] = "closed"]
    /\ UNCHANGED <<pc, type_, channelVars, countVars>>

\* Mutant: both listeners set the caller's type.
SetTypeCaller(c) ==
    /\ link[c] = "open"
    /\ type_[c] = "Undefined"
    /\ type_' = [type_ EXCEPT ![c] = "Caller"]
    /\ UNCHANGED <<pc, link, channelVars, countVars>>
\* set-as-caller, set-as-callee.
SetType(c) ==
    /\ link[c] = "open"
    /\ type_[c] = "Undefined"
    /\ type_' = [type_ EXCEPT ![c] = c]
    /\ UNCHANGED <<pc, link, channelVars, countVars>>

------------------------------------------------------------------------------
(* The peer connection *)

\* Offer, answer and candidates have been exchanged and the peers connected.
Negotiated ==
    /\ transport = "down"
    /\ \A c \in Peer : link[c] = "open" /\ type_[c] # "Undefined" /\ Running(c)
    /\ transport' = "up"
    /\ UNCHANGED <<pc, linkVars, ends, data_channel_, inbox, refused, countVars>>

\* The peer connection fails; the client's observer only logs it.
PeerLost ==
    /\ MayLosePeer
    /\ transport = "up"
    /\ transport' = "lost"
    /\ UNCHANGED <<pc, linkVars, ends, data_channel_, inbox, refused, countVars>>

\* An end of a channel opens; OnStateChange only logs.
Opens(c, k) ==
    /\ transport = "up"
    /\ ends[c][k] = "connecting"
    /\ ends' = [ends EXCEPT ![c][k] = "open"]
    /\ UNCHANGED <<pc, linkVars, transport, data_channel_, inbox, refused, countVars>>

\* An end closes because the other client, or the connection to it, is gone.
Closes(c, k) ==
    /\ transport = "lost" \/ (transport = "up" /\ ~Running(Other(c)))
    /\ ends[c][k] \in {"connecting", "open"}
    /\ ends' = [ends EXCEPT ![c][k] = "closed"]
    /\ inbox' = [inbox EXCEPT ![c][k] = 0]
    /\ UNCHANGED <<pc, linkVars, transport, data_channel_, refused, countVars>>

\* data_channel_->Send: what it returns is ignored, and kept in refused.
Send(c, queues) ==
    LET k == data_channel_[c]
        taken == ends[c][k] = "open"
    IN  /\ refused' = [refused EXCEPT ![c] = ~taken]
        /\ inbox' = IF taken /\ transport = "up" /\ Running(Other(c))
                    THEN [queues EXCEPT ![Other(c)][k] = @ + 1] ELSE queues

\* data_channel_cond_.notify_all.
NotifyChannel(c) ==
    pc' = CASE pc[c] = "opening" -> [pc EXCEPT ![c] = "loop"]
            [] pc[c] = "reply" -> [pc EXCEPT ![c] = "replied"]
            [] OTHER -> pc

\* Mutant: OnDataChannel does not notify.
OnDataChannelSilent(c) ==
    LET k == Other(c)
    IN  /\ Running(c)
        /\ transport = "up"
        /\ ends[k][k] = "open"
        /\ ends[c][k] = "none"
        /\ EarlyNotify \/ pc[c] \notin {"calling", "connecting", "connected"}
        /\ \E s \in {"open"} \cup (IF EarlyAnnounce THEN {"connecting"} ELSE {}) :
            ends' = [ends EXCEPT ![c][k] = s]
        /\ data_channel_' = [data_channel_ EXCEPT ![c] = k]
        /\ UNCHANGED <<pc, linkVars, transport, inbox, refused, countVars>>
\* The channel the other client created is announced: c sends on it from now on.
OnDataChannel(c) ==
    LET k == Other(c)
    IN  /\ Running(c)
        /\ transport = "up"
        /\ ends[k][k] = "open"
        /\ ends[c][k] = "none"
        /\ EarlyNotify \/ pc[c] \notin {"calling", "connecting", "connected"}
        /\ \E s \in {"open"} \cup (IF EarlyAnnounce THEN {"connecting"} ELSE {}) :
            ends' = [ends EXCEPT ![c][k] = s]
        /\ data_channel_' = [data_channel_ EXCEPT ![c] = k]
        /\ NotifyChannel(c)
        /\ UNCHANGED <<linkVars, transport, inbox, refused, countVars>>

\* Mutant: whoever receives a message responds.
RespondsAlways(c) == TRUE
\* Only the callee responds.
Responds(c) == type_[c] = "Callee"

OnMessage(c, k) ==
    LET taken == [inbox EXCEPT ![c][k] = @ - 1]
    IN  /\ Running(c)
        /\ ends[c][k] = "open"
        /\ inbox[c][k] > 0
        /\ IF Responds(c) THEN Send(c, taken) ELSE inbox' = taken /\ UNCHANGED refused
        /\ NotifyChannel(c)
        /\ UNCHANGED <<linkVars, transport, ends, data_channel_, countVars>>

------------------------------------------------------------------------------
(* main *)

\* Mutant: main goes on without waiting for the channel.
WaitSkipped(c) ==
    /\ pc[c] = "connected"
    /\ pc' = [pc EXCEPT ![c] = "loop"]
    /\ UNCHANGED <<linkVars, channelVars, countVars>>
\* Wait for a notify of data_channel_cond_, unless the connection failed.
wait_for_data_channel_connection(c) ==
    /\ pc[c] = "connected"
    /\ pc' = [pc EXCEPT ![c] = IF connected_(c) THEN "opening" ELSE "loop"]
    /\ UNCHANGED <<linkVars, channelVars, countVars>>

\* Mutant: the loop does not test is_connected.
LoopUnchecked(c) ==
    /\ pc[c] = "loop"
    /\ type_[c] = "Caller"
    /\ pc' = [pc EXCEPT ![c] = "send"]
    /\ UNCHANGED <<linkVars, channelVars, countVars>>
\* while(client->is_connected()): the caller sends, the callee sleeps.
Loop(c) ==
    /\ pc[c] = "loop"
    /\ ~connected_(c) \/ type_[c] = "Caller"
    /\ pc' = [pc EXCEPT ![c] = IF connected_(c) THEN "send" ELSE "stopping"]
    /\ UNCHANGED <<linkVars, channelVars, countVars>>

SendCounts(c) == sent' = IF ends[c][data_channel_[c]] = "open" THEN sent + 1 ELSE sent

\* Mutant: data_channel_mutex_ is released between Send and wait.
send_then_wait(c) ==
    \/ /\ pc[c] = "send"
       /\ Send(c, inbox)
       /\ SendCounts(c)
       /\ pc' = [pc EXCEPT ![c] = "sent"]
       /\ UNCHANGED <<linkVars, transport, ends, data_channel_, count>>
    \/ /\ pc[c] = "sent"
       /\ pc' = [pc EXCEPT ![c] = "reply"]
       /\ UNCHANGED <<linkVars, channelVars, countVars>>
\* Send and wait under data_channel_mutex_.
send_message_sync(c) ==
    /\ pc[c] = "send"
    /\ Send(c, inbox)
    /\ SendCounts(c)
    /\ pc' = [pc EXCEPT ![c] = "reply"]
    /\ UNCHANGED <<linkVars, transport, ends, data_channel_, count>>

\* After send_message_sync: count, and now and then report and start anew.
CountMessage(c) ==
    /\ pc[c] = "replied"
    /\ pc' = [pc EXCEPT ![c] = "loop"]
    /\ \/ count + 1 < MaxCount /\ count' = count + 1 /\ UNCHANGED sent
       \/ count' = 0 /\ sent' = 0
    /\ UNCHANGED <<linkVars, channelVars>>

\* A wait returns although nobody notified.
SpuriousWakeup(c) ==
    /\ SpuriousWakeups
    /\ pc[c] \in {"connecting", "opening", "reply"}
    /\ UnderWay < MaxUnderWay
    /\ pc' = [pc EXCEPT ![c] = CASE pc[c] = "connecting" -> "connected"
                                 [] pc[c] = "opening" -> "loop"
                                 [] pc[c] = "reply" -> "replied"]
    /\ UNCHANGED <<linkVars, channelVars, countVars>>

\* deinit_signaling closes the socket; the destructor closes channel and peer
\* connection.
Stop(c) ==
    /\ pc[c] = "stopping"
    /\ pc' = [pc EXCEPT ![c] = "stopped"]
    /\ link' = [link EXCEPT ![c] = "closed"]
    /\ ends' = [ends EXCEPT ![c] = [k \in Peer |-> "closed"]]
    /\ inbox' = [inbox EXCEPT ![c] = [k \in Peer |-> 0]]
    /\ UNCHANGED <<type_, transport, data_channel_, refused, countVars>>

------------------------------------------------------------------------------
Main(c) ==
    \/ connect(c) \/ connect_wait(c) \/ wait_for_data_channel_connection(c)
    \/ Loop(c) \/ send_message_sync(c) \/ CountMessage(c) \/ Stop(c)

Signaling(c) == on_connected(c) \/ SetType(c)

WebRtc(c) ==
    \/ OnDataChannel(c)
    \/ \E k \in Peer : Opens(c, k) \/ OnMessage(c, k)

Environment(c) ==
    \/ on_fail(c) \/ on_close(c) \/ SpuriousWakeup(c)
    \/ \E k \in Peer : Closes(c, k)

Next ==
    \/ \E c \in Peer : Main(c) \/ Signaling(c) \/ WebRtc(c) \/ Environment(c)
    \/ Negotiated
    \/ PeerLost

Spec == Init /\ [][Next]_vars

(***************************************************************************)
(* Fairness: main and the threads of the libraries run when they can, and  *)
(* two peers that stay connected to the server finish their exchange       *)
(* (SignalingSession, ExchangeCompletes).                                  *)
(***************************************************************************)
Fairness ==
    /\ \A c \in Peer :
        /\ WF_vars(Main(c)) /\ WF_vars(Signaling(c))
        /\ WF_vars(OnDataChannel(c))
        /\ \A k \in Peer : WF_vars(Opens(c, k)) /\ WF_vars(OnMessage(c, k))
    /\ WF_vars(Negotiated)

FairSpec == Spec /\ Fairness

------------------------------------------------------------------------------
\* The wait of send_message_sync cannot miss its notify: while the caller waits,
\* a message or its response is under way, unless one of the two was refused by
\* Send or the other client or the connection to it is gone.
WaitsForSomething ==
    pc["Caller"] = "reply" =>
        \/ UnderWay > 0
        \/ refused["Caller"] \/ refused["Callee"]
        \/ ~Running("Callee") \/ transport = "lost"

\* What WaitsForSomething rests on: a client takes only the role it has here, so
\* only the caller's main sends and counts; no end of a channel opens before the
\* peer connection is up, and by then both have their roles; what main has sent
\* but not counted is one message.
WaitInv ==
    /\ \A c \in Peer :
        /\ type_[c] \in {c, "Undefined"}
        /\ transport # "down" => type_[c] # "Undefined"
        /\ pc[c] \in {"send", "reply", "replied"} => c = "Caller"
        /\ \A k \in Peer : ends[c][k] = "open" => transport # "down"
    /\ count < MaxCount
    /\ sent <= count + (IF pc["Caller"] \in {"reply", "replied"} THEN 1 ELSE 0)
    /\ WaitsForSomething

\* The inductive invariant behind WaitsForSomething.
ChannelInv == TypeOK /\ WaitInv

\* send_message_sync is synchronous: at most one message or response is under
\* way, and none while main is not waiting for it.
InStep == UnderWay <= (IF pc["Caller"] = "reply" THEN 1 ELSE 0)

\* main reports how many messages it sent: no more than Send took.
SentCountsSent == pc["Caller"] # "replied" => count <= sent

\* As long as both clients stay connected to the server, the caller's messages
\* keep being answered.
KeepsAnswering ==
    (<>[](\A c \in Peer : link[c] = "open")) => []<>(pc["Caller"] = "replied")

\* A client whose signaling connection closes stops, if by then it is connected
\* to its peer and the peer is still there to answer.
StopsWhenClosed ==
    \A c \in Peer :
        link[c] = "closed" ~>
            (~Running(c) \/ ~Running(Other(c)) \/ transport # "up")

=============================================================================
