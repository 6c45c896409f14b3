----------------------------- MODULE ClientLocks -----------------------------
(***************************************************************************)
(* The threads of one data-channel client and what they block on:          *)
(*                                                                         *)
(*   main       main() of peer_datachannel_client.cpp                      *)
(*   sio        the network thread of sio_client_: listeners and acks      *)
(*   signaling  WebRTC's signaling thread: the client's observers          *)
(*   network    WebRTC's network thread, which blocks on nobody            *)
(*                                                                         *)
(* The client has two mutexes, msg_mutex_ and data_channel_mutex_; and a   *)
(* call into the WebRTC library blocks until the thread it is run on, the  *)
(* signaling thread for a peer connection and the network thread for a     *)
(* channel, has run it.  This module asks only who waits for whom, and     *)
(* lets a wait on a condition variable return at any time.                 *)
(***************************************************************************)

VARIABLES
    pc,     \* pc[t]: where thread t is
    owner,  \* owner[m]: the thread that holds mutex m
    serving \* the thread whose call the signaling thread runs

vars == <<pc, owner, serving>>

Thread == {"main", "sio", "signaling"}
Mutex == {"msg_mutex_", "data_channel_mutex_"}

MainPlace ==
    {"connect", "connectHeld", "connectWait", "connectBack",
     "open", "openHeld", "openWait", "openBack",
     "loop", "sending", "sent", "replyWait", "replyBack",
     "closing", "closeChannel", "closePeer", "done"}
SioPlace == {"idle", "lock", "held", "calling", "ended"}
SignalingPlace == {"idle", "serving", "lock", "held", "responding"}

\* Every thread is at a place of its own and every mutex has at most one owner.
TypeOK ==
    /\ pc \in [Thread -> MainPlace \cup SioPlace \cup SignalingPlace]
    /\ pc["main"] \in MainPlace
    /\ pc["sio"] \in SioPlace
    /\ pc["signaling"] \in SignalingPlace
    /\ owner \in [Mutex -> Thread \cup {"none"}]
    /\ serving \in {"none", "main", "sio"}

Init ==
    /\ pc = [t \in Thread |-> IF t = "main" THEN "connect" ELSE "idle"]
    /\ owner = [m \in Mutex |-> "none"]
    /\ serving = "none"

------------------------------------------------------------------------------
Go(t, from, to) == pc[t] = from /\ pc' = [pc EXCEPT ![t] = to]

Step(t, from, to) == Go(t, from, to) /\ UNCHANGED <<owner, serving>>

Acquire(t, m, from, to) ==
    /\ Go(t, from, to)
    /\ owner[m] = "none"
    /\ owner' = [owner EXCEPT ![m] = t]
    /\ UNCHANGED serving

Release(t, m, from, to) ==
    /\ Go(t, from, to)
    /\ owner' = [owner EXCEPT ![m] = "none"]
    /\ UNCHANGED serving

\* A wait lets go of the mutex, and takes it again when it returns.
Wait(t, m, from, at, back) ==
    Release(t, m, from, at) \/ Acquire(t, m, at, back)

------------------------------------------------------------------------------
(* main *)

connect_sync ==
    \/ Acquire("main", "msg_mutex_", "connect", "connectHeld")
    \/ Wait("main", "msg_mutex_", "connectHeld", "connectWait", "connectBack")
    \/ Release("main", "msg_mutex_", "connectBack", "open")

\* Returns at once when the client is not connected.
wait_for_data_channel_connection ==
    \/ Acquire("main", "data_channel_mutex_", "open", "openHeld")
    \/ Release("main", "data_channel_mutex_", "openHeld", "loop")
    \/ Wait("main", "data_channel_mutex_", "openHeld", "openWait", "openBack")
    \/ Release("main", "data_channel_mutex_", "openBack", "loop")

\* Send runs on WebRTC's network thread, which is always free to.
send_message_sync ==
    \/ Acquire("main", "data_channel_mutex_", "loop", "sending")
    \/ Step("main", "sending", "sent")
    \/ Wait("main", "data_channel_mutex_", "sent", "replyWait", "replyBack")
    \/ Release("main", "data_channel_mutex_", "replyBack", "loop")

\* sync_close joins the network thread, which first finishes its listener.
deinit_signaling ==
    \/ Step("main", "loop", "closing")
    \/ /\ pc["main"] = "closing"
       /\ pc["sio"] = "idle"
       /\ pc' = [pc EXCEPT !["main"] = "closeChannel", !["sio"] = "ended"]
       /\ UNCHANGED <<owner, serving>>

\* The destructor: Close of the channel, then of the peer connection.
destructor == Step("main", "closeChannel", "closePeer")

------------------------------------------------------------------------------
(* The network thread of sio_client_ *)

\* The listeners, the acks of emit, on_close and on_fail lock msg_mutex_.
\* on_connected locks nothing.
Event ==
    \/ Step("sio", "idle", "lock")
    \/ Acquire("sio", "msg_mutex_", "lock", "held")
    \/ Release("sio", "msg_mutex_", "held", "idle")

\* ready, offer, answer and ice call into the peer connection meanwhile.
ListenerCalls == Step("sio", "held", "calling")

------------------------------------------------------------------------------
(* The signaling thread *)

\* A call of a peer connection: CreateOffer, SetRemoteDescription,
\* CreateAnswer, AddIceCandidate for sio, Close for main.
Serve ==
    /\ Go("signaling", "idle", "serving")
    /\ \/ pc["sio"] = "calling" /\ serving' = "sio"
       \/ pc["main"] = "closePeer" /\ serving' = "main"
    /\ UNCHANGED owner

Served ==
    /\ pc["signaling"] = "serving"
    /\ pc' = [pc EXCEPT !["signaling"] = "idle",
                        ![serving] = IF serving = "sio" THEN "held" ELSE "done"]
    /\ serving' = "none"
    /\ UNCHANGED owner

\* Mutant: OnIceCandidate and OnSuccess lock msg_mutex_ to emit.
EmitLocks(m) == m \in Mutex
\* The mutex an observer callback locks: data_channel_mutex_ in OnDataChannel
\* and OnMessage; OnIceCandidate and OnSuccess lock nothing.
CallbackLocks(m) == m = "data_channel_mutex_"

Callback ==
    /\ pc["main"] # "done"
    /\ Step("signaling", "idle", "lock")

CallbackRuns ==
    \E m \in Mutex :
        \/ CallbackLocks(m) /\ Acquire("signaling", m, "lock", "held")
        \/ owner[m] = "signaling" /\ Release("signaling", m, "held", "idle")

\* OnMessage of the callee sends its response.
Respond ==
    Step("signaling", "held", "responding") \/ Step("signaling", "responding", "held")

Next ==
    \/ connect_sync \/ wait_for_data_channel_connection \/ send_message_sync
    \/ deinit_signaling \/ destructor
    \/ Event \/ ListenerCalls
    \/ Serve \/ Served \/ Callback \/ CallbackRuns \/ Respond

Spec == Init /\ [][Next]_vars

------------------------------------------------------------------------------
(* Who waits for whom *)

Wants(t) ==
    {m \in Mutex :
        \/ t = "main" /\ m = "msg_mutex_" /\ pc[t] \in {"connect", "connectWait"}
        \/ t = "main" /\ m = "data_channel_mutex_"
             /\ pc[t] \in {"open", "openWait", "loop", "replyWait"}
        \/ t = "sio" /\ m = "msg_mutex_" /\ pc[t] = "lock"
        \/ t = "signaling" /\ CallbackLocks(m) /\ pc[t] = "lock"}

Calls(t) ==
    {u \in Thread :
        \/ t = "main" /\ pc[t] = "closing" /\ u = "sio"
        \/ t = "main" /\ pc[t] = "closePeer" /\ u = "signaling"
        \/ t = "sio" /\ pc[t] = "calling" /\ u = "signaling"}

WaitsFor(t) == {u \in Thread : u \in Calls(t) \/ \E m \in Wants(t) : owner[m] = u}

\* The threads of a client never all wait for one another: in every set of
\* threads there is one that waits for none of the set, though listeners hold
\* msg_mutex_ while they wait for the signaling thread, callbacks of that thread
\* wait for data_channel_mutex_, main holds it while it sends, and main joins the
\* listeners' thread.
NoCircularWait ==
    \A S \in (SUBSET Thread) \ {{}} : \E t \in S : WaitsFor(t) \cap S = {}

\* Where each mutex is held, and whose call the signaling thread runs.
Holders ==
    /\ owner["msg_mutex_"] = "main" <=> pc["main"] \in {"connectHeld", "connectBack"}
    /\ owner["msg_mutex_"] = "sio" <=> pc["sio"] \in {"held", "calling"}
    /\ owner["msg_mutex_"] # "signaling"
    /\ owner["data_channel_mutex_"] = "main" <=>
        pc["main"] \in {"openHeld", "openBack", "sending", "sent", "replyBack"}
    /\ owner["data_channel_mutex_"] = "signaling" <=>
        pc["signaling"] \in {"held", "responding"}
    /\ owner["data_channel_mutex_"] # "sio"
    /\ serving # "none" <=> pc["signaling"] = "serving"
    /\ serving = "sio" => pc["sio"] = "calling"
    /\ serving = "main" => pc["main"] = "closePeer"

\* The places and the mutexes have their types and agree.
OwnerInv == TypeOK /\ Holders

=============================================================================
