-------------------------- MODULE AndroidDataChannel --------------------------
(***************************************************************************)
(* The Android data-channel client: initNative and deinitNative, which the *)
(* activity calls from onCreate and onDestroy, the application thread they *)
(* start and join, and the PeerDataChannelClient that thread owns          *)
(* (peer_datachannel_client.cpp and peer_client.h under android/).         *)
(*                                                                         *)
(* The client is reference counted.  Its application thread holds one      *)
(* reference; CreateOffer and CreateAnswer are handed the client as their  *)
(* observer and hold one each until they have reported to it.  Whoever     *)
(* gives up the last one runs the destructor, which joins the client's own *)
(* signaling thread, the thread those reports are made on.                 *)
(*                                                                         *)
(* An activity is created after the one before it is destroyed.  The       *)
(* server gives a client one role and at most one each of ready, offer and *)
(* answer, as SignalingSession shows; init_webrtc is taken to succeed.     *)
(***************************************************************************)
EXTENDS Naturals

CONSTANT MaxStarts \* bound: activities created one after the other

ASSUME MaxStartsAssumption == MaxStarts \in Nat

\* One client for each activity.
Clients == 1 .. MaxStarts

VARIABLES
    ui,           \* where the UI thread is in initNative or deinitNative
    current,      \* the client of the last initNative
    system_on,    \* data->system_on
    app,          \* app[c]: where the application thread of c is
    socket,       \* socket[c]: the connection of sio_client_ to the server
    type_,        \* type_[c]
    told,         \* told[c]: what the server has sent c
    creating,     \* creating[c]: descriptions under way, each with a reference
    local,        \* local[c]: the local description is set
    remote,       \* remote[c]: the remote description is set
    data_channel_,\* data_channel_[c]: the channel c sends on
    awaiting,     \* awaiting[c]: a response to the caller's message is under way
    destroyer     \* destroyer[c]: the thread that ran the destructor of c

vars == <<ui, current, system_on, app, socket, type_, told, creating, local,
          remote, data_channel_, awaiting, destroyer>>
uiVars == <<ui, current, system_on>>
sdpVars == <<creating, local, remote>>
channelVars == <<data_channel_, awaiting>>

Waits == {"connecting", "opening", "reply"}

\* Every variable has its type.
TypeOK ==
    /\ ui \in {"idle", "starting", "running", "joining"}
    /\ current \in 0 .. MaxStarts
    /\ system_on \in BOOLEAN
    /\ app \in [Clients -> Waits \cup {"none", "begin", "calling", "connected",
                                       "loop", "stopping", "leaving", "returned"}]
    /\ socket \in [Clients -> {"idle", "pending", "open", "closed"}]
    /\ type_ \in [Clients -> {"Undefined", "Caller", "Callee"}]
    /\ told \in [Clients -> SUBSET {"role", "ready", "offer", "answer"}]
    /\ creating \in [Clients -> SUBSET {"offer", "answer"}]
    /\ local \in [Clients -> BOOLEAN]
    /\ remote \in [Clients -> BOOLEAN]
    /\ data_channel_ \in [Clients -> {"null", "own", "announced"}]
    /\ awaiting \in [Clients -> BOOLEAN]
    /\ destroyer \in [Clients -> {"nobody", "application", "signaling"}]

Init ==
    /\ ui = "idle"
    /\ current = 0
    /\ system_on = FALSE
    /\ app = [c \in Clients |-> "none"]
    /\ socket = [c \in Clients |-> "idle"]
    /\ type_ = [c \in Clients |-> "Undefined"]
    /\ told = [c \in Clients |-> {}]
    /\ creating = [c \in Clients |-> {}]
    /\ local = [c \in Clients |-> FALSE]
    /\ remote = [c \in Clients |-> FALSE]
    /\ data_channel_ = [c \in Clients |-> "null"]
    /\ awaiting = [c \in Clients |-> FALSE]
    /\ destroyer = [c \in Clients |-> "nobody"]

\* connected_: on_connected sets it, on_close clears it.
connected_(c) == socket[c] = "open"

\* The application thread holds a reference from make_ref_counted to its return.
AppHolds(c) == app[c] \notin {"none", "begin", "returned"}

\* The two peer connections have each other's description: their channels open.
Up(c) == local[c] /\ remote[c] /\ destroyer[c] = "nobody"

------------------------------------------------------------------------------
(* The UI thread *)

\* initNative, up to pthread_create: the new data has system_on = false.
initNative ==
    /\ ui = "idle"
    /\ current < MaxStarts
    /\ ui' = "starting"
    /\ current' = current + 1
    /\ system_on' = FALSE
    /\ app' = [app EXCEPT ![current'] = "begin"]
    /\ UNCHANGED <<socket, type_, told, sdpVars, channelVars, destroyer>>

\* Mutant: system_on is left as data was made.
StartedOff ==
    /\ ui = "starting"
    /\ ui' = "running"
    /\ UNCHANGED <<current, system_on, app, socket, type_, told, sdpVars, channelVars,
                   destroyer>>
\* initNative, after pthread_create.
initNative_on ==
    /\ ui = "starting"
    /\ ui' = "running"
    /\ system_on' = TRUE
    /\ UNCHANGED <<current, app, socket, type_, told, sdpVars, channelVars, destroyer>>

\* deinitNative, up to pthread_join.
deinitNative ==
    /\ ui = "running"
    /\ ui' = "joining"
    /\ system_on' = FALSE
    /\ UNCHANGED <<current, app, socket, type_, told, sdpVars, channelVars, destroyer>>

\* pthread_join returns when the application thread has.
pthread_join ==
    /\ ui = "joining"
    /\ app[current] = "returned"
    /\ ui' = "idle"
    /\ UNCHANGED <<current, system_on, app, socket, type_, told, sdpVars, channelVars,
                   destroyer>>

------------------------------------------------------------------------------
(* The signaling connection: PeerClient *)

\* notify_all on msg_cond_, or on data_channel_cond_: the waits it ends.
Notify(c, waits, next) == app' = IF app[c] \in waits THEN [app EXCEPT ![c] = next] ELSE app

\* on_connected does not lock msg_mutex_, so it may come before the wait.
on_connected(c) ==
    /\ socket[c] = "pending"
    /\ socket' = [socket EXCEPT ![c] = "open"]
    /\ Notify(c, {"connecting"}, "connected")
    /\ UNCHANGED <<uiVars, type_, told, sdpVars, channelVars, destroyer>>

on_fail(c) ==
    /\ socket[c] = "pending"
    /\ socket' = [socket EXCEPT ![c] = "closed"]
    /\ Notify(c, {"connecting"}, "connected")
    /\ UNCHANGED <<uiVars, type_, told, sdpVars, channelVars, destroyer>>

\* on_close notifies nobody.
on_close(c) ==
    /\ socket[c] = "open"
    /\ socket' = [socket EXCEPT ![c] = "closed"]
    /\ UNCHANGED <<uiVars, app, type_, told, sdpVars, channelVars, destroyer>>

\* The server's event ev reaches the network thread of c.
Receives(c, ev) ==
    /\ socket[c] = "open"
    /\ ev \notin told[c]
    /\ told' = [told EXCEPT ![c] = @ \cup {ev}]
    /\ UNCHANGED <<uiVars, app, socket, channelVars, destroyer>>

set_as_caller(c) ==
    /\ Receives(c, "role")
    /\ type_' = [type_ EXCEPT ![c] = "Caller"]
    /\ UNCHANGED sdpVars

set_as_callee(c) ==
    /\ Receives(c, "role")
    /\ type_' = [type_ EXCEPT ![c] = "Callee"]
    /\ UNCHANGED sdpVars

\* CreateOffer takes a reference to the client until it has reported.
create_offer(c) == creating' = [creating EXCEPT ![c] = @ \cup {"offer"}]

\* Mutant: no test of type_.
ReadyForAll(c) ==
    /\ Receives(c, "ready")
    /\ create_offer(c)
    /\ UNCHANGED <<type_, local, remote>>
\* The caller starts an offer.
ready(c) ==
    /\ Receives(c, "ready")
    /\ IF type_[c] = "Caller" THEN create_offer(c) ELSE UNCHANGED creating
    /\ UNCHANGED <<type_, local, remote>>

\* A description that does not parse is refused; one that cannot be set is not
\* noticed, and CreateAnswer is called all the same.
receive_offer_create_answer(c) ==
    \/ UNCHANGED <<creating, remote>>
    \/ /\ remote' \in {remote, [remote EXCEPT ![c] = TRUE]}
       /\ creating' = [creating EXCEPT ![c] = @ \cup {"answer"}]

offer(c) ==
    /\ Receives(c, "offer")
    /\ IF type_[c] = "Callee" THEN receive_offer_create_answer(c)
                              ELSE UNCHANGED <<creating, remote>>
    /\ UNCHANGED <<type_, local>>

\* The library takes an answer only after a local offer.
receive_answer(c) ==
    \/ UNCHANGED remote
    \/ local[c] /\ remote' = [remote EXCEPT ![c] = TRUE]

answer(c) ==
    /\ Receives(c, "answer")
    /\ IF type_[c] = "Caller" THEN receive_answer(c) ELSE UNCHANGED remote
    /\ UNCHANGED <<type_, creating, local>>

------------------------------------------------------------------------------
(* Callbacks on the client's signaling thread *)

\* A description reported to the client gives up its reference: if it was the
\* last one, the signaling thread runs the destructor.
Release(c, d) ==
    /\ d \in creating[c]
    /\ creating' = [creating EXCEPT ![c] = @ \ {d}]
    /\ destroyer' = IF AppHolds(c) \/ creating[c] # {d} THEN destroyer
                    ELSE [destroyer EXCEPT ![c] = "signaling"]

\* The local description is set, or that fails and is only logged.  An answer
\* is made for a remote offer.
OnSuccess(c, d) ==
    /\ d = "answer" => remote[c]
    /\ local' \in {local, [local EXCEPT ![c] = TRUE]}
    /\ Release(c, d)
    /\ UNCHANGED <<uiVars, app, socket, type_, told, remote, channelVars>>

OnFailure(c, d) ==
    /\ Release(c, d)
    /\ UNCHANGED <<uiVars, app, socket, type_, told, local, remote, channelVars>>

OnDataChannel(c) ==
    /\ Up(c)
    /\ data_channel_[c] = "own"
    /\ data_channel_' = [data_channel_ EXCEPT ![c] = "announced"]
    /\ Notify(c, {"opening", "reply"}, "loop")
    /\ UNCHANGED <<uiVars, socket, type_, told, sdpVars, awaiting, destroyer>>

\* The callee responds to the caller's messages, the caller gets one response
\* to each of its own; both notify.
OnMessage(c) ==
    /\ Up(c)
    /\ type_[c] = "Callee" \/ awaiting[c]
    /\ awaiting' = [awaiting EXCEPT ![c] = FALSE]
    /\ Notify(c, {"opening", "reply"}, "loop")
    /\ UNCHANGED <<uiVars, socket, type_, told, sdpVars, data_channel_, destroyer>>

------------------------------------------------------------------------------
(* The application thread: app_thread_func *)

AppGoes(c, from, to) ==
    /\ app[c] = from
    /\ app' = [app EXCEPT ![c] = to]
    /\ UNCHANGED <<uiVars, type_, told>>

\* init_webrtc creates a channel of the client's own.
init_webrtc(c) == data_channel_' = [data_channel_ EXCEPT ![c] = "own"]

\* The client, init_webrtc, init_signaling and connect_sync up to its lock.
Begin(c) ==
    /\ AppGoes(c, "begin", "calling")
    /\ init_webrtc(c)
    /\ socket' = [socket EXCEPT ![c] = "pending"]
    /\ UNCHANGED <<sdpVars, awaiting, destroyer>>

\* connect_sync from the lock on: a wait without a predicate.
connect_sync(c) ==
    /\ AppGoes(c, "calling", "connecting")
    /\ UNCHANGED <<socket, sdpVars, channelVars, destroyer>>

wait_for_data_channel_connection(c) ==
    /\ AppGoes(c, "connected", IF connected_(c) THEN "opening" ELSE "loop")
    /\ UNCHANGED <<socket, sdpVars, channelVars, destroyer>>

\* A message is answered, or refused by Send or lost with the peer.
send_message_sync(c) ==
    /\ awaiting' \in {awaiting} \cup (IF Up(c) THEN {[awaiting EXCEPT ![c] = TRUE]} ELSE {})
    /\ AppGoes(c, "loop", "reply")

\* Mutant: the loop does not read system_on.
KeepsOnUntold(c) == connected_(c)
\* The test of the loop.
KeepsOn(c) == system_on /\ connected_(c)

\* The loop: the caller sends and waits, the callee sleeps.
Loop(c) ==
    /\ IF KeepsOn(c) THEN type_[c] = "Caller" /\ send_message_sync(c)
                     ELSE AppGoes(c, "loop", "stopping") /\ UNCHANGED awaiting
    /\ UNCHANGED <<socket, sdpVars, data_channel_, destroyer>>

\* Mutant: the listeners are cleared but the socket is not closed.
ClearsListeners(c) ==
    /\ AppGoes(c, "stopping", "leaving")
    /\ UNCHANGED <<socket, sdpVars, channelVars, destroyer>>
\* sync_close joins the network thread: no listener runs from here on.
deinit_signaling(c) ==
    /\ AppGoes(c, "stopping", "leaving")
    /\ socket' = [socket EXCEPT ![c] = "closed"]
    /\ UNCHANGED <<sdpVars, channelVars, destroyer>>

\* app_thread_func returns and gives up its reference.
Return(c) ==
    /\ AppGoes(c, "leaving", "returned")
    /\ destroyer' = IF creating[c] # {} THEN destroyer
                    ELSE [destroyer EXCEPT ![c] = "application"]
    /\ UNCHANGED <<socket, sdpVars, channelVars>>

\* A wait returns although nobody notified.
SpuriousWakeup(c) ==
    /\ \/ AppGoes(c, "connecting", "connected")
       \/ AppGoes(c, "opening", "loop")
       \/ AppGoes(c, "reply", "loop")
    /\ UNCHANGED <<socket, sdpVars, channelVars, destroyer>>

------------------------------------------------------------------------------
Activity == initNative \/ initNative_on \/ deinitNative \/ pthread_join

Network(c) ==
    \/ on_connected(c) \/ on_fail(c) \/ on_close(c)
    \/ set_as_caller(c) \/ set_as_callee(c) \/ ready(c) \/ offer(c) \/ answer(c)

Signaling(c) ==
    \/ \E d \in {"offer", "answer"} : OnSuccess(c, d) \/ OnFailure(c, d)
    \/ OnDataChannel(c) \/ OnMessage(c)

Application(c) ==
    \/ Begin(c) \/ connect_sync(c) \/ wait_for_data_channel_connection(c)
    \/ Loop(c) \/ deinit_signaling(c) \/ Return(c)

Next ==
    \/ Activity
    \/ \E c \in Clients : Network(c) \/ Signaling(c) \/ Application(c) \/ SpuriousWakeup(c)

Spec == Init /\ [][Next]_vars

\* Threads run when they can, and a response under way arrives.  The user, the
\* server and the network may do nothing for ever.
Fairness ==
    /\ WF_vars(initNative_on) /\ WF_vars(pthread_join)
    /\ \A c \in Clients : WF_vars(Application(c)) /\ WF_vars(OnMessage(c))

FairSpec == Spec /\ Fairness

------------------------------------------------------------------------------
\* What deinitNative promises its caller: the application thread of every
\* activity but the running one has returned.
Joined ==
    /\ ui # "idle" => current > 0
    /\ ui = "running" => system_on
    /\ \A c \in Clients :
        /\ app[c] = "none" <=> c > current
        /\ c <= current => app[c] = "returned" \/ (c = current /\ ui # "idle")

\* What the server told a client decides what is under way and what is set.
Told ==
    \A c \in Clients :
        /\ type_[c] = "Undefined" <=> "role" \notin told[c]
        /\ "offer" \in creating[c] => type_[c] = "Caller" /\ "ready" \in told[c]
        /\ "answer" \in creating[c] => type_[c] = "Callee" /\ "offer" \in told[c]
        /\ local[c] =>
            /\ creating[c] = {}
            /\ \/ type_[c] = "Caller" /\ "ready" \in told[c]
               \/ type_[c] = "Callee" /\ "offer" \in told[c]
        /\ data_channel_[c] = "announced" => local[c]

\* A client nobody refers to has been destroyed, and no other has; it is not
\* touched before its thread makes it, nor by a listener while it is given up.
Lifetime ==
    \A c \in Clients :
        /\ destroyer[c] # "nobody" <=> app[c] = "returned" /\ creating[c] = {}
        /\ app[c] \in {"none", "begin"} =>
            socket[c] = "idle" /\ told[c] = {} /\ data_channel_[c] = "null"
        /\ app[c] \in {"leaving", "returned"} => socket[c] = "closed"

\* deinitNative leaves no client behind whose channel was announced: its
\* application thread destroys it.  A client may outlive its thread, and be
\* destroyed by the signaling thread the destructor joins, only when the thread
\* left before the channel was there.
DeinitDestroys ==
    \A c \in Clients :
        app[c] = "returned" /\ data_channel_[c] = "announced" => destroyer[c] = "application"

\* The inductive invariant behind the properties of the application.
PhoneInv == TypeOK /\ Joined /\ Told /\ Lifetime /\ DeinitDestroys

\* An application thread gives up a connected client only when deinitNative told
\* it to, or when it is so early that initNative has not yet set system_on.
StopsOnlyWhenTold ==
    [][\A c \in Clients :
        app[c] = "loop" /\ app'[c] = "stopping" =>
            ~connected_(c) \/ ui \in {"starting", "joining"}]_vars

\* onDestroy returns, unless the application thread waits, for ever, for a
\* notify that is not coming: no response is under way to it.
Stranded(c) == app[c] \in Waits /\ ~awaiting[c]

DeinitReturns ==
    ui = "joining" ~> (ui = "idle" \/ [](\E c \in Clients : c = current /\ Stranded(c)))

\* A client of an activity as ClientEvents sees it.
Events == INSTANCE ClientEvents WITH
    connection <- [c \in Clients |-> TRUE],
    socket <- [c \in Clients |-> IF socket[c] = "idle" THEN "pending" ELSE socket[c]]

\* Nothing but signaling leads to a role or a description: no activity that ends, no
\* thread and no callback repeats or adds what the server told the client.
SignalingOnly == Events!Spec

=============================================================================
