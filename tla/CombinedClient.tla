---------------------------- MODULE CombinedClient ----------------------------
(***************************************************************************)
(* The combined client, peer_combined_client.cpp, from what init_webrtc    *)
(* makes of it to its destructor: which pointers its threads find null.    *)
(*                                                                         *)
(* main ignores the result of init_webrtc and goes on with whatever was    *)
(* made.  It gives up its reference when signaling has closed, but the     *)
(* peers' connection may live on: until the destructor has closed it,      *)
(* WebRTC's signaling thread still calls OnDataChannel and OnMessage.      *)
(*                                                                         *)
(* The server gives a client one role and at most one each of ready, offer *)
(* and answer, as SignalingSession shows.  When main returns the process   *)
(* ends.                                                                   *)
(***************************************************************************)
EXTENDS Naturals

VARIABLES
    main,             \* where main is, the destructor's steps included
    made,             \* what init_webrtc made
    socket,           \* the connection of sio_client_ to the server
    type_,            \* type_
    told,             \* what the server has sent
    creating,         \* descriptions under way, each with a reference to the client
    local,            \* the local description is set
    remote,           \* the remote description is set
    peer_connection_, \* peer_connection_
    data_channel_,    \* data_channel_: null, the client's own or an announced one
    capturer,         \* the capturer: none, held, or the thread it was destroyed on
    fault             \* the undefined behaviour the client has run into

vars == <<main, made, socket, type_, told, creating, local, remote,
          peer_connection_, data_channel_, capturer, fault>>
sdpVars == <<creating, local, remote>>
webrtcVars == <<made, peer_connection_, data_channel_, capturer>>

Waits == {"connecting", "opening", "reply"}
Destructor == {"closing", "closed", "cleared", "quiet"}

\* What is made when init_webrtc returns: it stops at the first failure.
Prefixes == {{}, {"connection"}, {"connection", "channel"},
             {"connection", "channel", "audio"},
             {"connection", "channel", "audio", "video"}}

\* Every variable has its type.
TypeOK ==
    /\ main \in Waits \cup Destructor
                \cup {"start", "calling", "connected", "loop", "stopping", "leaving", "done"}
    /\ made \in Prefixes
    /\ socket \in {"idle", "pending", "open", "closed"}
    /\ type_ \in {"Undefined", "Caller", "Callee"}
    /\ told \in SUBSET {"role", "ready", "offer", "answer"}
    /\ creating \in SUBSET {"offer", "answer"}
    /\ local \in BOOLEAN
    /\ remote \in BOOLEAN
    /\ peer_connection_ \in {"null", "open"}
    /\ data_channel_ \in {"null", "own", "announced"}
    /\ capturer \in {"none", "held", "main", "signaling"}
    /\ fault \in {"none", "connection", "channel", "thread"}

Init ==
    /\ main = "start"
    /\ made = {}
    /\ socket = "idle"
    /\ type_ = "Undefined"
    /\ told = {}
    /\ creating = {}
    /\ local = FALSE
    /\ remote = FALSE
    /\ peer_connection_ = "null"
    /\ data_channel_ = "null"
    /\ capturer = "none"
    /\ fault = "none"

\* The process runs: main has not returned and nothing undefined has happened.
Running == main # "done" /\ fault = "none"

connected_ == socket = "open"

\* notify_all on msg_cond_, or on data_channel_cond_: the waits it ends.
Notify(waits, next) == main' = IF main \in waits THEN next ELSE main

\* p is used: step is what follows unless it is null.
Use(p, nullFault, step) ==
    IF p = "null" THEN fault' = nullFault /\ UNCHANGED <<main, sdpVars, webrtcVars>>
                  ELSE fault' = fault /\ step

------------------------------------------------------------------------------
(* The signaling connection *)

on_connected ==
    /\ Running /\ socket = "pending"
    /\ socket' = "open"
    /\ Notify({"connecting"}, "connected")
    /\ UNCHANGED <<type_, told, sdpVars, webrtcVars, fault>>

on_fail ==
    /\ Running /\ socket = "pending"
    /\ socket' = "closed"
    /\ Notify({"connecting"}, "connected")
    /\ UNCHANGED <<type_, told, sdpVars, webrtcVars, fault>>

on_close ==
    /\ Running /\ socket = "open"
    /\ socket' = "closed"
    /\ UNCHANGED <<main, type_, told, sdpVars, webrtcVars, fault>>

\* The server's event ev reaches the network thread.
Receives(ev) ==
    /\ Running /\ socket = "open"
    /\ ev \notin told
    /\ told' = told \cup {ev}
    /\ UNCHANGED <<main, socket, webrtcVars>>

set_as_caller ==
    /\ Receives("role")
    /\ type_' = "Caller"
    /\ UNCHANGED <<sdpVars, fault>>

set_as_callee ==
    /\ Receives("role")
    /\ type_' = "Callee"
    /\ UNCHANGED <<sdpVars, fault>>

\* CreateOffer and CreateAnswer take a reference until they have reported.
create_offer ==
    Use(peer_connection_, "connection",
        creating' = creating \cup {"offer"} /\ UNCHANGED <<local, remote>>)

\* Mutant: no test of type_.
ReadyForAll ==
    /\ Receives("ready")
    /\ create_offer
    /\ UNCHANGED type_
\* The caller starts an offer.
ready ==
    /\ Receives("ready")
    /\ IF type_ = "Caller" THEN create_offer ELSE UNCHANGED <<sdpVars, fault>>
    /\ UNCHANGED type_

\* A description that does not parse touches no connection; one that cannot be
\* set is not noticed, and CreateAnswer is called all the same.
receive_offer_create_answer ==
    \/ UNCHANGED <<sdpVars, fault>>
    \/ Use(peer_connection_, "connection",
           /\ remote' \in {remote, TRUE}
           /\ creating' = creating \cup {"answer"}
           /\ UNCHANGED local)

offer ==
    /\ Receives("offer")
    /\ IF type_ = "Callee" THEN receive_offer_create_answer ELSE UNCHANGED <<sdpVars, fault>>
    /\ UNCHANGED type_

\* The library takes an answer only after a local offer.
receive_answer ==
    \/ UNCHANGED <<sdpVars, fault>>
    \/ Use(peer_connection_, "connection",
           /\ UNCHANGED remote \/ (local /\ remote' = TRUE)
           /\ UNCHANGED <<creating, local>>)

answer ==
    /\ Receives("answer")
    /\ IF type_ = "Caller" THEN receive_answer ELSE UNCHANGED <<sdpVars, fault>>
    /\ UNCHANGED type_

\* Only a candidate that parses reaches the connection.
add_ice_candidate == Use(peer_connection_, "connection", UNCHANGED <<main, sdpVars, webrtcVars>>)

\* Candidates come from the peer of a paired client, in any number.
ice ==
    /\ Running /\ socket = "open" /\ "role" \in told
    /\ add_ice_candidate
    /\ UNCHANGED <<socket, type_, told>>

------------------------------------------------------------------------------
(* Callbacks on WebRTC's signaling thread, until the connection is closed *)

Reported(d) ==
    /\ Running /\ d \in creating
    /\ creating' = creating \ {d}
    /\ UNCHANGED <<main, socket, type_, told, remote, webrtcVars>>

\* OnSuccess sets the local description, or that fails and is only logged.  An
\* answer is made for a remote offer.
OnSuccess(d) ==
    /\ Reported(d)
    /\ d = "answer" => remote
    /\ IF peer_connection_ = "null" THEN fault' = "connection" /\ UNCHANGED local
                                    ELSE local' \in {local, TRUE} /\ UNCHANGED fault

OnFailure(d) == Reported(d) /\ UNCHANGED <<local, fault>>

\* The peers have each other's description: their channels open.
Up == Running /\ local /\ remote /\ peer_connection_ = "open"

\* A peer announces its channel, at most once.  The destructor does not take
\* data_channel_mutex_: it may clear the pointer between the two uses of it.
OnDataChannel ==
    /\ Up
    /\ data_channel_ # "announced"
    /\ \/ data_channel_' = "announced" /\ UNCHANGED fault
       \/ main = "closed" /\ data_channel_' = "null" /\ fault' = "channel"
    /\ Notify({"opening", "reply"}, "loop")
    /\ UNCHANGED <<made, peer_connection_, capturer, socket, type_, told, sdpVars>>

\* A message comes on either channel; the callee answers on data_channel_.
OnMessage ==
    /\ Up
    /\ IF type_ = "Callee" /\ data_channel_ = "null"
       THEN fault' = "channel" /\ UNCHANGED main
       ELSE Notify({"opening", "reply"}, "loop") /\ UNCHANGED fault
    /\ UNCHANGED <<webrtcVars, socket, type_, told, sdpVars>>

------------------------------------------------------------------------------
(* main *)

Main(from, to) ==
    /\ Running /\ main = from
    /\ main' = to
    /\ UNCHANGED <<type_, told, sdpVars>>

\* Mutant: the client has no channel of its own.
NoFirstChannel(m) == "null"
\* The channel the client creates.
FirstChannel(m) == IF "channel" \in m THEN "own" ELSE "null"

\* The capturer of the first device that works; it goes here if its track is not
\* added.
CapturerOf(m) ==
    IF "video" \in m THEN {"held"} ELSE IF "audio" \in m THEN {"none", "main"} ELSE {"none"}

\* init_webrtc: the connection, the client's own channel, the audio track, the
\* capturer and its track.
init_webrtc ==
    \E m \in Prefixes :
        /\ made' = m
        /\ peer_connection_' = IF "connection" \in m THEN "open" ELSE "null"
        /\ data_channel_' = FirstChannel(m)
        /\ capturer' \in CapturerOf(m)

\* main up to connect_sync's lock, whatever init_webrtc returned.
Begin ==
    /\ Main("start", "calling")
    /\ init_webrtc
    /\ socket' = "pending"
    /\ UNCHANGED fault

connect_sync == Main("calling", "connecting") /\ UNCHANGED <<socket, webrtcVars, fault>>

wait_for_data_channel_connection ==
    /\ Main("connected", IF connected_ THEN "opening" ELSE "loop")
    /\ UNCHANGED <<socket, webrtcVars, fault>>

\* The caller sends and waits, the callee sleeps.
send_message_sync ==
    /\ Running /\ main = "loop" /\ connected_ /\ type_ = "Caller"
    /\ Use(data_channel_, "channel", main' = "reply" /\ UNCHANGED <<sdpVars, webrtcVars>>)
    /\ UNCHANGED <<socket, type_, told>>

Stop ==
    /\ Main("loop", "stopping")
    /\ ~connected_
    /\ UNCHANGED <<socket, webrtcVars, fault>>

\* Mutant: the socket is not closed.
ClearsListeners == Main("stopping", "leaving") /\ UNCHANGED <<socket, webrtcVars, fault>>
\* sync_close joins the network thread: no listener runs from here on.
deinit_signaling ==
    /\ Main("stopping", "leaving")
    /\ socket' = "closed"
    /\ UNCHANGED <<webrtcVars, fault>>

\* main gives up its reference.  If it was the last one the destructor runs.
Return ==
    /\ Main("leaving", IF creating = {} THEN "closing" ELSE "done")
    /\ UNCHANGED <<socket, webrtcVars, fault>>

\* A wait returns although nobody notified.
SpuriousWakeup ==
    /\ \/ Main("connecting", "connected")
       \/ Main("opening", "loop")
       \/ Main("reply", "loop")
    /\ UNCHANGED <<socket, webrtcVars, fault>>

------------------------------------------------------------------------------
(* The destructor *)

\* data_channel_->Close(), when there is one.
CloseChannel ==
    /\ Main("closing", IF data_channel_ = "null" THEN "cleared" ELSE "closed")
    /\ UNCHANGED <<socket, webrtcVars, fault>>

ClearChannel ==
    /\ Main("closed", "cleared")
    /\ data_channel_' = "null"
    /\ UNCHANGED <<socket, made, peer_connection_, capturer, fault>>

\* The connection is closed and given up; with it go its senders, their tracks
\* and the capturer, on the thread the connection belongs to.
CloseConnection ==
    /\ Main("cleared", "quiet")
    /\ peer_connection_' = "null"
    /\ capturer' = IF capturer = "held" THEN "signaling" ELSE capturer
    /\ UNCHANGED <<socket, made, data_channel_, fault>>

\* The signaling thread is stopped and freed; a channel announced after
\* ClearChannel is given up after the thread it belongs to.
StopThreads ==
    /\ Main("quiet", "done")
    /\ fault' = IF data_channel_ = "null" THEN fault ELSE "thread"
    /\ UNCHANGED <<socket, webrtcVars>>

------------------------------------------------------------------------------
Network ==
    \/ on_connected \/ on_fail \/ on_close
    \/ set_as_caller \/ set_as_callee \/ ready \/ offer \/ answer \/ ice

Signaling ==
    \/ \E d \in {"offer", "answer"} : OnSuccess(d) \/ OnFailure(d)
    \/ OnDataChannel \/ OnMessage

Application ==
    \/ Begin \/ connect_sync \/ wait_for_data_channel_connection \/ send_message_sync
    \/ Stop \/ deinit_signaling \/ Return
    \/ CloseChannel \/ ClearChannel \/ CloseConnection \/ StopThreads

Next == Network \/ Signaling \/ Application \/ SpuriousWakeup

Spec == Init /\ [][Next]_vars

------------------------------------------------------------------------------
\* The pointers follow what was made, until the destructor clears them.
Pointers ==
    /\ main = "start" => made = {} /\ data_channel_ = "null" /\ socket = "idle"
                        /\ told = {} /\ fault = "none"
    /\ peer_connection_ = "open" => "connection" \in made
    /\ "connection" \in made /\ main \notin {"quiet", "done"} => peer_connection_ = "open"
    /\ "channel" \in made /\ data_channel_ = "null" =>
            main \in {"cleared", "quiet", "done"} \/ (main = "closed" /\ fault = "channel")
    /\ main = "quiet" => peer_connection_ = "null"
    /\ data_channel_ = "announced" => local /\ remote
    /\ main \in {"cleared", "quiet"} => data_channel_ # "own"
    /\ capturer = "held" => "video" \in made /\ peer_connection_ = "open"

\* What is under way and what is set needs a connection and a role.
Negotiation ==
    /\ type_ = "Undefined" <=> "role" \notin told
    /\ creating # {} \/ local => "connection" \in made
    /\ "offer" \in creating => type_ = "Caller" /\ "ready" \in told
    /\ "answer" \in creating => type_ = "Callee" /\ "offer" \in told
    /\ main \in Destructor => creating = {}
    /\ main \in Destructor \cup {"leaving", "done"} => socket = "closed"

\* A client whose connection was made never uses a null peer_connection_: the
\* destructor waits for the descriptions under way, which hold references, and
\* for the listeners, which sync_close ends.  Without a connection the first
\* listener that needs it crashes, since main ignores init_webrtc's result.
NullConnectionOnlyIfRefused == fault = "connection" => "connection" \notin made

\* A client whose channel was made runs into nothing undefined before its
\* destructor, and there only if signaling closed while the peers are connected:
\* between Close and the end of the connection WebRTC still calls it.
SafeUntilDestroyed ==
    "channel" \in made /\ fault # "none" =>
        /\ main \in {"closed", "cleared", "done"}
        /\ main = "cleared" => type_ = "Callee"
        /\ local /\ remote /\ socket = "closed"

\* The inductive invariant of the combined client.
CombinedInv ==
    TypeOK /\ Pointers /\ Negotiation /\ NullConnectionOnlyIfRefused /\ SafeUntilDestroyed

\* The client as the only one of ClientEvents.
Only(v) == [c \in {"client"} |-> v]

Events == INSTANCE ClientEvents WITH
    Clients <- {"client"},
    connection <- Only("connection" \in made),
    socket <- Only(IF socket = "idle" THEN "pending" ELSE socket),
    type_ <- Only(type_), told <- Only(told), creating <- Only(creating),
    local <- Only(local), remote <- Only(remote)

\* Nothing but signaling leads to a role or a description, whatever init_webrtc
\* made and while the destructor runs.
SignalingOnly == Events!Spec

=============================================================================
