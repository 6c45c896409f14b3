# TLA+ specifications of webrtc_samples

Formal models of the peer clients and the signaling server of this repository:
what they do concurrently, what can be lost or come too early, and what holds
nevertheless. The modules are model-checked with TLC on small instances; the
theorems are proved with TLAPS for every value of the constants.

Paths below are relative to `src/`. `DC` is
`cpp/peer_clients/src/peer_datachannel_client.cpp`, `PC` is
`cpp/peer_clients/include/peer_client.hpp`, `SS` is `python3/signaling_server.py`,
`AU` is `cpp/peer_clients/src/peer_audio_client.cpp`, `VI` is
`cpp/peer_clients/src/peer_video_client.cpp`, `CO` is
`cpp/peer_clients/src/peer_combined_client.cpp`, `CLI` is
`cpp/datachannel/peer_datachannel.cpp`, `AD` is
`android/peer_datachannel_client/src/main/cpp/peer_datachannel_client.cpp`, `PH` is
`android/common/include/peer_client.h`.

## The system

Two clients want a WebRTC peer connection. Each opens a socket.io connection to
the signaling server, which names the first one caller and the second callee,
tells both `ready`, and from then on relays to each what the other emits: the
caller's offer, the callee's answer, and the ICE candidates of both. Once the
peer connection stands they talk without the server.

| Component | Source | State | Operations | Module |
|---|---|---|---|---|
| Signaling server | `SS` | `peers`, `flag_peer_connection`, the calls its green threads block in | connect, on_ice, on_sdp, disconnect, get_counter_sid | `SignalingServer` |
| socket.io connections | library | a FIFO queue each way, each end's idea of the link | | `SignalingNet` |
| Peer client, signaling | `PC`, `DC` | `type_`, `connected_`, local and remote description, candidates | on_connected, on_fail, on_close; listeners set-as-caller, set-as-callee, ready, offer, answer, ice; OnSuccess, OnFailure, OnIceCandidate | `PeerSignaling` |
| Peer client, main and data channel | `PC`, `DC` | where main is, the two channels, `data_channel_`, messages under way, `count` | connect_sync, wait_for_data_channel_connection, send_message_sync, OnDataChannel, OnMessage, the loop and the teardown of main | `DataChannel` |
| Peer client, threads and mutexes | `DC`, `PC` | where each thread is, who holds `msg_mutex_` and `data_channel_mutex_` | every lock, unlock, wait and blocking call | `ClientLocks` |
| Combined client | `CO` | as the data-channel client, what `init_webrtc` made, `peer_connection_`, the capturer | as the data-channel client; `init_webrtc`, the destructor | `CombinedClient` |
| Audio client, PulseAudio | `peer_audio_client.cpp` | the device lists, `pa_context_initialized_` | list_pa_audio_devices, init_pa_audio_devices and their callbacks | `AudioDevices` |
| Video client, renderers | `peer_video_client.cpp` | two renderers with an image and a mutex each | OnFrame, OnAddTrack, draw handlers, deinit_webrtc | `VideoClient` |
| Data-channel command line | `CLI` | the command and its lines, the connection, its channel, the candidate list | sdp1..3, ice1, ice2, send, quit; the observers | `CommandLine` |
| Android data-channel client | `AD`, `PH` | the UI thread, `system_on`, each client's thread, references and descriptions | initNative, deinitNative, app_thread_func; listeners and observers | `AndroidDataChannel` |
| Android audio and video clients | `android/` | as the data-channel client | as the data-channel client | none |

### How the parts interact, and what is hard

- **Server and clients** exchange packets. `sio.call` blocks a green thread until
  the counter peer acknowledges or the library raises TimeoutError (60 s), so
  calls of one client overlap: a candidate is relayed while its description is
  still unanswered. Clients may vanish at any moment and the server never
  forgets a peer.
- **Within a client** three threads meet: `main`, the network thread of
  `sio_client_` (listeners and acks, under `msg_mutex_`), and WebRTC's signaling
  thread (observers, under `data_channel_mutex_` or under no lock). `type_` is
  written by one and read by all.
- **Waits** (`connect_sync`, `wait_for_data_channel_connection`,
  `send_message_sync`) use condition variables without a predicate: a notify that
  comes early is lost, a wakeup without notify is taken at its word.
- **The audio client's main and PulseAudio's mainloop thread** share the device
  lists and the state of the last operation. main never takes the mainloop's lock.
- **The video client** has a thread per source of frames, main in GTK's loop, the
  signaling thread that makes the remote renderer, and the network thread; a mutex
  in each renderer is the only lock.
- **The command line program** has no signaling server: the user carries
  descriptions and candidates. main and WebRTC's signaling thread share the
  connection, the channel, the heading and the list of candidates without a lock,
  and the user may type any command at any time.
- **An Android client** has two more: the UI thread, which starts the application
  thread in `onCreate` and joins it in `onDestroy`, and the application thread
  itself, which owns the client. CreateOffer and CreateAnswer hold references to
  the client, so it may outlive its thread; activities follow one another.
- **The end of the combined client** runs on main while WebRTC's signaling thread
  still calls the observers, until Close of the connection has returned.
- **Failures are mostly ignored**: `Send`'s result, `init_webrtc`'s result, the
  observers of SetLocalDescription and SetRemoteDescription that only log.

### What makes each component correct

- Server: at most two peers, in order; roles follow that order; calls go only
  between the two; a sender is told ok only of what was handled.
- Client signaling: a description arrives at a client that expects it, a
  candidate never before the description; one exchange per pair; it completes.
- Data channel: at most one message under way; the caller's wait cannot miss its
  notify; the count is of messages sent; the clients stop when signaling closes.
- Threads: no set of threads waits for itself.
- PulseAudio: the device that is chosen exists; a list is read when it is whole;
  a connection that is lost is noticed.
- Video: what is painted is a whole frame, and the last one is; what a callback or
  a listener points to still exists; main ends.
- Command line: a candidate is printed once and not lost, a description under its
  own heading; a command or an observer finds the connection it needs, or none
  that is gone.
- Combined: no thread uses a pointer that init_webrtc did not set or that the
  destructor has cleared.
- Android: a client is stopped when its activity is, and only then; it is
  destroyed once nobody refers to it, by the thread that owns it; onDestroy returns.

## The modules

```
SignalingNet <- SignalingServer <-+
             <- PeerSignaling   <-+- SignalingSession <- MCSignalingSession
Rendezvous   <- (INSTANCE)  ------+       ^
                                   SignalingHistory <- MCSignalingHistory, SignalingProofs
ClientEvents <- (INSTANCE)  ------  SignalingHistory, AndroidDataChannel, CombinedClient
DataChannel <- DataChannelProofs       ClientLocks <- ClientLocksProofs
AudioDevices <- MCAudioDevices, AudioProofs
VideoClient  <- MCVideoClient, VideoProofs
CommandLine  <- CommandLineProofs
AndroidDataChannel <- AndroidProofs    CombinedClient <- CombinedProofs
```

`AndroidDataChannel` and `CombinedClient` model one end, without a peer or a
server: `told` keeps which events have come, and an event comes once. What they
rely on is a module of its own, **`ClientEvents`**: a client gets one role, and at
most one each of ready, offer and answer, and nothing else leads to a description.
Three refinements tie the parts together:

- `SignalingHistory` implements `ClientEvents` (`ToldOnce`): the server and the
  other clients do no more to a client than `ClientEvents` says. `SignalingHistory`
  is `SignalingSession` with the history variable `told`.
- `AndroidDataChannel` and `CombinedClient` implement it too (`SignalingOnly`, in
  each): what they let happen is what signaling does.
- The theorems `NothingRefused` of both say the converse: whatever `ClientEvents`
  lets the server tell a client, its listeners take, so the models leave no event
  out (the combined client's as long as its connection is there).

**`SignalingNet`** (the network): packets, `up[c]` and `down[c]`, one FIFO queue
each way, and the two ends' views of the connection, `link[c]` at the client and
`online` at the server. A member of `Clients` is one run of a client program:
`init_signaling` sets the reconnect attempts to 0, so a run has one sid.

**`SignalingServer`** (`SS`): a handler is one action up to `sio.call` and one
after it, since green threads give way nowhere else. `Refuse` and `Admit` are
`connect` (57-93), `Relay` is the first half of `on_ice` and `on_sdp` (107-125),
including the ValueError of `get_counter_sid`, `CallReturns` the second half,
`CallTimesOut` the TimeoutError, `Disconnect` the handler that only logs while
the library forgets the sid. Events of one client are taken in order because the
library spawns a green thread for each and a spawned thread runs first come,
first served.

**`PeerSignaling`** (`PC` 24-92, `DC` 142-481): one action per listener and per
observer callback. A listener is one action because its calls into the peer
connection are proxied to WebRTC's signaling thread and return when that is
done; the description that CreateOffer or CreateAnswer makes comes later
(`creating`, then `OnSuccess` or `OnFailure`). `WebRtcFails` lets every call the
library makes of its own accord fail. `local`, `made` and `remote` hold which
kind of description is set, the contents are left out.

**`SignalingSession`** puts the three together and states the properties.
**`Rendezvous`** is what signaling promises, without packets: the first two to
arrive are paired, and offer, its taking, answer, its taking happen once, in
order, between these two. `PairSpec` says that every behaviour of the session is
one of `Rendezvous`, under the mapping `caller = peers[1]`, `callee = peers[2]`.

**`DataChannel`**: caller and callee together, from `connect_sync` to the end of
`main`. `pc[c]` is where main is; a critical section under
`data_channel_mutex_` is one action up to the wait that lets go of it. Both
clients create a channel in `init_webrtc` and each is announced the other's, so
there are two; `data_channel_[c]` is the one c sends on. `refused[c]` remembers
that the last Send, whose result the code drops, returned false. `sent` counts
what Send took, beside the `count` that main reports. The exchange of
descriptions is the single step `Negotiated`.

**`ClientLocks`**: the same client seen as three threads, two mutexes and
blocking calls. The calls of a peer connection run on the signaling thread and
the caller blocks until they are served; Send of a data channel runs, in the
M119 library that `README.md` checks out (lines 120, 188), on WebRTC's network
thread, which waits for nobody; `sync_close` joins the network thread of
`sio_client_`. A wait may return at any time. This module alone decides whether
listeners that hold `msg_mutex_` while they call, callbacks that lock
`data_channel_mutex_`, and main that holds it while sending, can wait in a ring.

**`AudioDevices`** (`AU` 421-471, 516-1209, 1321-1341): `main` before it starts
the client proper, and the thread of PulseAudio's mainloop. The requests that
`list_pa_audio_devices` (855-998) and `init_pa_audio_devices` (1074-1209) make one
after the other, each with its own copy of the same loop, are the sequence `todo`;
`op` is what main waits for, at first the context. `Connect` is everything up to
`pa_context_connect`, `MakeRequest` a request or its refusal by a context that is
not ready, `Await` and `Wait` the loop `while (... RUNNING)
pa_threaded_mainloop_wait`, `Read` the printing and the comparison of the id with
the size of the list, `Drain` and `Free` the end. The callbacks are an action each;
those for sources and sinks, which differ in what they print, are one. main does
not hold the lock the wait requires, so `Wait` either returns at once or blocks
until signalled: what the library does then is not defined.

**`VideoClient`** (`VI` 144-348, 596-753, 801-1018): the two renderers, each with
its picture (`width_`, `height_`, `image_`) and its mutex. `Frame` delivers a frame
to `OnFrame`, whose four steps are `SetSize`, `ResetImage`, `Convert` (up to the
unlock) and `IdleAdd`. On main, `draw_callback` is the idle callback, which has the
area drawn, and `draw_blank`, `draw_handler` and `paint` are the two draw handlers,
which differ only in the renderer. `OnAddTrack` makes the remote renderer, which
gets frames from then on, and `StartRemoteRenderer` stores it in
`remote_renderer_`: the draw handler may run in between. It happens once, since a
client sets one remote description (`PairSpec`) and each client of this repository
adds one video track. Deleting a renderer (`Stop`) waits until `OnFrame` has
returned, as WebRTC's RemoveSink does. `Interrupt` is SIGINT: the exception thrown
by the handler is caught, or ends the process. `fate` tells how a process died:
`null` is a listener's use of the cleared `peer_connection_`, `undefined` a
renderer deleted after WebRTC's threads.

**`CommandLine`** (`CLI` 34-506, and the same program in
`cpp/datachannel_nv_jetson`): main, with one action per command read in command
mode (`Sdp1`, `TakeParameter`, `Ice1`, `Quit`, `EndOfInput`), per line in text mode
(`Line`) and per command that a semicolon completes (`Sdp2`, `Sdp3`, `Ice2`,
`Send`). Where an observer can come in between, a command is several actions: the
loop of ice1 (`Ice1`, `ListIce`, `WriteIce`) and `ClearIce`; the making of a
connection (`NewConnection`, `NewChannel`, `AskOffer`, `SetOffer`, `AskAnswer`);
`Quit` up to Close and `Release`; `Return` and `Destroy` at the end of main. The
observers are `OnSuccess`, `OnFailure`, `OnIceCandidate`, `OnDataChannel`.
Connections are numbered by the command that made them; a candidate is the number
of its connection and how many were still to come. `fate` tells how the process
ended: `failed` is exit or an exception, `null` a null pointer, `undefined` an
observer that uses main's destroyed locals, or observers destroyed before the
connection. `shown` remembers each description printed, its heading, and how many
connections had been asked for by then. What is taken from the library: a request
for a description is answered once; a connection that is closed or given up
answers its requests first, and is quiet then. While the old connection is given up
the observer sets an old offer at the new one, which is already stored
(`NewConnection`). `push_back`, one pass of the loop and `clear` are each one step:
what the data race on the list's nodes may do is left out. A text is a description
when all its lines are, and is a list when its first line is one, where
picojson stops. `init` is taken to succeed.

**`AndroidDataChannel`** (`AD` 50-800, `PH`): `ui` is where the UI thread is in
`initNative` or `deinitNative`; `initNative` is one action up to `pthread_create`
and one after it (`initNative_on`), because it sets `system_on` last, while the new
thread may already run; `deinitNative` is split at `pthread_join`. There is a client
for each activity, and `app[c]` is where its application thread is, from `Begin`
(the client, `init_webrtc`, `init_signaling`) through the waits and the loop
(`Loop`) to `deinit_signaling` and `Return`. References are counted: the
application thread has one until it returns, and `creating[c]` holds the
descriptions under way, each with one. Whoever gives up the last runs the
destructor: `destroyer[c]` is that thread. `Receives` is an event of the server,
`on_connected`, `on_fail`, `on_close` the connection's callbacks, `OnSuccess`,
`OnFailure`, `OnDataChannel`, `OnMessage` the observers' on the signaling thread. The
ice listener and `OnIceCandidate` change none of this. `awaiting[c]` says that a
response to the caller's message is under way: a message that Send refused, or that
goes to a peer that is lost, has none.

**`CombinedClient`** (`CO` 110-730): one client as a process, for its pointers.
`init_webrtc` makes the connection, the channel, the audio track, the capturer and
its track, in this order, up to the first failure (`Prefixes`), and main goes on
whatever it returned. Every use of `peer_connection_` or `data_channel_` by a
listener, an observer or main goes through `Use`: a null pointer is a `fault`, which
ends the process. `Return` gives up main's reference; the steps of the destructor
are `CloseChannel`, `ClearChannel`, `CloseConnection` and `StopThreads`, and between
them `OnDataChannel` and `OnMessage` may run, until the connection is closed. If a
description is still under way at `Return` the client is left to the end of the
process. A channel announced after `ClearChannel` is given up by the member's
destructor when its thread has gone (`fault = "thread"`).

## The runs

| Run | Bounds | What it shows |
|---|---|---|
| `SignalingSafety` | 3 clients, 1 candidate each, every loss, timeout and WebRTC failure; symmetry in clients; 868,743 states | roles and calls agree (`SessionInv`), no description comes to a client that does not expect it (`NothingUnexpected`), an ok tells its sender that the other client took this candidate, or set this description or failed to set this very one (`AcceptedMeansHandled`), a candidate comes after its description and once (`CandidatesInOrder`), neither the exchange nor a candidate is lost between peers that stay connected (`ExchangeNeverLost`, `NoCandidateLost`), and the session implements `Rendezvous` (`PairSpec`) |
| `SignalingLiveness` | 2 clients, 1 candidate, no WebRTC failure of its own; 72,138 states | nothing comes before its time, each client is told everything once (`ToldOnce`), and the exchange completes |
| `SignalingRefusal` | 3 clients | a later client is refused as if two peers were connected when one has left (violation) |
| `DataChannelSteady` | no spurious wakeup, nothing early; 1,542 states | in step, counted right, answered for ever, stops |
| `DataChannelHazards` | all hazards on, up to 3 messages under way; 517,681 states | the wait of `send_message_sync` cannot miss its notify |
| `DataChannelCount` | spurious wakeups only | messages counted that were never sent (violation) |
| `ClientLocks` | none needed; 190 states | no ring of waiting threads |
| `AudioDevices` | ids -2..2, at most 2 devices of a kind, all failures; 13,086 states | the chosen device exists, lists are read whole, a lost connection ends the polling; the set-up returns unless a request is refused or a wait never ends |
| `VideoClient` | a frame of the camera and two of the peer, two sizes; 145,768 states | whole frames, callbacks with renderers; the last frame is painted, main ends, when the teardown is safe |
| `CommandLine` | 2 commands that make a connection, 2 candidates, parameters of 2 lines; 6,766,974 states | candidates printed once, headings, channels, null pointers, the end |
| `AndroidDataChannel` | 2 activities; 214,651 states | no connected client is stopped untold, a client with an announced channel is destroyed by its own thread, onDestroy returns unless the thread waits for what cannot come |
| `CombinedClient` | none needed; 5,587 states | which null pointers the threads can meet, and when |

### Why the bounds are enough

- *Clients.* Two pair; the third is the one who is refused. A fourth is refused
  in the same way as the third, and nothing distinguishes refused clients.
- *MaxIce = 1.* One candidate of each client is enough to have a description and
  a candidate of one sender, and candidates of both, under way at the same time.
  The order of several candidates of one sender is beyond this bound; that is what
  the theorems `CandidatesOrdered`, `NothingOnTheWayLost` and, for an ok for one of
  them, `AcceptedIsHandled` are for, which hold for any number.
- *MaxUnderWay* stops spurious wakeups once that many messages are under way.
  With it at 3 the caller has sent again, and again, without an answer.
- *MaxCount* is the number of messages between two reports, which the code
  decides by the clock (10 s); a report may come after any message.
- *Ids and MaxDevices.* With ids -2..2 and lists of 0, 1 and 2 there is an id
  inside, at the end of and past every list, the -1 that means none, and a
  negative id that is compared as a large number (`SizeRange` stands for 2^64).
- *Frames.* The second frame of a renderer may have the size of the first or
  another one, and may come while the first is drawn, or while its callback waits;
  a third meets the same states. The local renderer has the same code and gets one.

- *MaxAsked = 2, MaxIce = 2, MaxLines = 2.* The second connection meets the first
  one's late description, channel and candidates; a third would meet the second's
  in the same way, because a connection that is replaced answers before it goes.
  With two candidates there is one in the list and one to come, also while ice1
  runs; ice1 itself, send and the other commands are not bounded. Two lines make a
  text whose first line is of another kind than its second.

- *MaxStarts = 2.* With two activities a client that outlives its thread is there
  while the next starts and stops; only one activity exists at a time, and a third
  would meet what the second meets. The events of the server are bounded by what
  it sends, not by a constant.
- *CombinedClient* has no constants: its state space is the whole.

Deadlock checking is off for the clients: they end, and a client may also be left
waiting for ever, as listed below. `CommandLine` is checked for deadlock; `Over` is
what it does once the process has ended.

### Fairness

`SignalingSession.FairSpec`: a green thread that can run is run, the network
thread takes the packet it has, WebRTC's thread runs the callback it owes. A
timeout, a loss and a failure are never forced, and nobody is forced to connect.
`ExchangeCompletes` therefore says that two admitted peers either complete the
exchange or do not stay connected: a description or candidate is not held back
by a timeout, which only drops the answer to the sender.

`DataChannel.FairSpec`: main, the listeners and WebRTC's threads run when they
can. `Negotiated` is fair because `ExchangeCompletes` shows that peers who stay
connected complete their exchange. The steady run sets `EarlyNotify`,
`EarlyAnnounce` and `SpuriousWakeups` to FALSE: main reaches its waits before the
network answers. These are assumptions on timing which the code does not
enforce; the hazard run drops them all.

`AudioDevices.FairSpec`: main runs, and PulseAudio answers a request it has or
reports the connection lost. No loss is forced, and no wait is forced to return:
`Finishes` excepts a main that is asleep for ever.

`VideoClient.FairSpec`: each thread runs, and GTK serves every queued callback and
every area to be drawn. Nobody is forced to deliver frames, close the window or
interrupt. Locking is weakly fair: frames are apart by tens of milliseconds, so a
thread that waits for `mutex_` gets it.

`AndroidDataChannel.FairSpec`: the UI thread and each application thread run when
they can, and a response that is under way arrives (`OnMessage`). The user need
not end the activity, the server need not send anything, the connection need not
open or close; `DeinitReturns` is therefore about an `onDestroy` that was called, and
names the wait that can block it.

## What is proved

All theorems are for any set of clients, any bound on candidates, any number of
activities, any setting of the constants; the only assumptions are the named ones
of the modules (`SignalingAssumption`, `NobodyAssumption`, `DataChannelAssumption`,
`AudioAssumption`, `VideoAssumption`, `CommandLineAssumption`,
`MaxStartsAssumption`), which say that bounds are numbers and switches Boolean, and
that a negative int becomes a size_t larger than any list.

- **`SignalingProofs`** `TypeCorrect`: `TypeOK` is inductive as it stands.
  `RoleInvariant`: `Roles` and `OnlyPeersTalk` are not inductive; `SessionInvariant`
  is both invariants together. A role is learnt from a packet, so the packets
  under way must name the right place (`RolePackets`); the place must not change (`PeersInOrder`:
  at most two, all different, with the flag up exactly when there are two); a
  client must not be admitted twice (`ConnectsOnce`); and what is emitted comes
  from a client that has its role (`RoleFirst`). `RoleInv` is the conjunction,
  with one lemma per part and per group of actions. From it follow `RolesAgree`,
  `CallsBetweenPeers`, and the action property `RolesNeverChange`: the `type_`
  that `OnSuccess` and `OnMessage` read without `msg_mutex_` never changes once
  it is set, so the unlocked read can only see it unset or right.
  Three more invariants stand on `RoleInv`, each with one lemma per part and group of
  actions. `SdpInv`: between the two peers the exchange is at one of seven places
  (ready under way, offer being made, going up, going down, answer being made, ...)
  and what has been made and set is what belongs to that place; set-as-callee is
  ahead of the offer in the callee's queue. It gives `NeverUnexpected` and, with
  the map `made`, `remote`, `peers`, every step of `ImplementsRendezvous`: `Spec`
  implements `PairSpec`. `AcksInv`: an ok on its way from a client, on its way to the
  other, or delivered, stands for a call that was handled (`Accepted`): that candidate
  was added, or that description was set or is the one that `SetRemoteDescription`
  failed to set; what was handled stays so. It gives `AcceptedIsHandled`.
  `IceInv`: on the way up and on the way down a candidate has a
  description before it, or the other peer has met it already, or the way is broken
  and the candidate will not arrive; it gives `IceNeverEarly`. `WithoutFailures`
  has one more assumption, `~WebRtcFails`: then nothing fails, since by the
  invariants before it every description and candidate comes when it can be taken.
  Under the same assumption `AcceptedIsSet` needs no excuse: what was acknowledged
  with ok was set or added (`AllWell` leaves nothing unset).
  `NeverLost` (`LostInv`): while the two stay connected and the library does what it is
  asked, each of the seven places hands over to the next. The two that could drop
  the exchange are ready, which finds a caller because set-as-caller is ahead of it
  in the caller's queue (`CallerKnows`), and the answer, which finds its offer set
  because `local` is what was `made` (`Unfailed`).
  `CandidatesOrdered` and `NothingOnTheWayLost` (`CandInv`): that a queue is in order
  is not inductive, nor that none is missing in it. The invariant gives both queues
  at once: those on the way to the peer are numbered from the one after the last it
  was given, without a gap, up to some m (`OnWay`), and those on the way to the server
  from m + 1 on, up to the last that was gathered, or that was sent before the
  connection closed (`Behind`). Each step moves one of the three borders.
  `ImplementsClientEvents` (`HistoryInv`): an event that a client was told of cannot
  come again, since nothing of it is under way any more: the role packet was the only
  one (`RoleOnce`), ready is sent with the second peer and to nobody before, and the
  exchange is past the offer, or past the answer, for good (`StageMoves`: it only moves
  on).
- **`DataChannelProofs`** `DataChannelTypes`, `ChannelInvariant`,
  `NoMissedWakeup`: the wait cannot
  miss its notify because Send and wait are one critical section; the invariant
  `WaitInv` adds that a client's role is its own, that only the caller's main
  sends, that an end is open only after the connection came up, by which time
  both roles are set, so that whoever takes the caller's message does respond.
  `SteadyInStep` and `SteadyCount` assume the switches of the steady run (`Steady`) and
  hold also when the peer is lost: main is let out of its wait for a channel only
  by the callee's channel (`AnnouncedFirst`), so that no announcement is taken for a
  response later, and what is under way was taken by Send (`Counted`).
- **`ClientLocksProofs`** `Owners`, `NoDeadlock`: `OwnerInv`, which includes
  `TypeOK`, as the invariants of the next three modules do, says where each mutex
  is held. From it, the waits-for relation has no cycle: the signaling
  thread waits only for main (in a section that waits for nobody), the network
  thread waits for main or the signaling thread, and main waits for the network
  thread only when it holds nothing.
- **`AudioProofs`** `AudioInvariant`, `ChoiceExists`, `ListsReadWhole`,
  `LossIsNoticed`, for any ids and lists of any length. `ChosenExists` speaks of
  the request under way; what makes it inductive is that main compares the id with
  the list directly before (the fourth item of
  `Polling`, a part of `AudioInv`), that the request comes right after that list's (`InOrder`), and that
  nothing writes a list once it is read (`ListsFilled`: a list is empty until its
  answer comes and whole when that ends, and is asked for once). `LossIsNoticed`
  needs that the mainloop runs as long as the context is good, or a request was
  refused.
- **`VideoProofs`** `VideoInvariant`, `OnlyWholeFrames`, `OnlyNewerFrames`,
  `CallbacksHaveRenderers`, for frames of any sizes and number: `VideoInv` says who
  holds each mutex and that outside `SetSize` the image has the size the renderer
  claims. `OnlyNewerFrames` proves the action property `NeverOlder` with the invariant
  `Ages`: what is shown is no later than the image, except while `OnFrame` is at work on
  the image, when no draw handler can lock it. `SafeTeardown` proves `TeardownIsSafe`
  from an invariant of the teardown, `Quiet`, that holds when it begins under the
  stated condition and is kept by every step.
- **`CommandLineProofs`** `CommandLineInvariant` and the six properties of the run,
  for any number of commands, candidates and lines. The invariant relates what
  main and the observers share: the current connection is the last one asked for
  (`Connections`), the one open request is its (`Requests`), `data_channel` is its
  unless it answers an offer (`Channels`). `Candidates` carries `ListedOnce` and
  `LostInTheGap`: the list has no candidate twice and none that was printed, except,
  while ice1 runs, the part before `next`; and what `next` has not reached when the
  loop has ended came after its end. That a candidate which comes is new follows
  from `Known`: all earlier ones are of earlier connections or were counted before.
- **`AndroidProofs`** `PhoneInvariant`, `DeinitDestroysHolds`,
  `StopsOnlyWhenToldHolds`, `SignalingOnlyHolds`, for any number of activities. `PhoneInv` says that the
  threads of all former activities have returned and that `system_on` is set while
  the activity runs (`Joined`), that what is under way and what is set follows from
  what the server has sent (`Told`), and that a client is destroyed exactly when
  nobody refers to it (`Lifetime`). An announced channel needs a local description,
  which a client gets from its only request; so nothing is under way then, and the
  application thread gives up the last reference. `SignalingOnlyHolds` takes from it
  the types, and that a client does not exist before its thread begins (`Lifetime`);
  every other step is a step of `ClientEvents`, or none, as it stands.
- **`CombinedProofs`** `CombinedInvariant`, `NullConnectionRefused`,
  `SafeBeforeDestructor`, `SignalingOnlyHolds`. `Pointers` relates the pointers to what init_webrtc made and to
  the destructor's steps. `Negotiation` says that when the destructor runs no
  description is under way, which would hold a reference, and that the socket is
  closed, so that no listener runs; what is left are the two observers of a channel.
  For `SignalingOnlyHolds` this means that a listener never finds a connection gone
  that was made, so what `ClientEvents` calls `connection` does not change.

Some theorems state definitions that no run lists, because a property which a run
does list says more or rests on them: `Roles`, `OnlyPeersTalk`, `RoleIsKept`,
`IceAfterDescription`, `WholeFrames`, `StrandedOnlyIfRefused`, `NullOnlyBeforeStart`,
`NullConnectionOnlyIfRefused`, `DeinitDestroys`.

Every safety and action property and every refinement that a passing run lists is
proved. Only model-checked, being out of the prover's reach (it has no rules for
fairness and ENABLED), are the liveness properties `ExchangeCompletes`,
`KeepsAnswering`, `StopsWhenClosed`, `Finishes`, `FrameShown`, `Stops`,
`DeinitReturns`. The safety half of the first is `NeverLost` and
`NothingOnTheWayLost`: what is left to fairness is that each step that can be taken is.

## What the checks found

1. **Refusal after a peer has left** (`RefusedOnlyWhilePaired`). `SS` 66 logs
   "Peer connection already established", but `disconnect` (127-130) clears
   neither `peers` nor `flag_peer_connection`: once two peers have met, every
   later client is refused until the server is restarted. The same holds for a
   first peer that leaves before a second comes: the second is paired with the
   one that is gone and waits.
2. **Messages counted but not sent** (`SentCountsSent`). `send_message_sync`
   ignores that `Send` returned false, its wait has no predicate, and main
   counts whenever it returns; "Sent {} messages" (`DC` 546) may be more than
   were sent.

Behaviours the models have and no document promises against:

- `connect_sync` never returns if `on_connected` notifies before main waits.
- A client whose signaling closes before the peer connection stands stays in
  `wait_for_data_channel_connection`: `on_close` notifies nobody. This is why
  `StopsWhenClosed` has the peer connection in its conclusion.
- If the callee stops first, the caller stays in `send_message_sync`.
- A description that fails to be set is acknowledged with ok all the same: the
  handler does not wait for the observer of `SetRemoteDescription`, which only
  logs. An ok therefore does not say that a description was set.
  `AcceptedMeansHandled` says what it does say: `unset` holds the description for
  which it happened, so a failure of another call, or of another description,
  excuses nothing. A candidate that is refused is acknowledged with ok = false.
  Nothing is retried in either case.
- When PulseAudio answers a request with an error, the callback quits the
  mainloop (`AU` 451, 525, 592) but main goes on to the next request and polls it
  for ever. `StrandedOnlyIfRefused` says that this is the only way to get stuck.
- If `pa_threaded_mainloop_wait` blocks although main does not hold the lock, only
  the end of a list wakes main; a context that becomes ready does not.
- `init_pa_audio_devices` returns 0 also when it failed, so main goes on with the
  default devices.
- The video client calls `deinit_webrtc` before `deinit_signaling` (`VI` 1016-1017),
  the data-channel client ends signaling first. A packet that arrives after
  `peer_connection_` is cleared ends the process; a remote track announced after
  `StopRemoteRenderer` leaves a renderer to the destructor. `TeardownIsSafe` states
  when neither can happen.
- With `--no_display` the callbacks `OnFrame` queues are never run: their number
  grows with every frame.
- The command line program loses a candidate that comes between the end of ice1's
  loop and `ice_list.clear()` (`CLI` 447-449); `LostInTheGap` says that this is the
  only way.
- A description that comes after the next sdp1 or sdp2 was typed is printed under
  the new heading (`CLI` 417); `HeadingTellsType` says that this is the only way.
  The old connection's offer is then also set at the new connection, which is
  already stored when the old one goes (`CLI` 286, 309).
- After sdp2, `data_channel` stays that of the connection before until the channel
  is announced (`ChannelIsCurrent`).
- Where the input ends without quit, main destroys the list, the observers and the
  threads before the connection (`QuitIsClean`).
- `create_offer_sdp` uses the connection (`CLI` 293) before it tests it (`CLI` 296).
- A list ice2 cannot parse leaves main in text mode (`CLI` 481): the next command is
  taken for a line.
- The combined client's main goes on after `init_webrtc` has failed; the first
  listener that needs the connection, or main when it sends, finds a null pointer
  (`NullConnectionOnlyIfRefused` says that nothing else leads there).
- When signaling closes while the peers are connected, the combined client's
  destructor clears `data_channel_` (`CO` 146) without `data_channel_mutex_` while
  OnMessage or OnDataChannel may use it, and a channel announced after that is given
  up when its thread is gone. `SafeUntilDestroyed` says that this is the only way.
- The combined client keeps no reference to its capturer, so the capturer made on
  main goes with the connection, on WebRTC's signaling thread. The video client
  keeps references for just this reason (`VI` 280-282).
- The combined client logs "Add video track successfully." (`CO` 596) also when
  AddTrack has failed.
- On Android, `initNative` sets `system_on` after `pthread_create`: a thread that gets
  to its loop first takes a new activity for one that ends (`StopsOnlyWhenTold`).
- On Android, `deinitNative` notifies nobody before it joins: if the application
  thread is in a wait, onDestroy blocks until a response or the connection comes,
  perhaps for ever (`DeinitReturns`).
- A client for which CreateOffer or CreateAnswer has not reported when its
  application thread returns is destroyed by its own signaling thread, which the
  destructor joins (`DeinitDestroys` says when that cannot be).
- A frame drawn before `remote_renderer_` is set leaves the area blank until the
  next one; `FrameShown` is about frames that end later.

## Not modelled, and why

- `query_peer_type` / `query-peer-type`: reads only, never called.
- `message` handler of the server: frame statistics of a client not in this
  repository. It uses `np` without importing it.
- The contents of descriptions, candidates and messages: nothing depends on them
  but whether they parse, which is a choice.
- `init_webrtc`'s failure, except in `CombinedClient`; the other models start after
  it succeeded.
- The lifetime of the description handed to SetLocalDescription.
- The Android audio client: its client repeats the data-channel client's signaling, with
  WebRTC's own audio device; its native functions set `system_on` before they start
  the thread.
- The Android video client: its native functions carry the audio client's package
  in their names, and no activity of its own calls them.
- libpulse's own lifetimes: releasing the context while its thread may still be
  dispatching is one step. What the callbacks print is left out.
- The lifetime of GTK's widgets; failures of AddTrack and RemoveTrack.
- The data race on `ice_list`'s nodes in the command line program, and what
  AddIceCandidate, whose result it ignores, does with a candidate.
- Link tests and the Android sample libraries (gperf, gmath): nothing of this
  program's own.

## Plan

Done, in this order: A signaling (`SignalingNet`, `SignalingServer`,
`PeerSignaling`, `Rendezvous`, `SignalingSession`), B the data-channel client
(`DataChannel`, `ClientLocks`), C the PulseAudio set-up (`AudioDevices`), D the video
client (`VideoClient`), E the command line program (`CommandLine`), F the combined
client (`CombinedClient`), G the Android data-channel client
(`AndroidDataChannel`), with the theorems above.

The proofs came in the same order, each resting on those before: types and
roles, the exchange and `Rendezvous`, acknowledgements, candidates after their
description, `NeverLost`, `ClientEvents` with the two clients that rely on it,
`CandidatesOrdered` and `NothingOnTheWayLost`.

What could be added:

- An abstract specification of the exchange of messages between the two channels,
  which `DataChannel` implements under the steady switches.
- Lemmas for the liveness of the exchange that need no fairness: that each of its
  seven places enables the action which leaves it.
- The Android audio client's own end: it reads through the pointer the joined thread
  returned, which points to that thread's stack, and never gives up its client.
