----------------------------- MODULE VideoClient -----------------------------
(***************************************************************************)
(* The video client of peer_video_client.cpp: its two renderers and the    *)
(* teardown in main.                                                       *)
(*                                                                         *)
(* A frame is delivered to a renderer on the thread of its source, which   *)
(* converts it into the renderer's image under mutex_ and asks GTK for a   *)
(* callback.  Callbacks and draw handlers run on main, in                  *)
(* g_application_run.  The remote renderer is made on WebRTC's signaling   *)
(* thread, in OnAddTrack; listeners use peer_connection_ on the network    *)
(* thread of sio_client_ until deinit_signaling.                           *)
(***************************************************************************)
EXTENDS Naturals

CONSTANTS
    Sizes,     \* sizes of frames
    NoSize,    \* 0x0
    MaxFrames  \* bound: MaxFrames[k] frames for the renderer k

Kinds == {"local", "remote"}

ASSUME VideoAssumption == NoSize \notin Sizes /\ MaxFrames \in [Kinds -> Nat]

VARIABLES
    no_display,        \* the flag of that name
    pc,                \* where main is
    fate,              \* how the process died, if it did
    link,              \* the connection to the signaling server
    peer_connection_,  \* it is not null
    described,         \* the remote description has been set
    track,             \* where OnAddTrack is, for the remote peer's video track
    sink,              \* sink[k]: the renderer k exists and is given the frames
    renderer_,         \* renderer_[k]: local_renderer_, remote_renderer_ is not null
    source,            \* source[k]: where the source's thread is in OnFrame
    frame,             \* frame[k]: the frames delivered so far
    coming,            \* coming[k]: the size of the last one
    mutex_,            \* mutex_[k]: who holds it
    size,              \* size[k]: width_ and height_
    image,             \* image[k]: the size image_ was made with, the frame in it
    idle,              \* idle[k]: callbacks asked for with g_idle_add
    widget,            \* the drawing areas exist
    dirty,             \* dirty[k]: GTK is to call the draw handler of k
    drawing,           \* the draw handler main is in
    shown              \* shown[k]: the frame last painted

sio == <<link, described>>
main == <<pc, no_display>>
renderers == <<track, sink, renderer_>>
frames == <<source, frame, coming>>
picture == <<size, image>>
gtk == <<widget, dirty, drawing, shown>>
vars == <<main, fate, sio, peer_connection_, renderers, frames, mutex_, picture, idle, gtk>>

\* Every variable has its type, and no renderer is called back more often than it
\* got frames.
TypeOK ==
    /\ no_display \in BOOLEAN
    /\ pc \in {"init_webrtc", "connect", "app", "stop_local", "stop_remote",
               "close", "deinit_signaling", "end"}
    /\ fate \in {"alive", "interrupted", "null", "undefined"}
    /\ link \in {"none", "up", "closed"}
    /\ peer_connection_ \in BOOLEAN
    /\ described \in BOOLEAN
    /\ track \in {"none", "starting", "started"}
    /\ sink \in [Kinds -> BOOLEAN] /\ renderer_ \in [Kinds -> BOOLEAN]
    /\ source \in [Kinds -> {"none", "locking", "sizing", "converting", "adding"}]
    /\ frame \in [Kinds -> Nat]
    /\ coming \in [Kinds -> Sizes \cup {NoSize}]
    /\ mutex_ \in [Kinds -> {"free", "source", "main"}]
    /\ size \in [Kinds -> Sizes \cup {NoSize}]
    /\ image \in [Kinds -> [size : Sizes \cup {NoSize}, frame : Nat]]
    /\ idle \in [Kinds -> Nat]
    /\ \A k \in Kinds : idle[k] <= frame[k] /\ frame[k] <= MaxFrames[k]
    /\ widget \in BOOLEAN
    /\ dirty \in [Kinds -> BOOLEAN]
    /\ drawing \in Kinds \cup {"none"}
    /\ shown \in [Kinds -> Nat]

Init ==
    /\ no_display \in BOOLEAN
    /\ pc = "init_webrtc"
    /\ fate = "alive"
    /\ link = "none"
    /\ peer_connection_ = FALSE
    /\ described = FALSE
    /\ track = "none"
    /\ sink = [k \in Kinds |-> FALSE]
    /\ renderer_ = [k \in Kinds |-> FALSE]
    /\ source = [k \in Kinds |-> "none"]
    /\ frame = [k \in Kinds |-> 0]
    /\ coming = [k \in Kinds |-> NoSize]
    /\ mutex_ = [k \in Kinds |-> "free"]
    /\ size = [k \in Kinds |-> NoSize]
    /\ image = [k \in Kinds |-> [size |-> NoSize, frame |-> 0]]
    /\ idle = [k \in Kinds |-> 0]
    /\ widget = FALSE
    /\ dirty = [k \in Kinds |-> FALSE]
    /\ drawing = "none"
    /\ shown = [k \in Kinds |-> 0]

Alive == fate = "alive"

\* main runs its code, in no draw handler.
At(l) == Alive /\ pc = l /\ drawing = "none"

------------------------------------------------------------------------------
(* main: start *)

\* Without a peer connection there is nothing else; without a camera there is no
\* local renderer.  main goes on either way.
init_webrtc ==
    /\ At("init_webrtc")
    /\ pc' = "connect"
    /\ peer_connection_' \in BOOLEAN
    /\ \E camera \in BOOLEAN :
        LET started == [k \in Kinds |-> k = "local" /\ camera /\ peer_connection_']
        IN  sink' = started /\ renderer_' = started
    /\ UNCHANGED <<no_display, fate, sio, track, frames, mutex_, picture, idle, gtk>>

\* connect_sync returns, and main opens its window if it is connected then.
connect_sync ==
    /\ At("connect")
    /\ pc' = IF link = "up" THEN "app" ELSE "stop_local"
    /\ UNCHANGED <<no_display, fate, sio, peer_connection_, renderers, frames, mutex_,
                   picture, idle, gtk>>

------------------------------------------------------------------------------
(* The network thread of sio_client_ *)

\* on_connected; on_fail, on_close.
LinkChanges ==
    /\ Alive /\ pc \notin {"init_webrtc", "end"}
    /\ \/ link = "none" /\ link' = "up"
       \/ link \in {"none", "up"} /\ link' = "closed"
    /\ UNCHANGED <<main, fate, described, peer_connection_, renderers, frames, mutex_,
                   picture, idle, gtk>>

\* A listener calls into the peer connection, which may set the remote description,
\* when the signaling thread is free; or finds none.
listener ==
    /\ Alive /\ pc # "end" /\ link = "up"
    /\ \/ peer_connection_ /\ track # "starting" /\ described' = TRUE /\ UNCHANGED fate
       \/ ~peer_connection_ /\ fate' = "null" /\ UNCHANGED described
    /\ UNCHANGED <<main, link, peer_connection_, renderers, frames, mutex_, picture,
                   idle, gtk>>

------------------------------------------------------------------------------
(* WebRTC's signaling thread: OnAddTrack, once for the description *)

\* The renderer is made and registers itself for frames,
OnAddTrack ==
    /\ Alive /\ peer_connection_ /\ described
    /\ track = "none"
    /\ track' = "starting"
    /\ sink' = [sink EXCEPT !["remote"] = TRUE]
    /\ UNCHANGED <<main, fate, sio, peer_connection_, renderer_, frames, mutex_, picture,
                   idle, gtk>>

\* and then becomes remote_renderer_.
StartRemoteRenderer ==
    /\ Alive
    /\ track = "starting"
    /\ track' = "started"
    /\ renderer_' = [renderer_ EXCEPT !["remote"] = TRUE]
    /\ UNCHANGED <<main, fate, sio, peer_connection_, sink, frames, mutex_, picture,
                   idle, gtk>>

------------------------------------------------------------------------------
(* The thread of a source: OnFrame *)

\* A frame is delivered.
Frame(k) ==
    /\ Alive /\ pc # "end"
    /\ sink[k] /\ source[k] = "none" /\ frame[k] < MaxFrames[k]
    /\ k = "remote" => peer_connection_
    /\ source' = [source EXCEPT ![k] = "locking"]
    /\ frame' = [frame EXCEPT ![k] = @ + 1]
    /\ \E s \in Sizes : coming' = [coming EXCEPT ![k] = s]
    /\ UNCHANGED <<main, fate, sio, peer_connection_, renderers, mutex_, picture, idle, gtk>>

\* Mutant: the size is set before the lock is taken.
SetSizeUnlocked(k) ==
    /\ Alive /\ source[k] = "locking"
    /\ mutex_' = [mutex_ EXCEPT ![k] = "source"]
    /\ size' = [size EXCEPT ![k] = coming[k]]
    /\ source' = [source EXCEPT ![k] = IF size[k] = coming[k] THEN "converting" ELSE "sizing"]
    /\ UNCHANGED <<main, fate, sio, peer_connection_, renderers, frame, coming, image, idle, gtk>>
\* Lock; SetSize: new width_ and height_, unless they are the same.
SetSize(k) ==
    /\ Alive /\ source[k] = "locking" /\ mutex_[k] = "free"
    /\ mutex_' = [mutex_ EXCEPT ![k] = "source"]
    /\ size' = [size EXCEPT ![k] = coming[k]]
    /\ source' = [source EXCEPT ![k] = IF size[k] = coming[k] THEN "converting" ELSE "sizing"]
    /\ UNCHANGED <<main, fate, sio, peer_connection_, renderers, frame, coming, image, idle, gtk>>

\* SetSize: a new image_, with nothing in it.
ResetImage(k) ==
    /\ Alive /\ source[k] = "sizing"
    /\ image' = [image EXCEPT ![k] = [size |-> coming[k], frame |-> 0]]
    /\ source' = [source EXCEPT ![k] = "converting"]
    /\ UNCHANGED <<main, fate, sio, peer_connection_, renderers, frame, coming, mutex_, size,
                   idle, gtk>>

\* I420ToARGB into the image; unlock.
Convert(k) ==
    /\ Alive /\ source[k] = "converting"
    /\ image' = [image EXCEPT ![k].frame = frame[k]]
    /\ mutex_' = [mutex_ EXCEPT ![k] = "free"]
    /\ source' = [source EXCEPT ![k] = "adding"]
    /\ UNCHANGED <<main, fate, sio, peer_connection_, renderers, frame, coming, size, idle, gtk>>

\* g_idle_add.
IdleAdd(k) ==
    /\ Alive /\ source[k] = "adding"
    /\ idle' = [idle EXCEPT ![k] = @ + 1]
    /\ source' = [source EXCEPT ![k] = "none"]
    /\ UNCHANGED <<main, fate, sio, peer_connection_, renderers, frame, coming, mutex_,
                   picture, gtk>>

------------------------------------------------------------------------------
(* main: g_application_run *)

Loop == At("app") /\ ~no_display

\* The window is made and shown.
activate ==
    /\ Loop /\ ~widget
    /\ widget' = TRUE
    /\ dirty' = [k \in Kinds |-> TRUE]
    /\ UNCHANGED <<main, fate, sio, peer_connection_, renderers, frames, mutex_, picture,
                   idle, drawing, shown>>

\* Mutant: both renderers are given the local area.
DrawsLocal(k) ==
    /\ Loop /\ idle[k] > 0
    /\ idle' = [idle EXCEPT ![k] = @ - 1]
    /\ dirty' = [dirty EXCEPT !["local"] = @ \/ widget]
    /\ UNCHANGED <<main, fate, sio, peer_connection_, renderers, frames, mutex_, picture,
                   widget, drawing, shown>>
\* The callback queued by OnFrame has the area of its renderer drawn, if there is one.
draw_callback(k) ==
    /\ Loop /\ idle[k] > 0
    /\ idle' = [idle EXCEPT ![k] = @ - 1]
    /\ dirty' = [dirty EXCEPT ![k] = @ \/ widget]
    /\ UNCHANGED <<main, fate, sio, peer_connection_, renderers, frames, mutex_, picture,
                   widget, drawing, shown>>

\* The draw handler: no renderer, or no frame yet; or lock and read the size.
draw_blank(k) ==
    /\ Loop /\ dirty[k]
    /\ ~renderer_[k] \/ (mutex_[k] = "free" /\ size[k] = NoSize)
    /\ dirty' = [dirty EXCEPT ![k] = FALSE]
    /\ UNCHANGED <<main, fate, sio, peer_connection_, renderers, frames, mutex_, picture,
                   idle, widget, drawing, shown>>

draw_handler(k) ==
    /\ Loop /\ dirty[k]
    /\ renderer_[k] /\ mutex_[k] = "free" /\ size[k] # NoSize
    /\ mutex_' = [mutex_ EXCEPT ![k] = "main"]
    /\ drawing' = k
    /\ dirty' = [dirty EXCEPT ![k] = FALSE]
    /\ UNCHANGED <<main, fate, sio, peer_connection_, renderers, frames, picture, idle,
                   widget, shown>>

\* cairo_paint; unlock.
paint(k) ==
    /\ Alive /\ drawing = k
    /\ shown' = [shown EXCEPT ![k] = image[k].frame]
    /\ mutex_' = [mutex_ EXCEPT ![k] = "free"]
    /\ drawing' = "none"
    /\ UNCHANGED <<main, fate, sio, peer_connection_, renderers, frames, picture, idle,
                   widget, dirty>>

\* The user closes the window, and g_application_run returns.
CloseWindow ==
    /\ Loop /\ widget
    /\ pc' = "stop_local"
    /\ UNCHANGED <<no_display, fate, sio, peer_connection_, renderers, frames, mutex_,
                   picture, idle, gtk>>

\* Mutant: the draw handler unlocks by hand, and not when it is thrown out of.
InterruptKeepsLock ==
    /\ Alive /\ pc # "end"
    /\ \/ /\ pc = "app"
          /\ pc' = "stop_local"
          /\ drawing' = "none"
          /\ UNCHANGED <<fate, mutex_>>
       \/ /\ fate' = "interrupted"
          /\ UNCHANGED <<pc, mutex_, drawing>>
    /\ UNCHANGED <<no_display, sio, peer_connection_, renderers, frames, picture, idle,
                   widget, dirty, shown>>
\* Mutant: the signal handler deletes the renderers itself, and the loop goes on.
InterruptDeletes ==
    /\ Alive /\ pc = "app" /\ drawing = "none"
    /\ \A k \in Kinds : source[k] = "none"
    /\ sink' = [k \in Kinds |-> FALSE]
    /\ renderer_' = [k \in Kinds |-> FALSE]
    /\ UNCHANGED <<main, fate, sio, peer_connection_, track, frames, mutex_, picture, idle, gtk>>
\* SIGINT throws: main catches it in the loop, and ends in the loop or elsewhere
\* when it cannot be caught.  What main held is unlocked on the way.
Interrupt ==
    /\ Alive /\ pc # "end"
    /\ \/ /\ pc = "app"
          /\ pc' = "stop_local"
          /\ drawing' = "none"
          /\ mutex_' = [k \in Kinds |-> IF mutex_[k] = "main" THEN "free" ELSE mutex_[k]]
          /\ UNCHANGED fate
       \/ /\ fate' = "interrupted"
          /\ UNCHANGED <<pc, mutex_, drawing>>
    /\ UNCHANGED <<no_display, sio, peer_connection_, renderers, frames, picture, idle,
                   widget, dirty, shown>>

------------------------------------------------------------------------------
(* main: teardown *)

\* Mutant: remote_renderer_ is left to the destructor.
StopLocalOnly(k) ==
    /\ renderer_[k] => source[k] = "none"
    /\ sink' = [sink EXCEPT !["local"] = @ /\ ~renderer_["local"]]
    /\ renderer_' = [renderer_ EXCEPT !["local"] = FALSE]
    /\ UNCHANGED <<no_display, fate, sio, peer_connection_, track, frames, mutex_, picture,
                   idle, gtk>>
\* The renderer is deleted once its source has left OnFrame.
Stop(k) ==
    /\ renderer_[k] => source[k] = "none"
    /\ sink' = [sink EXCEPT ![k] = @ /\ ~renderer_[k]]
    /\ renderer_' = [renderer_ EXCEPT ![k] = FALSE]
    /\ UNCHANGED <<no_display, fate, sio, peer_connection_, track, frames, mutex_, picture,
                   idle, gtk>>

StopLocalRenderer == At("stop_local") /\ pc' = "stop_remote" /\ Stop("local")

StopRemoteRenderer == At("stop_remote") /\ pc' = "close" /\ Stop("remote")

\* The peer connection is closed, on the signaling thread, and cleared; then the
\* threads of WebRTC are stopped.
deinit_webrtc ==
    /\ At("close")
    /\ track # "starting"
    /\ source["remote"] = "none"
    /\ pc' = "deinit_signaling"
    /\ peer_connection_' = FALSE
    /\ UNCHANGED <<no_display, fate, sio, renderers, frames, mutex_, picture, idle, gtk>>

\* The network thread is joined and the client deleted.  A remote renderer that came
\* after StopRemoteRenderer then calls threads that are gone.
deinit_signaling ==
    /\ At("deinit_signaling")
    /\ link' = "closed"
    /\ \/ pc' = "end" /\ UNCHANGED fate
       \/ renderer_["remote"] /\ fate' = "undefined" /\ UNCHANGED pc
    /\ UNCHANGED <<no_display, described, peer_connection_, renderers, frames, mutex_,
                   picture, idle, gtk>>

------------------------------------------------------------------------------
Teardown == StopLocalRenderer \/ StopRemoteRenderer \/ deinit_webrtc \/ deinit_signaling

OnFrame(k) == SetSize(k) \/ ResetImage(k) \/ Convert(k) \/ IdleAdd(k)

Draw(k) == draw_blank(k) \/ draw_handler(k) \/ paint(k)

Next ==
    \/ init_webrtc \/ connect_sync \/ LinkChanges \/ listener
    \/ OnAddTrack \/ StartRemoteRenderer
    \/ activate \/ CloseWindow \/ Interrupt \/ Teardown
    \/ \E k \in Kinds : Frame(k) \/ OnFrame(k) \/ draw_callback(k) \/ Draw(k)

Spec == Init /\ [][Next]_vars

\* Every thread runs when it can, and GTK serves every callback and every area.
FairSpec ==
    /\ Spec
    /\ WF_vars(StartRemoteRenderer) /\ WF_vars(activate) /\ WF_vars(Teardown)
    /\ \A k \in Kinds :
        WF_vars(OnFrame(k)) /\ WF_vars(draw_callback(k)) /\ WF_vars(Draw(k))

------------------------------------------------------------------------------
\* What main paints is a frame, all of it, in an image of the size main has read;
\* and a frame is converted into an image of its own size.
WholeFrames ==
    \A k \in Kinds :
        /\ drawing = k => image[k].size = size[k] /\ image[k].frame > 0
        /\ source[k] = "converting" => image[k].size = coming[k]

\* What is on the screen only gets newer: no frame is painted over a later one, and
\* no image that is being made anew over a frame.
NeverOlder == [][\A k \in Kinds : shown'[k] >= shown[k]]_vars

\* A callback that GTK may still run has a renderer: OnFrame queues a raw pointer.
CallbackHasRenderer ==
    \A k \in Kinds : pc = "app" /\ idle[k] > 0 => sink[k]

\* If signaling has closed before main begins to stop, and the remote track has
\* been taken or cannot come, then no thread uses what main has deleted.
TeardownIsSafe ==
    [](/\ Alive /\ pc = "stop_local" /\ link = "closed"
       /\ track = "started" \/ (track = "none" /\ ~described)
       => [](fate \notin {"null", "undefined"}))

\* The last frame does not stay unpainted: one that ends while its renderer is
\* known to the draw handler is painted, or a later one, as long as there is a window.
FrameShown ==
    \A k \in Kinds : \A n \in 1 .. MaxFrames[k] :
        Alive /\ pc = "app" /\ ~no_display /\ renderer_[k]
            /\ source[k] = "adding" /\ frame[k] = n
        ~> shown[k] >= n \/ pc # "app" \/ ~Alive

\* main ends once it has left its loop, interrupted in a draw handler or not.
Stops == pc = "stop_local" ~> pc = "end" \/ ~Alive

\* Each part of a picture changes under the lock, and the renderers last as long as
\* the loop.
Pictures ==
    /\ WholeFrames
    /\ \A k \in Kinds :
        /\ mutex_[k] = "source" <=> source[k] \in {"sizing", "converting"}
        /\ mutex_[k] = "main" <=> drawing = k
        /\ source[k] \in {"sizing", "converting"} => size[k] = coming[k]
        /\ source[k] # "sizing" => image[k].size = size[k]
        /\ source[k] \notin {"sizing", "converting"} /\ size[k] # NoSize => image[k].frame > 0
        /\ source[k] # "none" => idle[k] < frame[k] /\ coming[k] \in Sizes
        /\ drawing = k => size[k] # NoSize
        /\ pc \in {"init_webrtc", "connect", "app"} /\ frame[k] > 0 => sink[k]
    /\ pc = "init_webrtc" => ~peer_connection_ /\ \A k \in Kinds : frame[k] = 0 /\ ~sink[k]

\* Types, and all of this.
VideoInv == TypeOK /\ Pictures

=============================================================================
