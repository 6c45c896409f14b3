----------------------------- MODULE VideoProofs -----------------------------
(* Proofs about VideoClient, for any sizes and any number of frames. *)
EXTENDS VideoClient, TLAPS

LEMMA VideoStarts ==
  ASSUME Init
  PROVE  TypeOK /\ Pictures
<1>1. \A k \in Kinds : MaxFrames[k] \in Nat
  BY VideoAssumption
<1>2. /\ frame = [k \in Kinds |-> 0] /\ idle = [k \in Kinds |-> 0]
      /\ image = [k \in Kinds |-> [size |-> NoSize, frame |-> 0]]
  BY DEF Init
<1>3. \A k \in Kinds : idle[k] <= frame[k] /\ frame[k] <= MaxFrames[k]
  BY <1>1, <1>2
<1>4. TypeOK
  <2>1. /\ sink \in [Kinds -> BOOLEAN] /\ renderer_ \in [Kinds -> BOOLEAN]
        /\ dirty \in [Kinds -> BOOLEAN]
    BY Zenon DEF Init
  <2>2. /\ frame \in [Kinds -> Nat] /\ idle \in [Kinds -> Nat]
        /\ image \in [Kinds -> [size : Sizes \cup {NoSize}, frame : Nat]]
    BY <1>2
  <2> QED BY <1>3, <2>1, <2>2, Zenon DEF Init, TypeOK
<1>5. Pictures
  BY <1>2 DEF Init, Pictures, WholeFrames, Kinds
<1> QED BY <1>4, <1>5

LEMMA TypesKept ==
  ASSUME TypeOK, Pictures, [Next]_vars
  PROVE  TypeOK'
<1> USE DEF TypeOK, main, sio, renderers, frames, picture, gtk
<1>1. CASE init_webrtc
  BY <1>1 DEF init_webrtc, At
<1>2. CASE connect_sync
  BY <1>2 DEF connect_sync
<1>3. CASE LinkChanges
  BY <1>3 DEF LinkChanges
<1>4. CASE listener
  BY <1>4 DEF listener
<1>5. CASE OnAddTrack
  BY <1>5 DEF OnAddTrack
<1>6. CASE StartRemoteRenderer
  <2>1. renderer_' \in [Kinds -> BOOLEAN] /\ track' = "started"
    BY <1>6 DEF StartRemoteRenderer
  <2>2. UNCHANGED <<main, fate, sio, peer_connection_, sink, frames, mutex_, picture, idle, gtk>>
    BY <1>6 DEF StartRemoteRenderer
  <2> QED BY <2>1, <2>2
<1>7. CASE activate
  BY <1>7 DEF activate
<1>8. CASE CloseWindow
  BY <1>8 DEF CloseWindow
<1>9. CASE Interrupt
  <2>1. mutex_' \in [Kinds -> {"free", "source", "main"}]
    BY <1>9 DEF Interrupt
  <2> QED BY <1>9, <2>1 DEF Interrupt
<1>10. CASE StopLocalRenderer
  BY <1>10 DEF StopLocalRenderer, Stop
<1>11. CASE StopRemoteRenderer
  BY <1>11 DEF StopRemoteRenderer, Stop
<1>12. CASE deinit_webrtc
  BY <1>12 DEF deinit_webrtc
<1>13. CASE deinit_signaling
  BY <1>13 DEF deinit_signaling
<1>14. ASSUME NEW k \in Kinds, Frame(k)
       PROVE  TypeOK'
  <2>0. MaxFrames[k] \in Nat /\ frame[k] + 1 \in Nat
    BY VideoAssumption
  <2>1. frame' = [frame EXCEPT ![k] = frame[k] + 1] /\ frame' \in [Kinds -> Nat]
    BY <1>14, <2>0 DEF Frame
  <2>2. \A l \in Kinds : idle'[l] <= frame'[l] /\ frame'[l] <= MaxFrames[l]
    BY <1>14, <2>0, <2>1 DEF Frame
  <2> QED BY <1>14, <2>1, <2>2 DEF Frame
<1>15. ASSUME NEW k \in Kinds, SetSize(k)
       PROVE  TypeOK'
  BY <1>15 DEF SetSize
<1>16. ASSUME NEW k \in Kinds, ResetImage(k)
       PROVE  TypeOK'
  BY <1>16 DEF ResetImage
<1>17. ASSUME NEW k \in Kinds, Convert(k)
       PROVE  TypeOK'
  BY <1>17 DEF Convert
<1>18. ASSUME NEW k \in Kinds, IdleAdd(k)
       PROVE  TypeOK'
  BY <1>18 DEF IdleAdd, Pictures
<1>19. ASSUME NEW k \in Kinds, draw_callback(k)
       PROVE  TypeOK'
  BY <1>19 DEF draw_callback
<1>20. ASSUME NEW k \in Kinds, Draw(k)
       PROVE  TypeOK'
  <2>1. CASE draw_blank(k)
    BY <2>1 DEF draw_blank
  <2>2. CASE draw_handler(k)
    BY <2>2 DEF draw_handler
  <2>3. CASE paint(k)
    <3>1. image[k].frame \in Nat
      OBVIOUS
    <3> QED BY <2>3, <3>1 DEF paint
  <2> QED BY <1>20, <2>1, <2>2, <2>3 DEF Draw
<1>21. CASE UNCHANGED vars
  BY <1>21 DEF vars
<1> QED
  BY <1>1, <1>2, <1>3, <1>4, <1>5, <1>6, <1>7, <1>8, <1>9, <1>10, <1>11, <1>12, <1>13,
     <1>14, <1>15, <1>16, <1>17, <1>18, <1>19, <1>20, <1>21 DEF Next, OnFrame, Teardown

\* Only OnFrame and the draw handlers touch a picture, and only with the lock.
LEMMA FramesKept ==
  ASSUME TypeOK, Pictures, [Next]_vars
  PROVE  Pictures'
<1> USE DEF TypeOK, Pictures, WholeFrames, main, sio, renderers, frames, picture, gtk
<1>1. CASE init_webrtc
  BY <1>1 DEF init_webrtc, At
<1>2. CASE connect_sync \/ LinkChanges \/ listener
  BY <1>2 DEF connect_sync, LinkChanges, listener, At
<1>5. CASE OnAddTrack \/ StartRemoteRenderer
  BY <1>5 DEF OnAddTrack, StartRemoteRenderer
<1>7. CASE activate \/ CloseWindow
  BY <1>7 DEF activate, CloseWindow, Loop, At
<1>9. CASE Interrupt
  <2>1. CASE UNCHANGED <<pc, mutex_, drawing>>
    BY <1>9, <2>1 DEF Interrupt
  <2>2. CASE /\ mutex_' = [k \in Kinds |-> IF mutex_[k] = "main" THEN "free" ELSE mutex_[k]]
             /\ drawing' = "none" /\ pc' = "stop_local"
    <3>1. "none" \notin Kinds
      BY DEF Kinds
    <3>2. \A k \in Kinds : mutex_'[k] = "source" <=> mutex_[k] = "source"
      BY <2>2
    <3>3. \A k \in Kinds : mutex_'[k] # "main"
      BY <2>2
    <3> QED BY <1>9, <2>2, <3>1, <3>2, <3>3 DEF Interrupt
  <2> QED BY <1>9, <2>1, <2>2 DEF Interrupt
<1>10. CASE Teardown
  <2>1. /\ pc \notin {"init_webrtc", "connect", "app"} /\ pc' \notin {"init_webrtc", "connect", "app"}
        /\ UNCHANGED <<source, frame, coming, mutex_, size, image, idle, drawing>>
    BY <1>10 DEF Teardown, StopLocalRenderer, StopRemoteRenderer, Stop, deinit_webrtc,
                 deinit_signaling, At
  <2> QED BY <2>1
<1>14. ASSUME NEW k \in Kinds, Frame(k)
       PROVE  Pictures'
  <2>1. \A l \in Kinds : idle[l] \in Nat /\ frame[l] \in Nat /\ idle[l] <= frame[l]
    OBVIOUS
  <2>2. /\ frame' = [frame EXCEPT ![k] = @ + 1] /\ source' = [source EXCEPT ![k] = "locking"]
        /\ UNCHANGED <<pc, sink, idle, size, image, mutex_, drawing>>
        /\ source[k] = "none" /\ sink[k] /\ coming'[k] \in Sizes
        /\ \A l \in Kinds \ {k} : coming'[l] = coming[l]
    BY <1>14 DEF Frame
  <2>3. \A l \in Kinds : source'[l] # "none" => idle'[l] < frame'[l] /\ coming'[l] \in Sizes
    BY <2>1, <2>2
  <2>4. \A l \in Kinds : l # k => source'[l] = source[l] /\ frame'[l] = frame[l]
    BY <2>2
  <2>5. pc # "init_webrtc"
    BY <2>2
  <2> QED BY <2>2, <2>3, <2>4, <2>5
<1>15. ASSUME NEW k \in Kinds, SetSize(k)
       PROVE  Pictures'
  BY <1>15, VideoAssumption DEF SetSize
<1>16. ASSUME NEW k \in Kinds, ResetImage(k)
       PROVE  Pictures'
  BY <1>16 DEF ResetImage
<1>17. ASSUME NEW k \in Kinds, Convert(k)
       PROVE  Pictures'
  BY <1>17 DEF Convert
<1>18. ASSUME NEW k \in Kinds, IdleAdd(k)
       PROVE  Pictures'
  BY <1>18 DEF IdleAdd
<1>19. ASSUME NEW k \in Kinds, draw_callback(k)
       PROVE  Pictures'
  BY <1>19 DEF draw_callback
<1>20. ASSUME NEW k \in Kinds, Draw(k)
       PROVE  Pictures'
  <2>1. CASE draw_blank(k)
    BY <2>1 DEF draw_blank
  <2>2. CASE draw_handler(k)
    <3>1. source[k] \notin {"sizing", "converting"} /\ drawing = "none"
      BY <2>2 DEF draw_handler, Loop, At
    <3> QED BY <2>2, <3>1 DEF draw_handler, Kinds
  <2>3. CASE paint(k)
    BY <2>3 DEF paint, Kinds
  <2> QED BY <1>20, <2>1, <2>2, <2>3 DEF Draw
<1>21. CASE UNCHANGED vars
  BY <1>21 DEF vars
<1> QED
  BY <1>1, <1>2, <1>5, <1>7, <1>9, <1>10,
     <1>14, <1>15, <1>16, <1>17, <1>18, <1>19, <1>20, <1>21 DEF Next, OnFrame

------------------------------------------------------------------------------
\* Type correctness and the inductive invariant of renderers and draw handlers.
THEOREM VideoInvariant == Spec => []VideoInv
<1>1. Init => VideoInv
  BY VideoStarts DEF VideoInv
<1>2. VideoInv /\ [Next]_vars => VideoInv'
  BY TypesKept, FramesKept DEF VideoInv
<1> QED
  BY <1>1, <1>2, PTL DEF Spec

\* The draw handler never paints a picture that OnFrame has half changed, and a
\* frame never goes into an image of another size, for frames of any sizes.
THEOREM OnlyWholeFrames == Spec => []WholeFrames
<1>1. VideoInv => WholeFrames
  BY DEF VideoInv, Pictures
<1> QED
  BY <1>1, VideoInvariant, PTL

\* The images get newer, and so does what is painted of them.
Ages ==
    \A k \in Kinds :
        /\ shown[k] <= frame[k] /\ image[k].frame <= frame[k]
        /\ source[k] \notin {"sizing", "converting"} => shown[k] <= image[k].frame

LEMMA AgesKept ==
  ASSUME TypeOK, Pictures, Ages, [Next]_vars
  PROVE  Ages' /\ \A k \in Kinds : shown'[k] >= shown[k]
<1> USE DEF Ages, picture, gtk, frames
<1>0. \A k \in Kinds : frame[k] \in Nat /\ shown[k] \in Nat /\ image[k].frame \in Nat
  BY DEF TypeOK
<1>1. ASSUME NEW k \in Kinds, Frame(k)
      PROVE  Ages' /\ UNCHANGED shown
  <2>1. /\ UNCHANGED <<shown, image>>
        /\ \A l \in Kinds : frame'[l] \in {frame[l], frame[l] + 1}
        /\ \A l \in Kinds : source'[l] = source[l] \/ source[l] = "none"
    BY <1>1 DEF Frame, TypeOK
  <2> QED BY <1>0, <2>1
<1>2. ASSUME NEW k \in Kinds, SetSize(k) \/ IdleAdd(k)
      PROVE  Ages' /\ UNCHANGED shown
  <2>1. /\ UNCHANGED <<shown, frame>>
        /\ image' = image
        /\ \A l \in Kinds : source'[l] = source[l] \/ source[l] \in {"locking", "adding"}
    BY <1>2 DEF SetSize, IdleAdd, TypeOK
  <2> QED BY <1>0, <2>1
<1>3. ASSUME NEW k \in Kinds, ResetImage(k)
      PROVE  Ages' /\ UNCHANGED shown
  <2>1. /\ UNCHANGED <<shown, frame>>
        /\ source[k] = "sizing" /\ source'[k] = "converting" /\ image'[k].frame = 0
        /\ \A l \in Kinds \ {k} : image'[l] = image[l] /\ source'[l] = source[l]
    BY <1>3 DEF ResetImage, TypeOK
  <2> QED BY <1>0, <2>1
<1>4. ASSUME NEW k \in Kinds, Convert(k)
      PROVE  Ages' /\ UNCHANGED shown
  <2>1. /\ UNCHANGED <<shown, frame>>
        /\ image'[k].frame = frame[k]
        /\ \A l \in Kinds \ {k} : image'[l] = image[l] /\ source'[l] = source[l]
    BY <1>4 DEF Convert, TypeOK
  <2> QED BY <1>0, <2>1
<1>5. ASSUME NEW k \in Kinds, paint(k)
      PROVE  Ages' /\ \A l \in Kinds : shown'[l] >= shown[l]
  <2>1. /\ UNCHANGED <<source, frame, image>>
        /\ shown'[k] = image[k].frame
        /\ \A l \in Kinds \ {k} : shown'[l] = shown[l]
    BY <1>5 DEF paint, TypeOK
  <2>2. source[k] \notin {"sizing", "converting"}
    BY <1>5 DEF paint, Pictures
  <2> QED BY <1>0, <2>1, <2>2
<1>6. UNCHANGED <<source, frame, image, shown>> => Ages' /\ UNCHANGED shown
  OBVIOUS
<1>7. UNCHANGED shown => \A k \in Kinds : shown'[k] >= shown[k]
  BY <1>0
<1> QED
  BY <1>1, <1>2, <1>3, <1>4, <1>5, <1>6, <1>7 DEF Next, Teardown, OnFrame, Draw,
     init_webrtc, connect_sync, LinkChanges, listener, OnAddTrack, StartRemoteRenderer,
     activate, CloseWindow, Interrupt, StopLocalRenderer, StopRemoteRenderer, Stop,
     deinit_webrtc, deinit_signaling, draw_callback, draw_blank, draw_handler, vars

\* Nothing that was painted is painted over with an earlier frame, or with an image
\* that SetSize has just emptied: for frames of any sizes, in any number.
THEOREM OnlyNewerFrames == Spec => NeverOlder
<1>1. Init => Ages
  BY DEF Init, Ages
<1>2. VideoInv /\ Ages /\ [Next]_vars => Ages'
  BY AgesKept DEF VideoInv
<1>3. VideoInv /\ Ages /\ [Next]_vars => [\A k \in Kinds : shown'[k] >= shown[k]]_vars
  BY AgesKept DEF VideoInv
<1> QED
  BY <1>1, <1>2, <1>3, VideoInvariant, PTL DEF Spec, NeverOlder

\* The raw pointer that OnFrame hands to g_idle_add points to a renderer whenever
\* g_application_run may call it back.
THEOREM CallbacksHaveRenderers == Spec => []CallbackHasRenderer
<1>1. VideoInv => CallbackHasRenderer
  <2>1. SUFFICES ASSUME TypeOK, Pictures, NEW k \in Kinds, pc = "app", idle[k] > 0
                 PROVE  sink[k]
    BY DEF VideoInv, CallbackHasRenderer
  <2>2. frame[k] > 0
    BY <2>1 DEF TypeOK
  <2> QED BY <2>1, <2>2 DEF Pictures
<1> QED
  BY <1>1, VideoInvariant, PTL

\* remote_renderer_ is set by OnAddTrack only.
Tracked == renderer_["remote"] => track = "started"

\* A teardown after signaling has closed, with the remote track taken or not to
\* come: what makes it safe and stays so.
Quiet ==
    /\ pc \in {"stop_local", "stop_remote", "close", "deinit_signaling", "end"}
    /\ link = "closed"
    /\ track = "started" \/ (track = "none" /\ ~described)
    /\ pc \in {"close", "deinit_signaling", "end"} => ~renderer_["remote"]
    /\ fate \notin {"null", "undefined"}

LEMMA TrackedKept ==
  ASSUME TypeOK, Tracked, [Next]_vars
  PROVE  Tracked'
<1> USE DEF Tracked, renderers
<1>1. CASE init_webrtc
  BY <1>1 DEF init_webrtc, Kinds
<1>2. CASE StartRemoteRenderer
  BY <1>2 DEF StartRemoteRenderer
<1>3. ASSUME NEW k \in Kinds, Stop(k)
      PROVE  Tracked'
  BY <1>3 DEF Stop, TypeOK, Kinds
<1>4. CASE OnAddTrack
  BY <1>4 DEF OnAddTrack
<1>5. UNCHANGED <<track, renderer_>> => Tracked'
  OBVIOUS
<1>6. {"local", "remote"} \subseteq Kinds
  BY DEF Kinds
<1> QED
  BY <1>1, <1>2, <1>3, <1>4, <1>5, <1>6 DEF Next, Teardown, OnFrame, Draw, connect_sync,
     LinkChanges, listener, activate, CloseWindow, Interrupt, StopLocalRenderer,
     StopRemoteRenderer, deinit_webrtc, deinit_signaling, Frame, SetSize, ResetImage,
     Convert, IdleAdd, draw_callback, draw_blank, draw_handler, paint, vars

LEMMA QuietKept ==
  ASSUME TypeOK, Tracked, Quiet, [Next]_vars
  PROVE  Quiet'
<1> USE DEF Quiet, main, sio, renderers
<1>1. CASE StopLocalRenderer
  BY <1>1 DEF StopLocalRenderer, Stop, At
<1>2. CASE StopRemoteRenderer
  BY <1>2 DEF StopRemoteRenderer, Stop, At, TypeOK, Kinds
<1>3. CASE deinit_webrtc \/ deinit_signaling
  BY <1>3 DEF deinit_webrtc, deinit_signaling, At
<1>4. CASE Interrupt
  BY <1>4 DEF Interrupt
<1>5. UNCHANGED <<pc, link, track, described, renderer_, fate>> => Quiet'
  OBVIOUS
<1> QED
  BY <1>1, <1>2, <1>3, <1>4, <1>5 DEF Next, Teardown, OnFrame, Draw, init_webrtc,
     connect_sync, LinkChanges, listener, OnAddTrack, StartRemoteRenderer, activate,
     CloseWindow, Frame, SetSize, ResetImage, Convert, IdleAdd, draw_callback,
     draw_blank, draw_handler, paint, vars, Loop, At

\* deinit_webrtc before deinit_signaling is safe when signaling is over and the
\* remote renderer is there to be stopped, or never comes.
THEOREM SafeTeardown == Spec => TeardownIsSafe
<1> DEFINE Begins ==
      /\ Alive /\ pc = "stop_local" /\ link = "closed"
      /\ track = "started" \/ (track = "none" /\ ~described)
<1>1. Init => Tracked
  BY Zenon DEF Init, Tracked, Kinds
<1>2. TypeOK /\ Tracked /\ [Next]_vars => Tracked'
  BY TrackedKept
<1>3. TypeOK /\ Begins => Quiet
  BY DEF Alive, Quiet
<1>4. TypeOK /\ Tracked /\ Quiet /\ [Next]_vars => Quiet'
  BY QuietKept
<1>5. Quiet => fate \notin {"null", "undefined"}
  BY DEF Quiet
<1>6. VideoInv => TypeOK
  BY DEF VideoInv
<1>7. Spec => [](Begins => []Quiet)
  BY <1>1, <1>2, <1>3, <1>4, <1>6, VideoInvariant, PTL DEF Spec
<1> QED
  BY <1>5, <1>7, PTL DEF TeardownIsSafe

=============================================================================
