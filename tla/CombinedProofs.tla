---------------------------- MODULE CombinedProofs ----------------------------
(***************************************************************************)
(* Proofs about CombinedClient: its inductive invariant, from it which null *)
(* pointers its threads can meet, and what it shares with ClientEvents.     *)
(***************************************************************************)
EXTENDS CombinedClient, TLAPS

(* The values main takes and the tuples of variables, for the leaves below. *)
USE DEF Waits, Destructor, sdpVars, webrtcVars, Running

(* init_webrtc has not been called. *)
LEMMA CombinedInit == Init => CombinedInv
<1> SUFFICES ASSUME Init PROVE CombinedInv
  OBVIOUS
<1>1. TypeOK
  BY DEF Init, TypeOK, Prefixes
<1>2. Pointers
  BY DEF Init, Pointers
<1>3. Negotiation
  BY DEF Init, Negotiation
<1>4. NullConnectionOnlyIfRefused
  BY DEF Init, NullConnectionOnlyIfRefused
<1>5. SafeUntilDestroyed
  BY DEF Init, SafeUntilDestroyed
<1> QED
  BY <1>1, <1>2, <1>3, <1>4, <1>5 DEF CombinedInv

(* The socket's callbacks. *)
LEMMA on_connectedStep ==
  ASSUME CombinedInv, on_connected
  PROVE  CombinedInv'
<1>1. TypeOK'
  BY DEF CombinedInv, TypeOK, on_connected, Notify
<1>2. Pointers'
  BY DEF CombinedInv, Pointers, on_connected, Notify
<1>3. Negotiation'
  BY DEF CombinedInv, Negotiation, on_connected, Notify
<1>4. NullConnectionOnlyIfRefused'
  BY DEF CombinedInv, NullConnectionOnlyIfRefused, on_connected, Notify
<1>5. SafeUntilDestroyed'
  BY DEF CombinedInv, SafeUntilDestroyed, on_connected, Notify
<1> QED
  BY <1>1, <1>2, <1>3, <1>4, <1>5 DEF CombinedInv

LEMMA on_failStep ==
  ASSUME CombinedInv, on_fail
  PROVE  CombinedInv'
<1>1. TypeOK'
  BY DEF CombinedInv, TypeOK, on_fail, Notify
<1>2. Pointers'
  BY DEF CombinedInv, Pointers, on_fail, Notify
<1>3. Negotiation'
  BY DEF CombinedInv, Negotiation, on_fail, Notify
<1>4. NullConnectionOnlyIfRefused'
  BY DEF CombinedInv, NullConnectionOnlyIfRefused, on_fail, Notify
<1>5. SafeUntilDestroyed'
  BY DEF CombinedInv, SafeUntilDestroyed, on_fail, Notify
<1> QED
  BY <1>1, <1>2, <1>3, <1>4, <1>5 DEF CombinedInv

LEMMA on_closeStep ==
  ASSUME CombinedInv, on_close
  PROVE  CombinedInv'
<1>1. TypeOK'
  BY DEF CombinedInv, TypeOK, on_close
<1>2. Pointers'
  BY DEF CombinedInv, Pointers, on_close
<1>3. Negotiation'
  BY DEF CombinedInv, Negotiation, on_close
<1>4. NullConnectionOnlyIfRefused'
  BY DEF CombinedInv, NullConnectionOnlyIfRefused, on_close
<1>5. SafeUntilDestroyed'
  BY DEF CombinedInv, SafeUntilDestroyed, on_close
<1> QED
  BY <1>1, <1>2, <1>3, <1>4, <1>5 DEF CombinedInv

(* The listeners run only until sync_close: the connection, if it was made, is open. *)
LEMMA set_as_callerStep ==
  ASSUME CombinedInv, set_as_caller
  PROVE  CombinedInv'
<1>1. TypeOK'
  BY DEF CombinedInv, TypeOK, set_as_caller, Receives
<1>2. Pointers'
  BY DEF CombinedInv, Pointers, set_as_caller, Receives
<1>3. Negotiation'
  BY DEF CombinedInv, Negotiation, set_as_caller, Receives
<1>4. NullConnectionOnlyIfRefused'
  BY DEF CombinedInv, NullConnectionOnlyIfRefused, set_as_caller, Receives
<1>5. SafeUntilDestroyed'
  BY DEF CombinedInv, SafeUntilDestroyed, set_as_caller, Receives
<1> QED
  BY <1>1, <1>2, <1>3, <1>4, <1>5 DEF CombinedInv

LEMMA set_as_calleeStep ==
  ASSUME CombinedInv, set_as_callee
  PROVE  CombinedInv'
<1>1. TypeOK'
  BY DEF CombinedInv, TypeOK, set_as_callee, Receives
<1>2. Pointers'
  BY DEF CombinedInv, Pointers, set_as_callee, Receives
<1>3. Negotiation'
  BY DEF CombinedInv, Negotiation, set_as_callee, Receives
<1>4. NullConnectionOnlyIfRefused'
  BY DEF CombinedInv, NullConnectionOnlyIfRefused, set_as_callee, Receives
<1>5. SafeUntilDestroyed'
  BY DEF CombinedInv, SafeUntilDestroyed, set_as_callee, Receives
<1> QED
  BY <1>1, <1>2, <1>3, <1>4, <1>5 DEF CombinedInv

LEMMA readyStep ==
  ASSUME CombinedInv, ready
  PROVE  CombinedInv'
<1>1. TypeOK'
  BY DEF CombinedInv, TypeOK, ready, Receives, create_offer, Use
<1>2. Pointers'
  BY DEF CombinedInv, Pointers, ready, Receives, create_offer, Use
<1>3. Negotiation'
  BY DEF CombinedInv, TypeOK, Pointers, Negotiation, ready, Receives, create_offer, Use
<1>4. NullConnectionOnlyIfRefused'
  BY DEF CombinedInv, Pointers, Negotiation, NullConnectionOnlyIfRefused, ready, Receives, create_offer, Use
<1>5. SafeUntilDestroyed'
  BY DEF CombinedInv, TypeOK, Pointers, SafeUntilDestroyed, Prefixes, Negotiation, ready, Receives, create_offer, Use
<1> QED
  BY <1>1, <1>2, <1>3, <1>4, <1>5 DEF CombinedInv

LEMMA offerStep ==
  ASSUME CombinedInv, offer
  PROVE  CombinedInv'
<1>1. TypeOK'
  BY DEF CombinedInv, TypeOK, offer, Receives, receive_offer_create_answer, Use
<1>2. Pointers'
  BY DEF CombinedInv, Pointers, offer, Receives, receive_offer_create_answer, Use
<1>3. Negotiation'
  <2>1. CASE UNCHANGED sdpVars
    BY <2>1 DEF CombinedInv, Negotiation, offer, Receives
  <2>2. CASE /\ type_ = "Callee" /\ peer_connection_ # "null"
             /\ creating' = creating \cup {"answer"} /\ UNCHANGED local
    BY <2>2 DEF CombinedInv, TypeOK, Pointers, Negotiation, offer, Receives
  <2> QED
    BY <2>1, <2>2 DEF offer, receive_offer_create_answer, Use
<1>4. NullConnectionOnlyIfRefused'
  BY DEF CombinedInv, Pointers, Negotiation, NullConnectionOnlyIfRefused, offer, Receives, receive_offer_create_answer, Use
<1>5. SafeUntilDestroyed'
  BY DEF CombinedInv, TypeOK, Pointers, SafeUntilDestroyed, Prefixes, Negotiation, offer, Receives, receive_offer_create_answer, Use
<1> QED
  BY <1>1, <1>2, <1>3, <1>4, <1>5 DEF CombinedInv

LEMMA answerStep ==
  ASSUME CombinedInv, answer
  PROVE  CombinedInv'
<1>1. TypeOK'
  BY DEF CombinedInv, TypeOK, answer, Receives, receive_answer, Use
<1>2. Pointers'
  BY DEF CombinedInv, Pointers, answer, Receives, receive_answer, Use
<1>3. Negotiation'
  BY DEF CombinedInv, Negotiation, answer, Receives, receive_answer, Use
<1>4. NullConnectionOnlyIfRefused'
  BY DEF CombinedInv, Pointers, Negotiation, NullConnectionOnlyIfRefused, answer, Receives, receive_answer, Use
<1>5. SafeUntilDestroyed'
  BY DEF CombinedInv, TypeOK, Pointers, SafeUntilDestroyed, Prefixes, Negotiation, answer, Receives, receive_answer, Use
<1> QED
  BY <1>1, <1>2, <1>3, <1>4, <1>5 DEF CombinedInv

LEMMA iceStep ==
  ASSUME CombinedInv, ice
  PROVE  CombinedInv'
<1>1. TypeOK'
  BY DEF CombinedInv, TypeOK, ice, add_ice_candidate, Use
<1>2. Pointers'
  BY DEF CombinedInv, Pointers, ice, add_ice_candidate, Use
<1>3. Negotiation'
  BY DEF CombinedInv, Negotiation, ice, add_ice_candidate, Use
<1>4. NullConnectionOnlyIfRefused'
  BY DEF CombinedInv, Pointers, Negotiation, NullConnectionOnlyIfRefused, ice, add_ice_candidate, Use
<1>5. SafeUntilDestroyed'
  BY DEF CombinedInv, TypeOK, Pointers, SafeUntilDestroyed, Prefixes, Negotiation, ice, add_ice_candidate, Use
<1> QED
  BY <1>1, <1>2, <1>3, <1>4, <1>5 DEF CombinedInv

(* WebRTC's callbacks on the channels, until the connection is closed. *)
LEMMA OnDataChannelStep ==
  ASSUME CombinedInv, OnDataChannel
  PROVE  CombinedInv'
<1>1. TypeOK'
  BY DEF CombinedInv, TypeOK, OnDataChannel, Up, Notify
<1>2. Pointers'
  BY DEF CombinedInv, Pointers, OnDataChannel, Up, Notify
<1>3. Negotiation'
  BY DEF CombinedInv, Negotiation, OnDataChannel, Up, Notify
<1>4. NullConnectionOnlyIfRefused'
  BY DEF CombinedInv, NullConnectionOnlyIfRefused, OnDataChannel, Up, Notify
<1>5. SafeUntilDestroyed'
  BY DEF CombinedInv, Negotiation, SafeUntilDestroyed, OnDataChannel, Up, Notify
<1> QED
  BY <1>1, <1>2, <1>3, <1>4, <1>5 DEF CombinedInv

LEMMA OnMessageStep ==
  ASSUME CombinedInv, OnMessage
  PROVE  CombinedInv'
<1>1. TypeOK'
  BY DEF CombinedInv, TypeOK, OnMessage, Up, Notify
<1>2. Pointers'
  BY DEF CombinedInv, Pointers, OnMessage, Up, Notify
<1>3. Negotiation'
  BY DEF CombinedInv, Negotiation, OnMessage, Up, Notify
<1>4. NullConnectionOnlyIfRefused'
  BY DEF CombinedInv, NullConnectionOnlyIfRefused, OnMessage, Up, Notify
<1>5. SafeUntilDestroyed'
  BY DEF CombinedInv, Pointers, Negotiation, SafeUntilDestroyed, OnMessage, Up, Notify
<1> QED
  BY <1>1, <1>2, <1>3, <1>4, <1>5 DEF CombinedInv

(* main, whatever init_webrtc made. *)
LEMMA BeginStep ==
  ASSUME CombinedInv, Begin
  PROVE  CombinedInv'
<1>1. TypeOK'
  BY DEF CombinedInv, TypeOK, Begin, Main, init_webrtc, FirstChannel, CapturerOf, Prefixes
<1>2. Pointers'
  BY DEF CombinedInv, Pointers, Begin, Main, init_webrtc, FirstChannel, CapturerOf, Prefixes
<1>3. Negotiation'
  BY DEF CombinedInv, Pointers, Negotiation, Begin, Main, init_webrtc, FirstChannel, CapturerOf, Prefixes
<1>4. NullConnectionOnlyIfRefused'
  BY DEF CombinedInv, NullConnectionOnlyIfRefused, Begin, Main, init_webrtc, FirstChannel, CapturerOf, Prefixes
<1>5. SafeUntilDestroyed'
  BY DEF CombinedInv, SafeUntilDestroyed, Begin, Main, init_webrtc, FirstChannel, CapturerOf, Prefixes
<1> QED
  BY <1>1, <1>2, <1>3, <1>4, <1>5 DEF CombinedInv

LEMMA connect_syncStep ==
  ASSUME CombinedInv, connect_sync
  PROVE  CombinedInv'
<1>1. TypeOK'
  BY DEF CombinedInv, TypeOK, connect_sync, Main
<1>2. Pointers'
  BY DEF CombinedInv, Pointers, connect_sync, Main
<1>3. Negotiation'
  BY DEF CombinedInv, Negotiation, connect_sync, Main
<1>4. NullConnectionOnlyIfRefused'
  BY DEF CombinedInv, NullConnectionOnlyIfRefused, connect_sync, Main
<1>5. SafeUntilDestroyed'
  BY DEF CombinedInv, SafeUntilDestroyed, connect_sync, Main
<1> QED
  BY <1>1, <1>2, <1>3, <1>4, <1>5 DEF CombinedInv

LEMMA wait_for_data_channel_connectionStep ==
  ASSUME CombinedInv, wait_for_data_channel_connection
  PROVE  CombinedInv'
<1>1. TypeOK'
  BY DEF CombinedInv, TypeOK, wait_for_data_channel_connection, Main, connected_
<1>2. Pointers'
  BY DEF CombinedInv, Pointers, wait_for_data_channel_connection, Main, connected_
<1>3. Negotiation'
  BY DEF CombinedInv, Negotiation, wait_for_data_channel_connection, Main, connected_
<1>4. NullConnectionOnlyIfRefused'
  BY DEF CombinedInv, NullConnectionOnlyIfRefused, wait_for_data_channel_connection, Main, connected_
<1>5. SafeUntilDestroyed'
  BY DEF CombinedInv, SafeUntilDestroyed, wait_for_data_channel_connection, Main, connected_
<1> QED
  BY <1>1, <1>2, <1>3, <1>4, <1>5 DEF CombinedInv

LEMMA send_message_syncStep ==
  ASSUME CombinedInv, send_message_sync
  PROVE  CombinedInv'
<1>1. TypeOK'
  BY DEF CombinedInv, TypeOK, send_message_sync, Use, connected_
<1>2. Pointers'
  BY DEF CombinedInv, Pointers, send_message_sync, Use, connected_
<1>3. Negotiation'
  BY DEF CombinedInv, Negotiation, send_message_sync, Use, connected_
<1>4. NullConnectionOnlyIfRefused'
  BY DEF CombinedInv, NullConnectionOnlyIfRefused, send_message_sync, Use, connected_
<1>5. SafeUntilDestroyed'
  BY DEF CombinedInv, Pointers, SafeUntilDestroyed, send_message_sync, Use, connected_
<1> QED
  BY <1>1, <1>2, <1>3, <1>4, <1>5 DEF CombinedInv

LEMMA StopStep ==
  ASSUME CombinedInv, Stop
  PROVE  CombinedInv'
<1>1. TypeOK'
  BY DEF CombinedInv, TypeOK, Stop, Main, connected_
<1>2. Pointers'
  BY DEF CombinedInv, Pointers, Stop, Main, connected_
<1>3. Negotiation'
  BY DEF CombinedInv, Negotiation, Stop, Main, connected_
<1>4. NullConnectionOnlyIfRefused'
  BY DEF CombinedInv, NullConnectionOnlyIfRefused, Stop, Main, connected_
<1>5. SafeUntilDestroyed'
  BY DEF CombinedInv, SafeUntilDestroyed, Stop, Main, connected_
<1> QED
  BY <1>1, <1>2, <1>3, <1>4, <1>5 DEF CombinedInv

LEMMA deinit_signalingStep ==
  ASSUME CombinedInv, deinit_signaling
  PROVE  CombinedInv'
<1>1. TypeOK'
  BY DEF CombinedInv, TypeOK, deinit_signaling, Main
<1>2. Pointers'
  BY DEF CombinedInv, Pointers, deinit_signaling, Main
<1>3. Negotiation'
  BY DEF CombinedInv, Negotiation, deinit_signaling, Main
<1>4. NullConnectionOnlyIfRefused'
  BY DEF CombinedInv, NullConnectionOnlyIfRefused, deinit_signaling, Main
<1>5. SafeUntilDestroyed'
  BY DEF CombinedInv, SafeUntilDestroyed, deinit_signaling, Main
<1> QED
  BY <1>1, <1>2, <1>3, <1>4, <1>5 DEF CombinedInv

LEMMA ReturnStep ==
  ASSUME CombinedInv, Return
  PROVE  CombinedInv'
<1>1. TypeOK'
  BY DEF CombinedInv, TypeOK, Return, Main
<1>2. Pointers'
  BY DEF CombinedInv, Pointers, Return, Main
<1>3. Negotiation'
  BY DEF CombinedInv, Negotiation, Return, Main
<1>4. NullConnectionOnlyIfRefused'
  BY DEF CombinedInv, NullConnectionOnlyIfRefused, Return, Main
<1>5. SafeUntilDestroyed'
  BY DEF CombinedInv, SafeUntilDestroyed, Return, Main
<1> QED
  BY <1>1, <1>2, <1>3, <1>4, <1>5 DEF CombinedInv

LEMMA SpuriousWakeupStep ==
  ASSUME CombinedInv, SpuriousWakeup
  PROVE  CombinedInv'
<1>1. TypeOK'
  BY DEF CombinedInv, TypeOK, SpuriousWakeup, Main
<1>2. Pointers'
  BY DEF CombinedInv, Pointers, SpuriousWakeup, Main
<1>3. Negotiation'
  BY DEF CombinedInv, Negotiation, SpuriousWakeup, Main
<1>4. NullConnectionOnlyIfRefused'
  BY DEF CombinedInv, NullConnectionOnlyIfRefused, SpuriousWakeup, Main
<1>5. SafeUntilDestroyed'
  BY DEF CombinedInv, TypeOK, Pointers, Negotiation, SafeUntilDestroyed, SpuriousWakeup, Main
<1> QED
  BY <1>1, <1>2, <1>3, <1>4, <1>5 DEF CombinedInv

(* The destructor: no description is under way and no listener runs. *)
LEMMA CloseChannelStep ==
  ASSUME CombinedInv, CloseChannel
  PROVE  CombinedInv'
<1>1. TypeOK'
  BY DEF CombinedInv, TypeOK, CloseChannel, Main
<1>2. Pointers'
  BY DEF CombinedInv, Pointers, CloseChannel, Main
<1>3. Negotiation'
  BY DEF CombinedInv, Negotiation, CloseChannel, Main
<1>4. NullConnectionOnlyIfRefused'
  BY DEF CombinedInv, NullConnectionOnlyIfRefused, CloseChannel, Main
<1>5. SafeUntilDestroyed'
  BY DEF CombinedInv, SafeUntilDestroyed, CloseChannel, Main
<1> QED
  BY <1>1, <1>2, <1>3, <1>4, <1>5 DEF CombinedInv

LEMMA ClearChannelStep ==
  ASSUME CombinedInv, ClearChannel
  PROVE  CombinedInv'
<1>1. TypeOK'
  BY DEF CombinedInv, TypeOK, ClearChannel, Main
<1>2. Pointers'
  BY DEF CombinedInv, Pointers, ClearChannel, Main
<1>3. Negotiation'
  BY DEF CombinedInv, Negotiation, ClearChannel, Main
<1>4. NullConnectionOnlyIfRefused'
  BY DEF CombinedInv, NullConnectionOnlyIfRefused, ClearChannel, Main
<1>5. SafeUntilDestroyed'
  BY DEF CombinedInv, SafeUntilDestroyed, ClearChannel, Main
<1> QED
  BY <1>1, <1>2, <1>3, <1>4, <1>5 DEF CombinedInv

LEMMA CloseConnectionStep ==
  ASSUME CombinedInv, CloseConnection
  PROVE  CombinedInv'
<1>1. TypeOK'
  BY DEF CombinedInv, TypeOK, CloseConnection, Main
<1>2. Pointers'
  BY DEF CombinedInv, Pointers, CloseConnection, Main
<1>3. Negotiation'
  BY DEF CombinedInv, Negotiation, CloseConnection, Main
<1>4. NullConnectionOnlyIfRefused'
  BY DEF CombinedInv, NullConnectionOnlyIfRefused, CloseConnection, Main
<1>5. SafeUntilDestroyed'
  BY DEF CombinedInv, SafeUntilDestroyed, CloseConnection, Main
<1> QED
  BY <1>1, <1>2, <1>3, <1>4, <1>5 DEF CombinedInv

LEMMA StopThreadsStep ==
  ASSUME CombinedInv, StopThreads
  PROVE  CombinedInv'
<1>1. TypeOK'
  BY DEF CombinedInv, TypeOK, StopThreads, Main
<1>2. Pointers'
  BY DEF CombinedInv, Pointers, StopThreads, Main
<1>3. Negotiation'
  BY DEF CombinedInv, Negotiation, StopThreads, Main
<1>4. NullConnectionOnlyIfRefused'
  BY DEF CombinedInv, NullConnectionOnlyIfRefused, StopThreads, Main
<1>5. SafeUntilDestroyed'
  BY DEF CombinedInv, TypeOK, Pointers, Negotiation, SafeUntilDestroyed, StopThreads, Main
<1> QED
  BY <1>1, <1>2, <1>3, <1>4, <1>5 DEF CombinedInv

(* A description under way holds a reference, so the destructor has not begun. *)
LEMMA OnSuccessStep ==
  ASSUME NEW d \in {"offer", "answer"}, CombinedInv, OnSuccess(d)
  PROVE  CombinedInv'
<1>1. TypeOK'
  BY DEF CombinedInv, TypeOK, Pointers, Negotiation, OnSuccess, Reported
<1>2. Pointers'
  BY DEF CombinedInv, Pointers, Negotiation, OnSuccess, Reported
<1>3. Negotiation'
  BY DEF CombinedInv, Negotiation, OnSuccess, Reported
<1>4. NullConnectionOnlyIfRefused'
  BY DEF CombinedInv, Pointers, Negotiation, NullConnectionOnlyIfRefused, OnSuccess, Reported
<1>5. SafeUntilDestroyed'
  BY DEF CombinedInv, Pointers, Negotiation, SafeUntilDestroyed, OnSuccess, Reported
<1> QED
  BY <1>1, <1>2, <1>3, <1>4, <1>5 DEF CombinedInv

LEMMA OnFailureStep ==
  ASSUME NEW d \in {"offer", "answer"}, CombinedInv, OnFailure(d)
  PROVE  CombinedInv'
<1>1. TypeOK'
  BY DEF CombinedInv, TypeOK, OnFailure, Reported
<1>2. Pointers'
  BY DEF CombinedInv, Pointers, OnFailure, Reported
<1>3. Negotiation'
  BY DEF CombinedInv, Negotiation, OnFailure, Reported
<1>4. NullConnectionOnlyIfRefused'
  BY DEF CombinedInv, NullConnectionOnlyIfRefused, OnFailure, Reported
<1>5. SafeUntilDestroyed'
  BY DEF CombinedInv, SafeUntilDestroyed, OnFailure, Reported
<1> QED
  BY <1>1, <1>2, <1>3, <1>4, <1>5 DEF CombinedInv

(* A step that changes nothing. *)
LEMMA CombinedStutters == CombinedInv /\ UNCHANGED vars => CombinedInv'
BY DEF CombinedInv, TypeOK, Pointers, Negotiation, NullConnectionOnlyIfRefused, SafeUntilDestroyed, vars

LEMMA CombinedNext == CombinedInv /\ [Next]_vars => CombinedInv'
<1> SUFFICES ASSUME CombinedInv, [Next]_vars PROVE CombinedInv'
  OBVIOUS
<1>1. CASE Network
  BY <1>1, on_connectedStep, on_failStep, on_closeStep, set_as_callerStep, set_as_calleeStep,
     readyStep, offerStep, answerStep, iceStep DEF Network
<1>2. CASE Signaling
  BY <1>2, OnSuccessStep, OnFailureStep, OnDataChannelStep, OnMessageStep DEF Signaling
<1>3. CASE Application
  BY <1>3, BeginStep, connect_syncStep, wait_for_data_channel_connectionStep,
     send_message_syncStep, StopStep, deinit_signalingStep, ReturnStep,
     CloseChannelStep, ClearChannelStep, CloseConnectionStep, StopThreadsStep DEF Application
<1>4. CASE SpuriousWakeup
  BY <1>4, SpuriousWakeupStep
<1>5. CASE UNCHANGED vars
  BY <1>5, CombinedStutters
<1> QED
  BY <1>1, <1>2, <1>3, <1>4, <1>5 DEF Next

\* The pointers, what was made and what is under way agree in every state.
THEOREM CombinedInvariant == Spec => []CombinedInv
BY CombinedInit, CombinedNext, PTL DEF Spec

\* A null peer_connection_ is used only when CreatePeerConnection was refused.
THEOREM NullConnectionRefused == Spec => []NullConnectionOnlyIfRefused
<1>1. CombinedInv => NullConnectionOnlyIfRefused
  BY DEF CombinedInv
<1> QED
  BY <1>1, CombinedInvariant, PTL

\* A client whose channel was made is harmed only in its destructor.
THEOREM SafeBeforeDestructor == Spec => []SafeUntilDestroyed
<1>1. CombinedInv => SafeUntilDestroyed
  BY DEF CombinedInv
<1> QED
  BY <1>1, CombinedInvariant, PTL

------------------------------------------------------------------------------
(***************************************************************************)
(* The client against ClientEvents, as its only client.                    *)
(***************************************************************************)
LEMMA OnlyKept ==
  ASSUME NEW v, NEW w
  PROVE  /\ Only(v)["client"] = v
         /\ [Only(v) EXCEPT !["client"] = w] = Only(w)
  BY DEF Only

LEMMA EventsInit == Init => Events!Init
<1> SUFFICES ASSUME Init PROVE Events!Init
  OBVIOUS
<1>1. Only("connection" \in made) \in [{"client"} -> BOOLEAN]
  BY DEF Only
<1>2. /\ Only(IF socket = "idle" THEN "pending" ELSE socket) = [c \in {"client"} |-> "pending"]
      /\ Only(type_) = [c \in {"client"} |-> "Undefined"]
      /\ Only(told) = [c \in {"client"} |-> {}] /\ Only(creating) = [c \in {"client"} |-> {}]
      /\ Only(local) = [c \in {"client"} |-> FALSE]
      /\ Only(remote) = [c \in {"client"} |-> FALSE]
  BY DEF Init, Only
<1> QED
  BY <1>1, <1>2 DEF Events!Init

\* The connection as ClientEvents sees it.
Seen == IF socket = "idle" THEN "pending" ELSE socket

\* What a step of ClientEvents says of the client, in this module's terms.
LEMMA EventsSteps ==
  /\ /\ UNCHANGED <<made, type_, told, sdpVars>>
     /\ \/ Seen = "pending" /\ Seen' = "open"
        \/ Seen \in {"pending", "open"} /\ Seen' = "closed"
     => Events!Next
  /\ /\ "connection" \notin made /\ "connection" \in made'
     /\ Seen = "pending"
     /\ UNCHANGED <<Seen, type_, told, sdpVars>>
     => Events!Next
  /\ \A d \in {"offer", "answer"} :
        /\ d \in creating /\ creating' = creating \ {d}
        /\ \/ UNCHANGED local
           \/ (d = "answer" => remote) /\ local' = TRUE
        /\ UNCHANGED <<made, socket, type_, told, remote>>
        => Events!Next
<1> USE OnlyKept DEF Events!sdpVars, Seen
<1>1. ASSUME UNCHANGED <<made, type_, told, sdpVars>>,
             \/ Seen = "pending" /\ Seen' = "open"
             \/ Seen \in {"pending", "open"} /\ Seen' = "closed"
      PROVE  Events!Next
  <2>1. Events!Connects("client")
    BY <1>1 DEF Events!Connects
  <2> QED BY <2>1 DEF Events!Next
<1>2. ASSUME "connection" \notin made, "connection" \in made', Seen = "pending",
             UNCHANGED <<Seen, type_, told, sdpVars>>
      PROVE  Events!Next
  <2>1. Events!Starts("client")
    BY <1>2 DEF Events!Starts
  <2> QED BY <2>1 DEF Events!Next
<1>3. ASSUME NEW d \in {"offer", "answer"},
             d \in creating, creating' = creating \ {d},
             \/ UNCHANGED local
             \/ (d = "answer" => remote) /\ local' = TRUE,
             UNCHANGED <<made, socket, type_, told, remote>>
      PROVE  Events!Next
  <2>1. Events!Created("client", d)
    BY <1>3 DEF Events!Created
  <2> QED BY <2>1 DEF Events!Next
<1> QED BY <1>1, <1>2, <1>3

LEMMA NetworkIsEvents ==
  ASSUME CombinedInv, Network
  PROVE  Events!Next \/ UNCHANGED Events!vars
<1> USE OnlyKept DEF Events!sdpVars, Use
<1>7. Only("connection" \in made)["client"] <=> "connection" \in made
  BY DEF Only
<1>8. ASSUME NEW ev, Receives(ev)
      PROVE  Events!Receives("client", ev)
  BY <1>8 DEF Receives, Events!Receives
<1>9. ASSUME NEW d, "connection" \in made, creating' = creating \cup {d}
      PROVE  Events!Creates("client", d)
  BY <1>7, <1>9 DEF Events!Creates
<1>10. ASSUME NEW d, "connection" \notin made, UNCHANGED creating
       PROVE  Events!Creates("client", d)
  BY <1>7, <1>10 DEF Events!Creates
<1>0. socket = "open" => ("connection" \in made <=> peer_connection_ = "open")
  BY DEF CombinedInv, TypeOK, Pointers, Negotiation
<1>1. CASE on_connected \/ on_fail \/ on_close
  BY <1>1, EventsSteps DEF on_connected, on_fail, on_close, Seen
<1>2. CASE set_as_caller \/ set_as_callee
  <2>1. Events!Role("client")
    BY <1>2, <1>8 DEF set_as_caller, set_as_callee, Events!Role
  <2> QED BY <2>1 DEF Events!Next
<1>3. CASE ready
  <2>0. /\ UNCHANGED <<local, remote, type_>>
        /\ creating' = IF type_ = "Caller" /\ "connection" \in made
                       THEN creating \cup {"offer"} ELSE creating
    BY <1>0, <1>3 DEF ready, create_offer, Receives, CombinedInv, TypeOK
  <2>1. Events!Ready("client")
    BY <1>3, <1>8, <1>9, <1>10, <2>0 DEF ready, Events!Ready
  <2> QED BY <2>1 DEF Events!Next
<1>4. CASE offer
  <2>0. /\ UNCHANGED <<local, type_>>
        /\ \/ UNCHANGED <<creating, remote>>
           \/ /\ type_ = "Callee" /\ "connection" \in made
              /\ creating' = creating \cup {"answer"}
              /\ remote' \in {remote, TRUE}
    BY <1>0, <1>4 DEF offer, receive_offer_create_answer, Receives, CombinedInv, TypeOK
  <2>1. Events!Offer("client")
    BY <1>4, <1>8, <1>9, <2>0 DEF offer, Events!Offer
  <2> QED BY <2>1 DEF Events!Next
<1>5. CASE answer
  <2>0. /\ UNCHANGED <<creating, local, type_>>
        /\ UNCHANGED remote \/ (type_ = "Caller" /\ local /\ remote' = TRUE)
    BY <1>5 DEF answer, receive_answer, Receives, CombinedInv, TypeOK
  <2>1. Events!Answer("client")
    BY <1>5, <1>8, <2>0 DEF answer, Events!Answer
  <2> QED BY <2>1 DEF Events!Next
<1>6. CASE ice
  BY <1>6 DEF ice, add_ice_candidate, Events!vars
<1> QED
  BY <1>1, <1>2, <1>3, <1>4, <1>5, <1>6 DEF Network

LEMMA SignalingIsEvents ==
  ASSUME CombinedInv, Signaling
  PROVE  Events!Next \/ UNCHANGED Events!vars
<1>1. ASSUME NEW d \in {"offer", "answer"}, OnSuccess(d) \/ OnFailure(d)
      PROVE  Events!Next
  BY <1>1, EventsSteps DEF OnSuccess, OnFailure, Reported
<1>2. CASE OnDataChannel \/ OnMessage
  BY <1>2 DEF OnDataChannel, OnMessage, Events!vars
<1> QED
  BY <1>1, <1>2 DEF Signaling

LEMMA ApplicationIsEvents ==
  ASSUME CombinedInv, Application \/ SpuriousWakeup
  PROVE  Events!Next \/ UNCHANGED Events!vars
<1> USE DEF Main, Seen, Events!vars
<1>1. CASE Begin
  <2>1. socket = "idle" /\ made = {} /\ socket' = "pending" /\ UNCHANGED <<type_, told, sdpVars>>
    BY <1>1 DEF Begin, CombinedInv, Pointers
  <2>2. CASE "connection" \in made'
    BY <2>1, <2>2, EventsSteps
  <2>3. CASE "connection" \notin made'
    BY <2>1, <2>3
  <2> QED BY <2>2, <2>3
<1>2. CASE deinit_signaling
  BY <1>2, EventsSteps DEF deinit_signaling, CombinedInv, TypeOK
<1>3. CASE \/ connect_sync \/ wait_for_data_channel_connection \/ send_message_sync
           \/ Stop \/ Return \/ SpuriousWakeup
  BY <1>3 DEF connect_sync, wait_for_data_channel_connection, send_message_sync, Use, Stop,
              Return, SpuriousWakeup
<1>4. CASE CloseChannel \/ ClearChannel \/ CloseConnection \/ StopThreads
  BY <1>4 DEF CloseChannel, ClearChannel, CloseConnection, StopThreads
<1> QED
  BY <1>1, <1>2, <1>3, <1>4 DEF Application

\* Nothing but the server and the library leads to a role or a description, whatever
\* init_webrtc made and whatever the destructor has cleared: a listener never finds
\* that a connection that was made is gone.
THEOREM SignalingOnlyHolds == Spec => SignalingOnly
<1>1. CombinedInv /\ [Next]_vars => Events!Next \/ UNCHANGED Events!vars
  <2>1. UNCHANGED vars => UNCHANGED Events!vars
    BY DEF vars, Events!vars
  <2> QED
    BY <2>1, NetworkIsEvents, SignalingIsEvents, ApplicationIsEvents DEF Next
<1> QED
  BY <1>1, EventsInit, CombinedInvariant, PTL DEF Spec, SignalingOnly, Events!Spec

\* The steps of ClientEvents in which the server tells the client something.
Hears ==
    \/ Events!Role("client") \/ Events!Ready("client")
    \/ Events!Offer("client") \/ Events!Answer("client")

\* CombinedClient leaves nothing out either: as long as the connection that init_webrtc
\* made is there, a listener takes whatever ClientEvents lets the server tell.
THEOREM NothingRefused ==
  ASSUME Running, peer_connection_ = "open", "connection" \in made,
         Hears, UNCHANGED <<main, socket, webrtcVars, fault>>
  PROVE  Network
<1> USE DEF Events!sdpVars, Use
<1>0. \A v : Only(v)["client"] = v
  BY OnlyKept
<1>1. ASSUME NEW v, NEW w, Only(v) = Only(w)
      PROVE  v = w
  BY <1>0, <1>1
<1>2. \A v, w : [Only(v) EXCEPT !["client"] = w] = Only(w)
  BY OnlyKept
<1>3. Only("connection" \in made)["client"]
  BY DEF Only
<1>4. ASSUME NEW ev, Events!Receives("client", ev)
      PROVE  Receives(ev)
  <2>1. socket = "open" /\ ev \notin told
    BY <1>0, <1>4 DEF Events!Receives
  <2>2. Only(told') = Only(told \cup {ev})
    BY <1>0, <1>2, <1>4 DEF Events!Receives
  <2>3. told' = told \cup {ev}
    BY <1>1, <2>2
  <2> QED BY <2>1, <2>3 DEF Receives
<1>5. ASSUME NEW d, Events!Creates("client", d)
      PROVE  creating' = creating \cup {d}
  <2>1. Only(creating') = Only(creating \cup {d})
    BY <1>0, <1>2, <1>3, <1>5 DEF Events!Creates
  <2> QED BY <1>1, <2>1
<1>6. /\ Only(type_)' = Only(type_) => UNCHANGED type_
      /\ Only(creating)' = Only(creating) => UNCHANGED creating
      /\ Only(local)' = Only(local) => UNCHANGED local
      /\ Only(remote)' = Only(remote) => UNCHANGED remote
  BY <1>0
<1>7. [Only(remote) EXCEPT !["client"] = TRUE] = Only(remote)' => remote' = TRUE
  BY <1>0, <1>2
<1>8. ASSUME NEW t, Only(type_)' = [Only(type_) EXCEPT !["client"] = t]
      PROVE  type_' = t
  BY <1>0, <1>2, <1>8
<1>11. CASE Events!Role("client")
  <2>1. Receives("role") /\ UNCHANGED sdpVars
    BY <1>4, <1>6, <1>11 DEF Events!Role
  <2>2. type_' \in {"Caller", "Callee"}
    BY <1>8, <1>11 DEF Events!Role
  <2> QED BY <2>1, <2>2 DEF set_as_caller, set_as_callee, Network
<1>12. CASE Events!Ready("client")
  <2>1. Receives("ready") /\ UNCHANGED <<type_, local, remote>>
    BY <1>4, <1>6, <1>12 DEF Events!Ready
  <2>2. IF type_ = "Caller" THEN creating' = creating \cup {"offer"} ELSE UNCHANGED creating
    BY <1>0, <1>5, <1>6, <1>12 DEF Events!Ready
  <2> QED BY <2>1, <2>2 DEF ready, create_offer, Network
<1>13. CASE Events!Offer("client")
  <2>1. Receives("offer") /\ UNCHANGED <<type_, local>>
    BY <1>4, <1>6, <1>13 DEF Events!Offer
  <2>2. \/ UNCHANGED <<creating, remote>>
        \/ /\ type_ = "Callee" /\ creating' = creating \cup {"answer"}
           /\ remote' \in {remote, TRUE}
    BY <1>0, <1>5, <1>6, <1>7, <1>13 DEF Events!Offer
  <2> QED BY <2>1, <2>2 DEF offer, receive_offer_create_answer, Network
<1>14. CASE Events!Answer("client")
  <2>1. Receives("answer") /\ UNCHANGED <<type_, creating, local>>
    BY <1>4, <1>6, <1>14 DEF Events!Answer
  <2>2. UNCHANGED remote \/ (type_ = "Caller" /\ local /\ remote' = TRUE)
    BY <1>0, <1>6, <1>7, <1>14 DEF Events!Answer
  <2> QED BY <2>1, <2>2 DEF answer, receive_answer, Network
<1> QED
  BY <1>11, <1>12, <1>13, <1>14 DEF Hears

=============================================================================
