---------------------------- MODULE AndroidProofs ----------------------------
(***************************************************************************)
(* Proofs about AndroidDataChannel: its inductive invariant, the two       *)
(* safety properties of the application between onCreate and onDestroy,    *)
(* and what it shares with ClientEvents.                                   *)
(***************************************************************************)
EXTENDS AndroidDataChannel, TLAPS

(* The shapes of a step, for the leaves below. *)
USE DEF Clients, Waits, uiVars, sdpVars, channelVars

(* No activity has been created. *)
LEMMA PhoneInit == Init => PhoneInv
<1> SUFFICES ASSUME Init PROVE PhoneInv
  OBVIOUS
<1>1. TypeOK
  <2>1. current \in 0 .. MaxStarts
    BY MaxStartsAssumption DEF Init
  <2> QED
    BY <2>1 DEF Init, TypeOK
<1>2. Joined
  BY DEF Init, Joined
<1>3. Told
  BY DEF Init, Told
<1>4. Lifetime
  BY DEF Init, Lifetime
<1>5. DeinitDestroys
  BY DEF Init, DeinitDestroys
<1> QED
  BY <1>1, <1>2, <1>3, <1>4, <1>5 DEF PhoneInv

(* The UI thread starts the application thread of a client nobody has used. *)
LEMMA initNativeStep == PhoneInv /\ initNative => PhoneInv'
<1> SUFFICES ASSUME PhoneInv, initNative PROVE PhoneInv'
  OBVIOUS
<1>1. TypeOK'
  <2>1. current' \in 0 .. MaxStarts /\ current' \in Clients
    BY MaxStartsAssumption DEF PhoneInv, TypeOK, initNative
  <2>2. app' \in [Clients -> Waits \cup {"none", "begin", "calling", "connected",
                                       "loop", "stopping", "leaving", "returned"}]
    BY DEF PhoneInv, TypeOK, initNative
  <2> QED
    BY <2>1, <2>2 DEF PhoneInv, TypeOK, initNative
<1>2. Joined'
  BY DEF PhoneInv, TypeOK, Joined, initNative
<1>3. Told'
  BY DEF PhoneInv, Told, initNative
<1>4. Lifetime'
  BY DEF PhoneInv, TypeOK, Lifetime, Joined, initNative
<1>5. DeinitDestroys'
  BY DEF PhoneInv, DeinitDestroys, initNative
<1> QED
  BY <1>1, <1>2, <1>3, <1>4, <1>5 DEF PhoneInv

LEMMA initNative_onStep == PhoneInv /\ initNative_on => PhoneInv'
<1> SUFFICES ASSUME PhoneInv, initNative_on PROVE PhoneInv'
  OBVIOUS
<1>1. TypeOK'
  BY DEF PhoneInv, TypeOK, initNative_on
<1>2. Joined'
  BY DEF PhoneInv, Joined, initNative_on
<1>3. Told'
  BY DEF PhoneInv, Told, initNative_on
<1>4. Lifetime'
  BY DEF PhoneInv, Lifetime, initNative_on
<1>5. DeinitDestroys'
  BY DEF PhoneInv, DeinitDestroys, initNative_on
<1> QED
  BY <1>1, <1>2, <1>3, <1>4, <1>5 DEF PhoneInv

LEMMA deinitNativeStep == PhoneInv /\ deinitNative => PhoneInv'
<1> SUFFICES ASSUME PhoneInv, deinitNative PROVE PhoneInv'
  OBVIOUS
<1>1. TypeOK'
  BY DEF PhoneInv, TypeOK, deinitNative
<1>2. Joined'
  BY DEF PhoneInv, Joined, deinitNative
<1>3. Told'
  BY DEF PhoneInv, Told, deinitNative
<1>4. Lifetime'
  BY DEF PhoneInv, Lifetime, deinitNative
<1>5. DeinitDestroys'
  BY DEF PhoneInv, DeinitDestroys, deinitNative
<1> QED
  BY <1>1, <1>2, <1>3, <1>4, <1>5 DEF PhoneInv

(* The application thread of the current client has returned. *)
LEMMA pthread_joinStep == PhoneInv /\ pthread_join => PhoneInv'
<1> SUFFICES ASSUME PhoneInv, pthread_join PROVE PhoneInv'
  OBVIOUS
<1>1. TypeOK'
  BY DEF PhoneInv, TypeOK, pthread_join
<1>2. Joined'
  BY DEF PhoneInv, Joined, pthread_join
<1>3. Told'
  BY DEF PhoneInv, Told, pthread_join
<1>4. Lifetime'
  BY DEF PhoneInv, Lifetime, pthread_join
<1>5. DeinitDestroys'
  BY DEF PhoneInv, DeinitDestroys, pthread_join
<1> QED
  BY <1>1, <1>2, <1>3, <1>4, <1>5 DEF PhoneInv

(* The socket's callbacks. *)
LEMMA on_connectedStep ==
  ASSUME NEW c \in Clients, PhoneInv, on_connected(c)
  PROVE  PhoneInv'
<1>1. TypeOK'
  BY DEF PhoneInv, TypeOK, on_connected, Notify
<1>2. Joined'
  BY DEF PhoneInv, Joined, on_connected, Notify
<1>3. Told'
  BY DEF PhoneInv, Told, on_connected, Notify
<1>4. Lifetime'
  BY DEF PhoneInv, Lifetime, on_connected, Notify
<1>5. DeinitDestroys'
  BY DEF PhoneInv, DeinitDestroys, on_connected, Notify
<1> QED
  BY <1>1, <1>2, <1>3, <1>4, <1>5 DEF PhoneInv

LEMMA on_failStep ==
  ASSUME NEW c \in Clients, PhoneInv, on_fail(c)
  PROVE  PhoneInv'
<1>1. TypeOK'
  BY DEF PhoneInv, TypeOK, on_fail, Notify
<1>2. Joined'
  BY DEF PhoneInv, Joined, on_fail, Notify
<1>3. Told'
  BY DEF PhoneInv, Told, on_fail, Notify
<1>4. Lifetime'
  BY DEF PhoneInv, Lifetime, on_fail, Notify
<1>5. DeinitDestroys'
  BY DEF PhoneInv, DeinitDestroys, on_fail, Notify
<1> QED
  BY <1>1, <1>2, <1>3, <1>4, <1>5 DEF PhoneInv

LEMMA on_closeStep ==
  ASSUME NEW c \in Clients, PhoneInv, on_close(c)
  PROVE  PhoneInv'
<1>1. TypeOK'
  BY DEF PhoneInv, TypeOK, on_close
<1>2. Joined'
  BY DEF PhoneInv, Joined, on_close
<1>3. Told'
  BY DEF PhoneInv, Told, on_close
<1>4. Lifetime'
  BY DEF PhoneInv, Lifetime, on_close
<1>5. DeinitDestroys'
  BY DEF PhoneInv, DeinitDestroys, on_close
<1> QED
  BY <1>1, <1>2, <1>3, <1>4, <1>5 DEF PhoneInv

(* The listeners: a role comes before anything it decides. *)
LEMMA set_as_callerStep ==
  ASSUME NEW c \in Clients, PhoneInv, set_as_caller(c)
  PROVE  PhoneInv'
<1>1. TypeOK'
  BY DEF PhoneInv, TypeOK, set_as_caller, Receives
<1>2. Joined'
  BY DEF PhoneInv, Joined, set_as_caller, Receives
<1>3. Told'
  BY DEF PhoneInv, TypeOK, Told, set_as_caller, Receives
<1>4. Lifetime'
  BY DEF PhoneInv, Lifetime, set_as_caller, Receives
<1>5. DeinitDestroys'
  BY DEF PhoneInv, DeinitDestroys, set_as_caller, Receives
<1> QED
  BY <1>1, <1>2, <1>3, <1>4, <1>5 DEF PhoneInv

LEMMA set_as_calleeStep ==
  ASSUME NEW c \in Clients, PhoneInv, set_as_callee(c)
  PROVE  PhoneInv'
<1>1. TypeOK'
  BY DEF PhoneInv, TypeOK, set_as_callee, Receives
<1>2. Joined'
  BY DEF PhoneInv, Joined, set_as_callee, Receives
<1>3. Told'
  BY DEF PhoneInv, TypeOK, Told, set_as_callee, Receives
<1>4. Lifetime'
  BY DEF PhoneInv, Lifetime, set_as_callee, Receives
<1>5. DeinitDestroys'
  BY DEF PhoneInv, DeinitDestroys, set_as_callee, Receives
<1> QED
  BY <1>1, <1>2, <1>3, <1>4, <1>5 DEF PhoneInv

(* A listener asks for a description, or for none, and perhaps sets the remote *)
(* one: what the server told the client allows it.                             *)
LEMMA Asked ==
  ASSUME NEW c \in Clients, PhoneInv, NEW ev, Receives(c, ev), NEW asked,
         \/ ev = "ready" /\ type_[c] = "Caller" /\ asked = "offer"
         \/ ev = "offer" /\ type_[c] = "Callee" /\ asked = "answer",
         \/ creating' = creating
         \/ creating' = [creating EXCEPT ![c] = @ \cup {asked}],
         remote' = remote \/ remote' = [remote EXCEPT ![c] = TRUE],
         UNCHANGED <<type_, local>>
  PROVE  PhoneInv'
<1>1. TypeOK'
  <2>1. remote' \in [Clients -> BOOLEAN]
    BY DEF PhoneInv, TypeOK
  <2>2. creating' \in [Clients -> SUBSET {"offer", "answer"}]
    BY DEF PhoneInv, TypeOK
  <2>3. told' \in [Clients -> SUBSET {"role", "ready", "offer", "answer"}]
    BY DEF PhoneInv, TypeOK, Receives
  <2> QED
    BY <2>1, <2>2, <2>3 DEF PhoneInv, TypeOK, Receives
<1>2. Joined'
  BY DEF PhoneInv, Joined, Receives
<1>3. Told'
  <2>1. \A b \in Clients : \/ creating'[b] = creating[b]
                           \/ b = c /\ creating'[b] = creating[b] \cup {asked}
    <3>1. CASE creating' = creating
      BY <3>1
    <3>2. CASE creating' = [creating EXCEPT ![c] = @ \cup {asked}]
      BY <3>2 DEF PhoneInv, TypeOK
    <3> QED
      BY <3>1, <3>2
  <2>2. \A b \in Clients : told'[b] = told[b] \cup (IF b = c THEN {ev} ELSE {})
    BY DEF PhoneInv, TypeOK, Receives
  <2>3. ~local[c] /\ ev \notin told[c]
    BY DEF PhoneInv, Told, Receives
  <2>4. data_channel_' = data_channel_
    BY DEF Receives
  <2>5. SUFFICES ASSUME NEW b \in Clients
                 PROVE  /\ type_[b] = "Undefined" <=> "role" \notin told'[b]
                        /\ "offer" \in creating'[b] => type_[b] = "Caller" /\ "ready" \in told'[b]
                        /\ "answer" \in creating'[b] => type_[b] = "Callee" /\ "offer" \in told'[b]
                        /\ local[b] =>
                            /\ creating'[b] = {}
                            /\ \/ type_[b] = "Caller" /\ "ready" \in told'[b]
                               \/ type_[b] = "Callee" /\ "offer" \in told'[b]
                        /\ data_channel_[b] = "announced" => local[b]
    BY <2>4 DEF Told
  <2>6. CASE b = c
    BY <2>1, <2>2, <2>3, <2>6 DEF PhoneInv, Told
  <2>7. CASE b # c
    BY <2>1, <2>2, <2>7 DEF PhoneInv, Told
  <2> QED
    BY <2>6, <2>7
<1>4. Lifetime'
  BY DEF PhoneInv, TypeOK, Lifetime, Receives
<1>5. DeinitDestroys'
  BY DEF PhoneInv, DeinitDestroys, Receives
<1> QED
  BY <1>1, <1>2, <1>3, <1>4, <1>5 DEF PhoneInv

(* A listener that asks for nothing. *)
LEMMA Unasked ==
  ASSUME NEW c \in Clients, PhoneInv, NEW ev \in {"ready", "offer", "answer"}, Receives(c, ev),
         remote' = remote \/ remote' = [remote EXCEPT ![c] = TRUE],
         UNCHANGED <<type_, creating, local>>
  PROVE  PhoneInv'
<1>1. TypeOK'
  BY DEF PhoneInv, TypeOK, Receives
<1>2. Joined'
  BY DEF PhoneInv, Joined, Receives
<1>3. Told'
  BY DEF PhoneInv, Told, Receives
<1>4. Lifetime'
  BY DEF PhoneInv, Lifetime, Receives
<1>5. DeinitDestroys'
  BY DEF PhoneInv, DeinitDestroys, Receives
<1> QED
  BY <1>1, <1>2, <1>3, <1>4, <1>5 DEF PhoneInv

LEMMA readyStep ==
  ASSUME NEW c \in Clients, PhoneInv, ready(c)
  PROVE  PhoneInv'
<1>1. CASE type_[c] = "Caller"
  BY <1>1, Asked DEF ready, create_offer
<1>2. CASE type_[c] # "Caller"
  BY <1>2, Unasked DEF ready
<1> QED
  BY <1>1, <1>2

LEMMA offerStep ==
  ASSUME NEW c \in Clients, PhoneInv, offer(c)
  PROVE  PhoneInv'
<1>1. CASE type_[c] = "Callee"
  BY <1>1, Asked DEF offer, receive_offer_create_answer
<1>2. CASE type_[c] # "Callee"
  BY <1>2, Unasked DEF offer
<1> QED
  BY <1>1, <1>2

LEMMA answerStep ==
  ASSUME NEW c \in Clients, PhoneInv, answer(c)
  PROVE  PhoneInv'
<1>1. remote' = remote \/ remote' = [remote EXCEPT ![c] = TRUE]
  BY DEF answer, receive_answer
<1> QED
  BY <1>1, Unasked DEF answer

(* The channel is announced to a client that still exists: a description is set
   and none is under way, so the destructor has not run. *)
LEMMA OnDataChannelStep ==
  ASSUME NEW c \in Clients, PhoneInv, OnDataChannel(c)
  PROVE  PhoneInv'
<1>1. TypeOK'
  BY DEF PhoneInv, TypeOK, OnDataChannel, Notify, Up
<1>2. Joined'
  BY DEF PhoneInv, Joined, OnDataChannel, Notify, Up
<1>3. Told'
  BY DEF PhoneInv, Told, OnDataChannel, Notify, Up
<1>4. Lifetime'
  BY DEF PhoneInv, Lifetime, OnDataChannel, Notify, Up
<1>5. DeinitDestroys'
  BY DEF PhoneInv, Told, Lifetime, DeinitDestroys, OnDataChannel, Notify, Up
<1> QED
  BY <1>1, <1>2, <1>3, <1>4, <1>5 DEF PhoneInv

LEMMA OnMessageStep ==
  ASSUME NEW c \in Clients, PhoneInv, OnMessage(c)
  PROVE  PhoneInv'
<1>1. TypeOK'
  BY DEF PhoneInv, TypeOK, OnMessage, Notify
<1>2. Joined'
  BY DEF PhoneInv, Joined, OnMessage, Notify
<1>3. Told'
  BY DEF PhoneInv, Told, OnMessage, Notify
<1>4. Lifetime'
  BY DEF PhoneInv, Lifetime, OnMessage, Notify
<1>5. DeinitDestroys'
  BY DEF PhoneInv, DeinitDestroys, OnMessage, Notify
<1> QED
  BY <1>1, <1>2, <1>3, <1>4, <1>5 DEF PhoneInv

(* The application thread goes from one of its calls to the next. *)
Between == Waits \cup {"calling", "connected", "loop", "stopping"}

LEMMA AppMoves ==
  ASSUME NEW c \in Clients, NEW to \in Between, PhoneInv,
         app[c] \in Between, app' = [app EXCEPT ![c] = to],
         awaiting' \in [Clients -> BOOLEAN],
         UNCHANGED <<uiVars, socket, type_, told, sdpVars, data_channel_, destroyer>>
  PROVE  PhoneInv'
<1>1. TypeOK'
  BY DEF PhoneInv, TypeOK, Between
<1>2. Joined'
  BY DEF PhoneInv, Joined, Between
<1>3. Told'
  BY DEF PhoneInv, Told
<1>4. Lifetime'
  BY DEF PhoneInv, TypeOK, Lifetime, Between
<1>5. DeinitDestroys'
  BY DEF PhoneInv, DeinitDestroys, Between
<1> QED
  BY <1>1, <1>2, <1>3, <1>4, <1>5 DEF PhoneInv

(* The client is made by its application thread. *)
LEMMA BeginStep ==
  ASSUME NEW c \in Clients, PhoneInv, Begin(c)
  PROVE  PhoneInv'
<1>1. TypeOK'
  BY DEF PhoneInv, TypeOK, Begin, AppGoes, init_webrtc
<1>2. Joined'
  BY DEF PhoneInv, TypeOK, Joined, Begin, AppGoes, init_webrtc
<1>3. Told'
  BY DEF PhoneInv, Told, Begin, AppGoes, init_webrtc
<1>4. Lifetime'
  BY DEF PhoneInv, TypeOK, Lifetime, Begin, AppGoes, init_webrtc
<1>5. DeinitDestroys'
  BY DEF PhoneInv, DeinitDestroys, Begin, AppGoes, init_webrtc
<1> QED
  BY <1>1, <1>2, <1>3, <1>4, <1>5 DEF PhoneInv

LEMMA connect_syncStep ==
  ASSUME NEW c \in Clients, PhoneInv, connect_sync(c)
  PROVE  PhoneInv'
<1>1. AppGoes(c, "calling", "connecting") /\ UNCHANGED <<socket, sdpVars, channelVars, destroyer>>
  BY DEF connect_sync
<1>2. awaiting \in [Clients -> BOOLEAN]
  BY DEF PhoneInv, TypeOK
<1> QED
  BY <1>1, <1>2, AppMoves DEF AppGoes, Between

LEMMA wait_for_data_channel_connectionStep ==
  ASSUME NEW c \in Clients, PhoneInv, wait_for_data_channel_connection(c)
  PROVE  PhoneInv'
<1>1. PICK to \in {"opening", "loop"} :
        AppGoes(c, "connected", to) /\ UNCHANGED <<socket, sdpVars, channelVars, destroyer>>
  BY DEF wait_for_data_channel_connection
<1>2. awaiting \in [Clients -> BOOLEAN]
  BY DEF PhoneInv, TypeOK
<1> QED
  BY <1>1, <1>2, AppMoves DEF AppGoes, Between

LEMMA LoopStep ==
  ASSUME NEW c \in Clients, PhoneInv, Loop(c)
  PROVE  PhoneInv'
<1>1. awaiting \in [Clients -> BOOLEAN] /\ [awaiting EXCEPT ![c] = TRUE] \in [Clients -> BOOLEAN]
  BY DEF PhoneInv, TypeOK
<1>2. PICK to \in {"reply", "stopping"} : AppGoes(c, "loop", to)
  BY DEF Loop, send_message_sync
<1>3. awaiting' \in [Clients -> BOOLEAN]
  BY <1>1 DEF Loop, send_message_sync
<1>4. UNCHANGED <<socket, sdpVars, data_channel_, destroyer>>
  BY DEF Loop
<1> QED
  BY <1>2, <1>3, <1>4, AppMoves DEF AppGoes, Between

(* The last calls of the application thread. *)
LEMMA deinit_signalingStep ==
  ASSUME NEW c \in Clients, PhoneInv, deinit_signaling(c)
  PROVE  PhoneInv'
<1>1. TypeOK'
  BY DEF PhoneInv, TypeOK, deinit_signaling, AppGoes
<1>2. Joined'
  BY DEF PhoneInv, Joined, deinit_signaling, AppGoes
<1>3. Told'
  BY DEF PhoneInv, Told, deinit_signaling, AppGoes
<1>4. Lifetime'
  BY DEF PhoneInv, TypeOK, Lifetime, deinit_signaling, AppGoes
<1>5. DeinitDestroys'
  BY DEF PhoneInv, DeinitDestroys, deinit_signaling, AppGoes
<1> QED
  BY <1>1, <1>2, <1>3, <1>4, <1>5 DEF PhoneInv

LEMMA ReturnStep ==
  ASSUME NEW c \in Clients, PhoneInv, Return(c)
  PROVE  PhoneInv'
<1>1. TypeOK'
  BY DEF PhoneInv, TypeOK, Return, AppGoes
<1>2. Joined'
  BY DEF PhoneInv, Joined, Return, AppGoes
<1>3. Told'
  BY DEF PhoneInv, Told, Return, AppGoes
<1>4. Lifetime'
  BY DEF PhoneInv, TypeOK, Lifetime, Return, AppGoes
<1>5. DeinitDestroys'
  BY DEF PhoneInv, TypeOK, Told, DeinitDestroys, Return, AppGoes
<1> QED
  BY <1>1, <1>2, <1>3, <1>4, <1>5 DEF PhoneInv

LEMMA SpuriousWakeupStep ==
  ASSUME NEW c \in Clients, PhoneInv, SpuriousWakeup(c)
  PROVE  PhoneInv'
<1>1. PICK from \in Waits, to \in {"connected", "loop"} : AppGoes(c, from, to)
  BY DEF SpuriousWakeup
<1>2. UNCHANGED <<socket, sdpVars, channelVars, destroyer>>
  BY DEF SpuriousWakeup
<1>3. awaiting \in [Clients -> BOOLEAN]
  BY DEF PhoneInv, TypeOK
<1> QED
  BY <1>1, <1>2, <1>3, AppMoves DEF AppGoes, Between

(* A description reported gives up the reference: it was the only one under way. *)
LEMMA OnSuccessStep ==
  ASSUME NEW c \in Clients, NEW d \in {"offer", "answer"}, PhoneInv, OnSuccess(c, d)
  PROVE  PhoneInv'
<1>1. TypeOK'
  BY DEF PhoneInv, TypeOK, OnSuccess, Release, AppHolds
<1>2. Joined'
  BY DEF PhoneInv, Joined, OnSuccess, Release, AppHolds
<1>3. Told'
  <2>1. creating' = [creating EXCEPT ![c] = {}]
    <3>1. creating[c] = {d}
      <4>1. creating[c] \in SUBSET {"offer", "answer"}
        BY DEF PhoneInv, TypeOK
      <4>2. d \in creating[c]
        BY DEF OnSuccess, Release
      <4>3. ~("offer" \in creating[c] /\ "answer" \in creating[c])
        BY DEF PhoneInv, Told
      <4> QED
        BY <4>1, <4>2, <4>3
    <3>2. creating' = [creating EXCEPT ![c] = creating[c] \ {d}]
      BY DEF OnSuccess, Release
    <3>3. creating[c] \ {d} = {}
      BY <3>1
    <3> QED
      BY <3>2, <3>3
  <2>2. \/ type_[c] = "Caller" /\ "ready" \in told[c]
        \/ type_[c] = "Callee" /\ "offer" \in told[c]
    BY DEF PhoneInv, Told, OnSuccess, Release
  <2>3. \A b \in Clients : /\ creating'[b] \subseteq creating[b]
                           /\ b = c => creating'[b] = {}
                           /\ local[b] => local'[b]
                           /\ b # c => local'[b] = local[b]
    <3>1. CASE local' = local
      BY <2>1, <3>1 DEF PhoneInv, TypeOK
    <3>2. CASE local' = [local EXCEPT ![c] = TRUE]
      BY <2>1, <3>2 DEF PhoneInv, TypeOK
    <3> QED
      BY <3>1, <3>2 DEF OnSuccess
  <2>4. UNCHANGED <<type_, told, data_channel_>>
    BY DEF OnSuccess
  <2> QED
    BY <2>2, <2>3, <2>4 DEF PhoneInv, Told
<1>4. Lifetime'
  BY DEF PhoneInv, TypeOK, Told, Lifetime, OnSuccess, Release, AppHolds
<1>5. DeinitDestroys'
  BY DEF PhoneInv, Lifetime, DeinitDestroys, OnSuccess, Release, AppHolds
<1> QED
  BY <1>1, <1>2, <1>3, <1>4, <1>5 DEF PhoneInv

LEMMA OnFailureStep ==
  ASSUME NEW c \in Clients, NEW d \in {"offer", "answer"}, PhoneInv, OnFailure(c, d)
  PROVE  PhoneInv'
<1>1. TypeOK'
  BY DEF PhoneInv, TypeOK, OnFailure, Release, AppHolds
<1>2. Joined'
  BY DEF PhoneInv, Joined, OnFailure, Release, AppHolds
<1>3. Told'
  BY DEF PhoneInv, Told, OnFailure, Release, AppHolds
<1>4. Lifetime'
  BY DEF PhoneInv, TypeOK, Told, Lifetime, OnFailure, Release, AppHolds
<1>5. DeinitDestroys'
  BY DEF PhoneInv, Lifetime, DeinitDestroys, OnFailure, Release, AppHolds
<1> QED
  BY <1>1, <1>2, <1>3, <1>4, <1>5 DEF PhoneInv

(* The unchanged variables of a stuttering step. *)
LEMMA PhoneStutters == PhoneInv /\ UNCHANGED vars => PhoneInv'
BY DEF PhoneInv, TypeOK, Joined, Told, Lifetime, DeinitDestroys, vars

LEMMA PhoneNext == PhoneInv /\ [Next]_vars => PhoneInv'
<1> SUFFICES ASSUME PhoneInv, [Next]_vars PROVE PhoneInv'
  OBVIOUS
<1>1. CASE Activity
  BY <1>1, initNativeStep, initNative_onStep, deinitNativeStep, pthread_joinStep DEF Activity
<1>2. CASE \E c \in Clients : Network(c)
  <2> PICK c \in Clients : Network(c)
    BY <1>2
  <2> QED
    BY on_connectedStep, on_failStep, on_closeStep, set_as_callerStep, set_as_calleeStep,
       readyStep, offerStep, answerStep DEF Network
<1>3. CASE \E c \in Clients : Signaling(c)
  <2> PICK c \in Clients : Signaling(c)
    BY <1>3
  <2> QED
    BY OnSuccessStep, OnFailureStep, OnDataChannelStep, OnMessageStep DEF Signaling
<1>4. CASE \E c \in Clients : Application(c) \/ SpuriousWakeup(c)
  <2> PICK c \in Clients : Application(c) \/ SpuriousWakeup(c)
    BY <1>4
  <2> QED
    BY BeginStep, connect_syncStep, wait_for_data_channel_connectionStep, LoopStep,
       deinit_signalingStep, ReturnStep, SpuriousWakeupStep DEF Application
<1>5. CASE UNCHANGED vars
  BY <1>5, PhoneStutters
<1> QED
  BY <1>1, <1>2, <1>3, <1>4, <1>5 DEF Next

\* The application thread, the client it owns and what the server told the
\* client agree in every state, for any number of activities.
THEOREM PhoneInvariant == Spec => []PhoneInv
BY PhoneInit, PhoneNext, PTL DEF Spec

\* A client whose channel was announced is destroyed by its application thread.
THEOREM DeinitDestroysHolds == Spec => []DeinitDestroys
<1>1. PhoneInv => DeinitDestroys
  BY DEF PhoneInv
<1> QED
  BY <1>1, PhoneInvariant, PTL

------------------------------------------------------------------------------
(* What a step that gives up a connected client tells *)

GivesUpRightly ==
    \A c \in Clients :
        app[c] = "loop" /\ app'[c] = "stopping" =>
            ~connected_(c) \/ ui \in {"starting", "joining"}

(* A step that sends no application thread from loop to stopping. *)
LEMMA NobodyGivesUp ==
  ASSUME PhoneInv,
         \/ app' = app
         \/ \E c \in Clients, to \in {"connected", "loop", "begin", "returned", "leaving",
                                      "calling", "connecting", "opening", "reply"} :
                app' = [app EXCEPT ![c] = to]
  PROVE  GivesUpRightly
BY DEF PhoneInv, TypeOK, GivesUpRightly

LEMMA GivesUpNext == PhoneInv /\ [Next]_vars => GivesUpRightly
<1> SUFFICES ASSUME PhoneInv, [Next]_vars PROVE GivesUpRightly
  OBVIOUS
<1>1. CASE Activity
  <2>1. app' = app \/ (current' \in Clients /\ app' = [app EXCEPT ![current'] = "begin"])
    BY <1>1, MaxStartsAssumption
    DEF PhoneInv, TypeOK, Activity, initNative, initNative_on, deinitNative, pthread_join
  <2> QED
    BY <2>1, NobodyGivesUp
<1>2. ASSUME NEW c \in Clients, Network(c) PROVE GivesUpRightly
  BY <1>2, NobodyGivesUp
  DEF Network, on_connected, on_fail, on_close, Notify, set_as_caller, set_as_callee,
      ready, offer, answer, Receives
<1>3. ASSUME NEW c \in Clients, Signaling(c) PROVE GivesUpRightly
  BY <1>3, NobodyGivesUp DEF Signaling, OnSuccess, OnFailure, OnDataChannel, OnMessage, Notify
<1>4. ASSUME NEW c \in Clients, Loop(c) PROVE GivesUpRightly
  <2>1. CASE KeepsOn(c)
    <3>1. app' = [app EXCEPT ![c] = "reply"]
      BY <1>4, <2>1 DEF Loop, send_message_sync, AppGoes
    <3> QED
      BY <3>1, NobodyGivesUp
  <2>2. CASE ~KeepsOn(c)
    <3>1. app' = [app EXCEPT ![c] = "stopping"] /\ app[c] = "loop"
      BY <1>4, <2>2 DEF Loop, AppGoes
    <3>2. ~connected_(c) \/ ~system_on
      BY <2>2 DEF KeepsOn
    <3>3. ~system_on => ui \in {"starting", "joining"}
      <4>1. ui # "running" \/ system_on
        BY DEF PhoneInv, Joined
      <4>2. ui # "idle"
        BY <3>1 DEF PhoneInv, TypeOK, Joined
      <4>3. ui \in {"idle", "starting", "running", "joining"}
        BY DEF PhoneInv, TypeOK
      <4> QED
        BY <4>1, <4>2, <4>3
    <3>4. \A b \in Clients : b # c => app'[b] = app[b]
      BY <3>1 DEF PhoneInv, TypeOK
    <3> QED
      BY <3>2, <3>3, <3>4 DEF GivesUpRightly
  <2> QED
    BY <2>1, <2>2
<1>5. ASSUME NEW c \in Clients,
             Begin(c) \/ connect_sync(c) \/ wait_for_data_channel_connection(c)
               \/ deinit_signaling(c) \/ Return(c) \/ SpuriousWakeup(c)
      PROVE GivesUpRightly
  BY <1>5, NobodyGivesUp
  DEF Begin, connect_sync, wait_for_data_channel_connection, deinit_signaling, Return,
      SpuriousWakeup, AppGoes
<1>6. CASE UNCHANGED vars
  BY <1>6, NobodyGivesUp DEF vars
<1> QED
  BY <1>1, <1>2, <1>3, <1>4, <1>5, <1>6 DEF Next, Application

\* An application thread gives up a connected client only before initNative is
\* done or after deinitNative began, for any number of activities.
THEOREM StopsOnlyWhenToldHolds == Spec => StopsOnlyWhenTold
<1>1. PhoneInv /\ [Next]_vars =>
        [\A c \in Clients :
          app[c] = "loop" /\ app'[c] = "stopping" =>
              ~connected_(c) \/ ui \in {"starting", "joining"}]_vars
  BY GivesUpNext DEF GivesUpRightly
<1> QED
  BY <1>1, PhoneInvariant, PTL DEF Spec, StopsOnlyWhenTold

------------------------------------------------------------------------------
(***************************************************************************)
(* The client against ClientEvents: it takes no more from signaling than   *)
(* ClientEvents says, and refuses nothing that ClientEvents allows.        *)
(***************************************************************************)
LEMMA EventsInit == Init => Events!Init
  BY DEF Init, Events!Init

\* A step of the network thread is the same step of ClientEvents.
LEMMA NetworkIsEvents ==
  ASSUME TypeOK, NEW c \in Clients, Network(c)
  PROVE  Events!Next
<1> USE DEF Events!sdpVars
<1>1. CASE on_connected(c) \/ on_fail(c) \/ on_close(c)
  <2> DEFINE Seen(s) == IF s = "idle" THEN "pending" ELSE s
  <2>1. /\ UNCHANGED <<type_, told, sdpVars>>
        /\ \/ socket[c] = "pending" /\ socket' = [socket EXCEPT ![c] = "open"]
           \/ socket[c] \in {"pending", "open"} /\ socket' = [socket EXCEPT ![c] = "closed"]
    BY <1>1 DEF on_connected, on_fail, on_close
  <2>2. ASSUME NEW s \in {"open", "closed"}, socket' = [socket EXCEPT ![c] = s]
        PROVE  [b \in Clients |-> Seen(socket'[b])] = [[b \in Clients |-> Seen(socket[b])] EXCEPT ![c] = s]
    BY <2>2 DEF TypeOK
  <2>3. Events!Connects(c)
    BY <2>1, <2>2 DEF Events!Connects
  <2> QED BY <2>3 DEF Events!Next
<1>2. CASE set_as_caller(c) \/ set_as_callee(c)
  <2>1. Events!Role(c)
    BY <1>2 DEF set_as_caller, set_as_callee, Receives, Events!Role, Events!Receives
  <2> QED BY <2>1 DEF Events!Next
<1>3. CASE ready(c)
  <2>1. Events!Ready(c)
    BY <1>3 DEF ready, create_offer, Receives, Events!Ready, Events!Creates, Events!Receives
  <2> QED BY <2>1 DEF Events!Next
<1>4. CASE offer(c)
  <2>1. Events!Offer(c)
    BY <1>4 DEF offer, receive_offer_create_answer, Receives, Events!Offer,
                Events!Creates, Events!Receives
  <2> QED BY <2>1 DEF Events!Next
<1>5. CASE answer(c)
  <2>1. Events!Answer(c)
    BY <1>5 DEF answer, receive_answer, Receives, Events!Answer, Events!Receives
  <2> QED BY <2>1 DEF Events!Next
<1> QED
  BY <1>1, <1>2, <1>3, <1>4, <1>5 DEF Network

\* A description that is reported is one that ClientEvents has under way.
LEMMA CreatedIsEvents ==
  ASSUME TypeOK, NEW c \in Clients, NEW d \in {"offer", "answer"},
         OnSuccess(c, d) \/ OnFailure(c, d)
  PROVE  Events!Next
<1>1. /\ d \in creating[c] /\ creating' = [creating EXCEPT ![c] = @ \ {d}]
      /\ UNCHANGED <<socket, type_, told, remote>>
      /\ \/ UNCHANGED local
         \/ (d = "answer" => remote[c]) /\ local' = [local EXCEPT ![c] = TRUE]
  BY DEF OnSuccess, OnFailure, Release
<1>2. Events!Created(c, d)
  BY <1>1 DEF Events!Created
<1> QED BY <1>2 DEF Events!Next

\* The threads of the application change nothing that ClientEvents has but the
\* socket, which deinit_signaling closes.
LEMMA ApplicationIsEvents ==
  ASSUME PhoneInv, NEW c \in Clients, Application(c) \/ SpuriousWakeup(c)
  PROVE  Events!Next \/ UNCHANGED Events!vars
<1> USE DEF Events!vars, Events!sdpVars, AppGoes
<1>1. CASE Begin(c)
  BY <1>1 DEF Begin, PhoneInv, TypeOK, Lifetime
<1>2. CASE deinit_signaling(c)
  <2>1. CASE socket[c] = "closed"
    BY <1>2, <2>1 DEF deinit_signaling, PhoneInv, TypeOK
  <2>2. CASE socket[c] # "closed"
    <3>1. Events!Connects(c)
      BY <1>2, <2>2 DEF deinit_signaling, PhoneInv, TypeOK, Events!Connects
    <3> QED BY <3>1 DEF Events!Next
  <2> QED BY <2>1, <2>2
<1>3. CASE \/ connect_sync(c) \/ wait_for_data_channel_connection(c) \/ Loop(c)
           \/ Return(c) \/ SpuriousWakeup(c)
  BY <1>3 DEF connect_sync, wait_for_data_channel_connection, Loop, send_message_sync,
              Return, SpuriousWakeup
<1> QED
  BY <1>1, <1>2, <1>3 DEF Application

\* Nothing but the server and the library leads to a role or a description, in any
\* activity: what AndroidDataChannel lets its listeners do is what ClientEvents says.
THEOREM SignalingOnlyHolds == Spec => SignalingOnly
<1>1. PhoneInv /\ [Next]_vars => Events!Next \/ UNCHANGED Events!vars
  <2> SUFFICES ASSUME PhoneInv, [Next]_vars
               PROVE  Events!Next \/ UNCHANGED Events!vars
    OBVIOUS
  <2>0. TypeOK
    BY DEF PhoneInv
  <2>1. CASE Activity \/ UNCHANGED vars
    BY <2>1 DEF Activity, initNative, initNative_on, deinitNative, pthread_join, vars,
                Events!vars
  <2>2. ASSUME NEW c \in Clients, OnDataChannel(c) \/ OnMessage(c)
        PROVE  UNCHANGED Events!vars
    BY <2>2 DEF OnDataChannel, OnMessage, Events!vars
  <2> QED
    BY <2>0, <2>1, <2>2, NetworkIsEvents, CreatedIsEvents, ApplicationIsEvents
       DEF Next, Signaling
<1> QED
  BY <1>1, EventsInit, PhoneInvariant, PTL DEF Spec, SignalingOnly, Events!Spec

\* The steps of ClientEvents in which the server tells a client something.
Hears(c) == Events!Role(c) \/ Events!Ready(c) \/ Events!Offer(c) \/ Events!Answer(c)

\* AndroidDataChannel leaves nothing out: whatever ClientEvents lets the server tell a
\* client, and SignalingHistory shows that this is all it does, a listener takes.
THEOREM NothingRefused ==
  ASSUME NEW c \in Clients,
         Hears(c), UNCHANGED <<uiVars, app, socket, channelVars, destroyer>>
  PROVE  Network(c)
<1> USE DEF Events!sdpVars, Events!Receives, Receives, Events!Creates
<1>0. socket[c] = "open" <=> (IF socket[c] = "idle" THEN "pending" ELSE socket[c]) = "open"
  OBVIOUS
<1>1. CASE Events!Role(c)
  BY <1>0, <1>1 DEF Events!Role, set_as_caller, set_as_callee, Network
<1>2. CASE Events!Ready(c)
  BY <1>0, <1>2 DEF Events!Ready, ready, create_offer, Network
<1>3. CASE Events!Offer(c)
  BY <1>0, <1>3 DEF Events!Offer, offer, receive_offer_create_answer, Network
<1>4. CASE Events!Answer(c)
  BY <1>0, <1>4 DEF Events!Answer, answer, receive_answer, Network
<1> QED
  BY <1>1, <1>2, <1>3, <1>4 DEF Hears

=============================================================================
