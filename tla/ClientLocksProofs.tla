-------------------------- MODULE ClientLocksProofs --------------------------
(***************************************************************************)
(* The threads of a client never deadlock on its mutexes and calls.        *)
(***************************************************************************)
EXTENDS ClientLocks, TLAPS

\* The places and the owners of the mutexes keep their types and agree.
LEMMA OwnerStep ==
    ASSUME TypeOK, Holders, [Next]_vars
    PROVE  TypeOK' /\ Holders'
<1> USE DEF TypeOK, Holders, Thread, Mutex, MainPlace, SioPlace, SignalingPlace,
            Step, Go, Acquire, Release, Wait
<1>1. CASE connect_sync
  BY <1>1 DEF connect_sync
<1>2. CASE wait_for_data_channel_connection
  BY <1>2 DEF wait_for_data_channel_connection
<1>3. CASE send_message_sync
  BY <1>3 DEF send_message_sync
<1>4. CASE deinit_signaling
  BY <1>4 DEF deinit_signaling
<1>5. CASE destructor
  BY <1>5 DEF destructor
<1>6. CASE Event
  BY <1>6 DEF Event
<1>7. CASE ListenerCalls
  BY <1>7 DEF ListenerCalls
<1>8. CASE Serve
  BY <1>8 DEF Serve
<1>9. CASE Served
  BY <1>9 DEF Served
<1>10. CASE Callback
  BY <1>10 DEF Callback
<1>11. CASE CallbackRuns
  BY <1>11 DEF CallbackRuns, CallbackLocks
<1>12. CASE Respond
  BY <1>12 DEF Respond
<1>13. CASE UNCHANGED vars
  BY <1>13 DEF vars
<1> QED
  BY <1>1, <1>2, <1>3, <1>4, <1>5, <1>6, <1>7, <1>8, <1>9, <1>10, <1>11, <1>12, <1>13
  DEF Next

\* Each mutex is held exactly where the code holds it, and the signaling thread
\* runs the call of a thread that waits for it.
THEOREM Owners == Spec => []OwnerInv
<1>1. Init => OwnerInv
  BY DEF Init, OwnerInv, TypeOK, Holders, Thread, Mutex, MainPlace, SioPlace, SignalingPlace
<1>2. OwnerInv /\ [Next]_vars => OwnerInv'
  BY OwnerStep DEF OwnerInv
<1> QED BY <1>1, <1>2, PTL DEF Spec

\* No set of threads of a client ever waits for itself.
THEOREM NoDeadlock == Spec => []NoCircularWait
<1>1. OwnerInv => NoCircularWait
  <2> SUFFICES ASSUME TypeOK, Holders, NEW S \in (SUBSET Thread) \ {{}}
               PROVE  \E t \in S : WaitsFor(t) \cap S = {}
    BY DEF OwnerInv, NoCircularWait
  <2> USE DEF TypeOK, Holders, Thread, Mutex, WaitsFor, Wants, Calls,
              CallbackLocks
  \* Listeners wait for callbacks, callbacks for a main that holds the mutex of
  \* the channel, and main then waits for neither.
  <2>1. WaitsFor("signaling") \subseteq {"main"}
    OBVIOUS
  <2>2. WaitsFor("sio") \subseteq {"main", "signaling"}
    OBVIOUS
  <2>3. "main" \in WaitsFor("signaling") \cup WaitsFor("sio") => WaitsFor("main") = {}
    OBVIOUS
  <2>4. "main" \notin WaitsFor("main") /\ WaitsFor("main") \subseteq Thread
    OBVIOUS
  <2> HIDE DEF TypeOK, Holders, WaitsFor, Wants, Calls, CallbackLocks
  <2>5. CASE "signaling" \in S
    BY <2>1, <2>3, <2>5
  <2>6. CASE "signaling" \notin S /\ "sio" \in S
    BY <2>2, <2>3, <2>6
  <2>7. CASE "signaling" \notin S /\ "sio" \notin S
    <3>1. S \subseteq {"main", "sio", "signaling"} /\ S # {}
      OBVIOUS
    <3>2. S = {"main"}
      BY <2>7, <3>1, Zenon
    <3> QED BY <2>4, <3>2
  <2> QED BY <2>5, <2>6, <2>7
<1> QED BY <1>1, Owners, PTL

=============================================================================
