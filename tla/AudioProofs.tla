----------------------------- MODULE AudioProofs -----------------------------
(* Proofs about AudioDevices, for all ids and any number of devices. *)
EXTENDS AudioDevices, TLAPS

\* What every action leaves alone or only consumes.
LEMMA RequestsTypes ==
  ASSUME list_devices \in BOOLEAN
  PROVE  Requests \in Seq(Request)
<1>1. CASE list_devices
  BY <1>1 DEF Requests, Request, List
<1>2. CASE ~list_devices
  <2>1. /\ <<"sinks", "default_sink">> \in Seq(Request)
        /\ <<"sources", "default_source">> \in Seq(Request)
        /\ <<"sources", "default_source", "sinks", "default_sink">> \in Seq(Request)
    BY DEF Request, List, Default
  <2> QED
    BY <1>2, <2>1 DEF Requests
<1> QED BY <1>1, <1>2

\* Type correctness: every step keeps TypeOK, given that a list still to be asked
\* for is empty (ListsFilled).
LEMMA TypesKept ==
  ASSUME TypeOK, ListsFilled, [Next]_vars
  PROVE  TypeOK'
<1>0. /\ todo \in Seq(Request)
      /\ todo # <<>> => Head(todo) \in Request /\ Tail(todo) \in Seq(Request)
  BY DEF TypeOK
<1> USE DEF TypeOK
<1>1. CASE Connect
  BY <1>1 DEF Connect, flags, lists
<1>2. CASE MakeRequest
  <2>1. Named(Head(todo)) \in Ids
    BY DEF Named
  <2>2. op' \in [kind : {"context", "drain"} \cup Request,
                 state : {"running", "replying", "done", "cancelled"},
                 device : Ids]
    BY <1>0, <1>2, <2>1 DEF MakeRequest
  <2>3. todo' \in Seq(Request)
    BY <1>0, <1>2 DEF MakeRequest
  <2> QED
    BY <1>2, <2>2, <2>3 DEF MakeRequest, flags, lists
<1>3. CASE Await
  BY <1>3 DEF Await, flags, lists
<1>4. CASE Wait
  BY <1>4 DEF Wait, flags, lists
<1>5. CASE Read
  BY <1>5 DEF Read, flags, lists
<1>6. CASE Drain
  BY <1>6 DEF Drain, flags, lists
<1>7. CASE Free
  BY <1>7 DEF Free, Ended, flags, lists
<1>8. CASE ContextReady
  BY <1>8 DEF ContextReady, Ended, flags, lists
<1>9. CASE ContextFails
  BY <1>9 DEF ContextFails, Ended, flags, lists
<1>10. CASE Answered
  BY <1>10 DEF Answered, Ended, flags, lists
<1>11. CASE Refused
  BY <1>11 DEF Refused, Ended, flags, lists
<1>12. CASE ListArrives
  <2>1. entries[op.kind] = 0
    BY <1>12 DEF ListArrives, ListsFilled
  <2>2. op' \in [kind : {"context", "drain"} \cup Request,
                 state : {"running", "replying", "done", "cancelled"},
                 device : Ids]
    BY <1>12 DEF ListArrives, Ended
  <2>3. PICK n \in 0 .. MaxDevices : report' = [report EXCEPT ![op.kind] = n]
    BY <1>12 DEF ListArrives
  <2>4. report' \in [List -> 0 .. MaxDevices]
    BY <2>3
  <2>5. \A l \in List : entries[l] <= report'[l]
    <3>1. ASSUME NEW l \in List
          PROVE  entries[l] <= report'[l]
      <4>1. CASE l = op.kind
        BY <4>1, <1>12, <2>1, <2>3 DEF ListArrives
      <4>2. CASE l # op.kind
        BY <4>2, <1>12, <2>3 DEF ListArrives
      <4> QED BY <4>1, <4>2
    <3> QED BY <3>1
  <2> QED
    BY <1>12, <2>2, <2>4, <2>5 DEF ListArrives, Ended, flags
<1>13. CASE info_callback
  <2>1. op.kind \in List
    BY <1>13 DEF info_callback
  <2>2. entries' = [entries EXCEPT ![op.kind] = @ + 1]
    BY <1>13 DEF info_callback
  <2>3. entries[op.kind] + 1 <= report[op.kind] /\ entries[op.kind] + 1 \in 0 .. MaxDevices
    BY <1>13, <2>1, AudioAssumption DEF info_callback
  <2>4. entries' \in [List -> 0 .. MaxDevices] /\ \A l \in List : entries'[l] <= report[l]
    BY <2>1, <2>2, <2>3
  <2> QED
    BY <1>13, <2>4 DEF info_callback, flags
<1>14. CASE info_callback_last
  BY <1>14 DEF info_callback_last, Ended, flags, lists
<1>15. CASE Drained
  BY <1>15 DEF Drained, Ended, flags, lists
<1>16. CASE UNCHANGED vars
  BY <1>16 DEF vars, flags, lists
<1> QED
  BY <1>1, <1>2, <1>3, <1>4, <1>5, <1>6, <1>7, <1>8, <1>9, <1>10, <1>11, <1>12,
     <1>13, <1>14, <1>15, <1>16 DEF Next, Main, Reply

\* main asks for a default only right after the list it is taken from.
LEMMA InOrderKept ==
  ASSUME TypeOK, Polling, [Next]_vars
  PROVE  InOrder'
<1> USE DEF Polling, InOrder
<1>1. CASE MakeRequest
  <2> USE DEF MakeRequest
  <2>1. CASE UNCHANGED <<op, todo>>
    BY <1>1, <2>1 DEF flags
  <2>2. CASE todo' = Tail(todo) /\ op'.kind = Head(todo)
    <3>1. todo \in Seq(Request) /\ todo # <<>>
      BY <1>1 DEF TypeOK
    <3>2. \A i \in DOMAIN todo' : i + 1 \in DOMAIN todo /\ todo'[i] = todo[i + 1]
      BY <2>2, <3>1
    <3>3. 1 \in DOMAIN todo /\ op'.kind = todo[1]
      BY <2>2, <3>1
    <3>4. \A i \in DOMAIN todo' : i \in Nat /\ i >= 1
      BY <2>2, <3>1
    <3>5. \A i \in DOMAIN todo' : todo'[i] # op'.kind
      BY <3>2, <3>3, <3>4
    <3>6. \A i, j \in DOMAIN todo' : todo'[i] = todo'[j] => i = j
      BY <3>2, <3>4
    <3>7. ASSUME NEW i \in DOMAIN todo', todo'[i] \in Default
          PROVE  /\ ~list_devices'
                 /\ ListOf(todo'[i]) = (IF i = 1 THEN op'.kind ELSE todo'[i - 1])
      <4>1. ~list_devices' /\ ListOf(todo[i + 1]) = todo[i]
        BY <1>1, <3>2, <3>4, <3>7 DEF flags
      <4>2. CASE i = 1
        BY <4>1, <4>2, <3>2, <3>3
      <4>3. CASE i # 1
        <5>1. i - 1 \in DOMAIN todo'
          BY <4>3, <2>2, <3>1
        <5> QED
          BY <4>1, <4>3, <5>1, <3>2, <3>4
      <4> QED BY <4>2, <4>3
    <3> QED BY <3>5, <3>6, <3>7
  <2> QED BY <1>1, <2>1, <2>2 DEF TypeOK
<1>2. CASE Drain
  <2>1. DOMAIN todo' = {}
    BY <1>2 DEF Drain
  <2> QED BY <2>1
<1>3. CASE UNCHANGED <<todo, op, list_devices>>
  BY <1>3
<1>4. CASE \E s : Ended(s) /\ UNCHANGED <<todo, list_devices>>
  BY <1>4 DEF Ended, TypeOK
<1> QED
  BY <1>1, <1>2, <1>3, <1>4 DEF Next, Main, Reply, Connect, Await, Wait, Read, Free,
     ContextReady, ContextFails, Answered, Refused, ListArrives, info_callback,
     info_callback_last, Drained, vars, flags

\* A list is empty until its answer comes and whole once that is taken apart.
LEMMA ListsFilledKept ==
  ASSUME TypeOK, Polling, [Next]_vars
  PROVE  ListsFilled'
<1> USE DEF Polling, InOrder, ListsFilled
<1>0. /\ \A l \in List : report[l] \in Nat /\ entries[l] \in Nat
      /\ \A l \in List : entries[l] <= report[l]
  BY AudioAssumption DEF TypeOK
<1>1. CASE MakeRequest
  <2>1. CASE UNCHANGED <<op, todo>>
    BY <1>1, <2>1 DEF MakeRequest, lists
  <2>2. CASE todo' = Tail(todo) /\ op'.kind = Head(todo) /\ op'.state = "running"
    <3>1. todo \in Seq(Request) /\ todo # <<>>
      BY <1>1 DEF MakeRequest, TypeOK
    <3>2. \A i \in DOMAIN todo' : i + 1 \in DOMAIN todo /\ todo'[i] = todo[i + 1]
      BY <2>2, <3>1
    <3>3. 1 \in DOMAIN todo /\ op'.kind = todo[1]
      BY <2>2, <3>1
    <3>4. UNCHANGED <<report, entries>>
      BY <1>1 DEF MakeRequest, lists
    <3>5. op.state # "replying"
      BY <1>1 DEF MakeRequest, Running
    <3> QED BY <3>2, <3>3, <3>4, <3>5
  <2> QED BY <1>1, <2>1, <2>2 DEF MakeRequest
<1>2. CASE Drain
  <2>1. UNCHANGED <<todo, report, entries>> /\ op.state # "replying"
    BY <1>2 DEF Drain, Running, lists
  <2>2. DOMAIN todo = {}
    BY <1>2 DEF Drain
  <2>3. op' = op \/ op'.kind = "drain"
    BY <1>2 DEF Drain, TypeOK
  <2>4. "drain" \notin List
    BY DEF List
  <2> QED BY <2>1, <2>2, <2>3, <2>4
<1>3. CASE ListArrives
  <2>1. /\ op.kind \in List /\ op.state = "running" /\ UNCHANGED <<todo, entries>>
        /\ op'.kind = op.kind /\ op'.state = "replying"
    BY <1>3 DEF ListArrives, Ended, TypeOK
  <2>2. \A l \in List : l # op.kind => report'[l] = report[l]
    BY <1>3 DEF ListArrives, TypeOK
  <2> QED BY <2>1, <2>2
<1>4. CASE info_callback
  <2>1. op.kind \in List /\ op.state = "replying" /\ UNCHANGED <<todo, op, report>>
    BY <1>4 DEF info_callback, TypeOK
  <2>2. \A l \in List : l # op.kind => entries'[l] = entries[l]
    BY <1>4 DEF info_callback, TypeOK
  <2> QED BY <2>1, <2>2
<1>5. CASE info_callback_last
  BY <1>5 DEF info_callback_last, Ended, lists, TypeOK
<1>6. CASE UNCHANGED <<todo, op, lists>>
  BY <1>6 DEF lists
<1>7. CASE Free \/ ContextReady \/ ContextFails \/ Answered \/ Refused \/ Drained
  <2>1. op.state # "replying" /\ UNCHANGED <<todo, lists>>
    BY <1>7 DEF Free, ContextReady, ContextFails, Answered, Refused, Drained
  <2>2. op' = op \/ (op'.kind = op.kind /\ op'.state \in {"done", "cancelled"})
    BY <1>7 DEF Free, ContextReady, ContextFails, Answered, Refused, Drained, Ended, TypeOK
  <2> QED BY <2>1, <2>2 DEF lists
<1> QED
  BY <1>1, <1>2, <1>3, <1>4, <1>5, <1>6, <1>7 DEF Next, Main, Reply, Connect, Await,
     Wait, Read, vars

\* The default device is one the list has.  MakeRequest takes it from a list that
\* is known to have it; afterwards that list is only read.
LEMMA ChosenKept ==
  ASSUME TypeOK, Polling, [Next]_vars
  PROVE  ChosenExists'
<1> USE DEF Polling, ChosenExists
<1>0. /\ \A r \in Default : ListOf(r) \in List /\ r \notin List
      /\ {"server", "drain", "context"} \cap Default = {}
  BY DEF Default, List, ListOf
<1>1. CASE MakeRequest
  <2>1. CASE UNCHANGED <<op, todo>>
    BY <1>1, <2>1 DEF MakeRequest, lists, ListOf
  <2>2. CASE op' = [kind |-> Head(todo), state |-> "running", device |-> Named(Head(todo))]
    BY <1>1, <2>2 DEF MakeRequest, lists, ListOf
  <2> QED BY <1>1, <2>1, <2>2 DEF MakeRequest
<1>2. CASE Drain
  <2>1. op' = op \/ op'.kind = "drain"
    BY <1>2 DEF Drain, TypeOK
  <2> QED BY <1>0, <1>2, <2>1 DEF Drain, lists, ListOf
<1>3. CASE info_callback
  <2>1. op.kind \in List /\ UNCHANGED op
    BY <1>3 DEF info_callback, TypeOK
  <2> QED BY <1>0, <2>1
<1>4. CASE UNCHANGED <<op, entries>>
  BY <1>4 DEF ListOf
<1>5. CASE (\E s : Ended(s)) /\ UNCHANGED entries
  <2>1. op'.kind = op.kind /\ op'.device = op.device
    BY <1>5 DEF Ended, TypeOK
  <2> QED BY <1>5, <2>1 DEF ListOf
<1> QED
  BY <1>1, <1>2, <1>3, <1>4, <1>5 DEF Next, Main, Reply, Connect, Await, Wait, Read,
     Free, ContextReady, ContextFails, Answered, Refused, ListArrives,
     info_callback_last, Drained, vars, lists

\* An id that is less than a list's length as a size_t is an index of the list.
LEMMA AsSizeBounds ==
  ASSUME NEW id \in Ids, NEW n \in 0 .. MaxDevices, ~(AsSize(id) >= n)
  PROVE  id >= 0 /\ id < n
<1>1. id \in Int /\ n \in Int /\ n <= MaxDevices
  BY AudioAssumption
<1>2. MaxDevices < id + SizeRange /\ SizeRange \in Nat /\ MaxDevices \in Nat
  BY AudioAssumption
<1> QED BY <1>1, <1>2 DEF AsSize

\* The id main is about to make the default's is an index of its list: main has
\* just compared it with the list's length, a size_t.
LEMMA IndexKept ==
  ASSUME TypeOK, Polling, [Next]_vars
  PROVE  (pc = "request" /\ todo # <<>> /\ Head(todo) \in Default =>
            /\ Named(Head(todo)) >= 0
            /\ Named(Head(todo)) < entries[ListOf(Head(todo))])'
<1> DEFINE r == Head(todo)
<1> SUFFICES ASSUME pc' = "request", todo' # <<>>, Head(todo') \in Default
             PROVE  (Named(r) >= 0 /\ Named(r) < entries[ListOf(r)])'
  OBVIOUS
<1>1. CASE pc = "request"
  <2>1. UNCHANGED <<todo, entries, flags>>
    BY <1>1 DEF Polling, Next, Main, Reply, Connect, MakeRequest, Await, Wait, Read,
       Drain, Free, ContextReady, ContextFails, Answered, Refused, ListArrives,
       info_callback, info_callback_last, Drained, vars, lists
  <2> QED BY <1>1, <2>1 DEF Polling, Named, ListOf, flags
<1>2. CASE pc # "request"
  <2>1. /\ Await \/ Read
        /\ UNCHANGED <<todo, op, entries, flags>>
    BY <1>2 DEF Next, Main, Reply, Connect, MakeRequest, Await, Wait, Read, Drain, Free,
       ContextReady, ContextFails, Answered, Refused, ListArrives, info_callback,
       info_callback_last, Drained, vars, lists
  <2>2. ~list_devices /\ ListOf(r) = op.kind /\ r \in Default
    <3>1. 1 \in DOMAIN todo /\ r = todo[1]
      BY <2>1 DEF TypeOK
    <3> QED BY <2>1, <3>1 DEF Polling, InOrder
  <2>3. op.kind \in List
    BY <2>2 DEF Default, List, ListOf
  <2>4. Read
    BY <1>2, <2>1, <2>3 DEF Await
  <2>5. Named(r) = (IF op.kind = "sources" THEN recording_device_id ELSE playout_device_id)
    BY <2>2 DEF Named, ListOf, Default
  <2>6. ~(AsSize(Named(r)) >= entries[op.kind])
    BY <2>2, <2>4, <2>5 DEF Read
  <2>7. Named(r) \in Ids /\ entries[op.kind] \in 0 .. MaxDevices
    BY <2>3 DEF TypeOK, Named
  <2>8. Named(r) >= 0 /\ Named(r) < entries[op.kind]
    BY <2>6, <2>7, AsSizeBounds
  <2>9. UNCHANGED <<r, Named(r), ListOf(r), entries[op.kind]>>
    BY <2>1 DEF Named, ListOf, flags
  <2> QED BY <2>1, <2>2, <2>8, <2>9
<1> QED BY <1>1, <1>2

\* The rest of Polling: where main is, what the operation and the context are
\* meanwhile, and that the mainloop's thread runs while it is needed.
LEMMA PlacesKept ==
  ASSUME TypeOK, Polling, [Next]_vars
  PROVE  /\ StrandedOnlyIfRefused'
         /\ pc' \in {"read", "request"} => ~Running'
         /\ pc' = "read" => op'.kind \in List
         /\ op'.state = "replying" => pc' \in {"await", "wait", "asleep"}
         /\ pc' = "start" =>
              ~looping' /\ context' = "none" /\ op'.kind = "context" /\ op'.state = "running"
         /\ pc' \in {"quit", "returned"} /\ Running' => op'.kind \in {"context", "drain"}
         /\ op'.kind = "drain" => pc' \in {"quit", "returned"}
         /\ context' = "connecting" => op'.kind = "context" /\ op'.state = "running"
         /\ context' \in {"connecting", "ready"} /\ pc' \notin {"quit", "returned"} =>
              looping' \/ refused'
<1>0. /\ "context" \notin Request /\ "drain" \notin Request /\ List \subseteq Request
      /\ List \cap ({"server", "context", "drain"} \cup Default) = {}
      /\ {"context", "drain"} \cap ({"server"} \cup Default) = {}
  BY DEF Request, List, Default
<1>a. /\ \A s : Ended(s) => op'.kind = op.kind /\ op'.state = s
      /\ op.state = "replying" => op.kind \in List
      /\ op.state \in {"running", "replying", "done", "cancelled"}
  BY DEF TypeOK, Ended
<1> USE DEF Polling, StrandedOnlyIfRefused, Running
<1>1. CASE Connect
  BY <1>1 DEF Connect, TypeOK
<1>2. CASE MakeRequest
  <2>1. todo # <<>> => Head(todo) \in Request
    BY DEF TypeOK
  <2> QED BY <1>0, <1>2, <2>1 DEF MakeRequest
<1>3. CASE Await
  BY <1>0, <1>3 DEF Await
<1>4. CASE Wait
  BY <1>4 DEF Wait
<1>5. CASE Read
  BY <1>0, <1>5 DEF Read
<1>6. CASE Drain
  BY <1>6 DEF Drain, TypeOK
<1>7. CASE Free
  BY <1>0, <1>a, <1>7 DEF Free
<1>8. CASE ContextReady
  BY <1>0, <1>a, <1>8 DEF ContextReady
<1>9. CASE ContextFails
  BY <1>0, <1>a, <1>9 DEF ContextFails
<1>10. CASE Answered
  BY <1>0, <1>a, <1>10 DEF Answered
<1>11. CASE Refused
  BY <1>0, <1>a, <1>11 DEF Refused
<1>12. CASE ListArrives
  <2>1. op.kind \in List /\ op.kind \notin {"context", "drain"}
    BY <1>0, <1>12 DEF ListArrives
  <2>2. pc \in {"await", "wait", "asleep"}
    BY <1>12, <2>1 DEF ListArrives, TypeOK
  <2> QED BY <1>a, <1>12, <2>1, <2>2 DEF ListArrives
<1>13. CASE info_callback
  BY <1>13 DEF info_callback
<1>14. CASE info_callback_last
  BY <1>0, <1>a, <1>14 DEF info_callback_last
<1>15. CASE Drained
  BY <1>0, <1>a, <1>15 DEF Drained
<1>16. CASE UNCHANGED vars
  BY <1>16 DEF vars
<1> QED
  BY <1>1, <1>2, <1>3, <1>4, <1>5, <1>6, <1>7, <1>8, <1>9, <1>10, <1>11, <1>12,
     <1>13, <1>14, <1>15, <1>16 DEF Next, Main, Reply

\* The audio client asks for devices in a state the invariant describes.
LEMMA AudioStarts ==
  ASSUME Init
  PROVE  TypeOK /\ Polling
<1>1. todo \in Seq(Request)
  BY RequestsTypes DEF Init
<1>2. 0 \in 0 .. MaxDevices /\ op.kind = "context" /\ op.state = "running"
  BY AudioAssumption DEF Init
<1>3. op \in [kind : {"context", "drain"} \cup Request,
              state : {"running", "replying", "done", "cancelled"},
              device : Ids]
  BY DEF Init
<1>4. TypeOK
  <2>1. report = [l \in List |-> 0] /\ entries = [l \in List |-> 0]
    BY DEF Init
  <2>2. /\ report \in [List -> 0 .. MaxDevices] /\ entries \in [List -> 0 .. MaxDevices]
        /\ \A l \in List : entries[l] <= report[l]
    BY <1>2, <2>1
  <2> QED BY <1>1, <1>2, <1>3, <2>2, Zenon DEF Init, TypeOK
<1>5. InOrder
  <2> DEFINE After(i) == ListOf(todo[i]) = (IF i = 1 THEN op.kind ELSE todo[i - 1])
  <2>1. \/ todo = <<"server", "sources", "sinks">>
        \/ todo = <<"sinks", "default_sink">>
        \/ todo = <<"sources", "default_source">>
        \/ todo = <<"sources", "default_source", "sinks", "default_sink">>
    BY Zenon DEF Init, Requests
  <2>2. list_devices => todo = <<"server", "sources", "sinks">>
    BY Zenon DEF Init, Requests
  <2>3. /\ \A i \in DOMAIN todo : todo[i] # op.kind
        /\ \A i, j \in DOMAIN todo : todo[i] = todo[j] => i = j
        /\ \A i \in DOMAIN todo : todo[i] \in Default => After(i)
    <3>1. CASE todo = <<"server", "sources", "sinks">>
      BY <1>2, <3>1 DEF Default
    <3>2. CASE todo = <<"sinks", "default_sink">>
      BY <1>2, <3>2 DEF Default, ListOf
    <3>3. CASE todo = <<"sources", "default_source">>
      BY <1>2, <3>3 DEF Default, ListOf
    <3>4. CASE todo = <<"sources", "default_source", "sinks", "default_sink">>
      BY <1>2, <3>4 DEF Default, ListOf
    <3> QED BY <2>1, <3>1, <3>2, <3>3, <3>4
  <2>4. todo = <<"server", "sources", "sinks">> => \A i \in DOMAIN todo : todo[i] \notin Default
    BY DEF Default
  <2> QED BY <2>2, <2>3, <2>4, Zenon DEF InOrder
<1>6. ListsFilled /\ ChosenExists /\ StrandedOnlyIfRefused
  BY DEF Init, ListsFilled, ChosenExists, StrandedOnlyIfRefused, Default
<1> QED
  BY <1>2, <1>4, <1>5, <1>6 DEF Init, Polling

LEMMA AudioSteps ==
  ASSUME TypeOK, Polling, [Next]_vars
  PROVE  TypeOK' /\ Polling'
<1>1. TypeOK'
  BY TypesKept DEF Polling
<1>2. InOrder' /\ ListsFilled' /\ ChosenExists'
  BY InOrderKept, ListsFilledKept, ChosenKept
<1> QED
  BY <1>1, <1>2, IndexKept, PlacesKept DEF Polling

------------------------------------------------------------------------------
\* Type correctness and the inductive invariant of list_pa_audio_devices and
\* init_pa_audio_devices with their callbacks.
THEOREM AudioInvariant == Spec => []AudioInv
<1>1. Init => AudioInv
  BY AudioStarts DEF AudioInv
<1>2. AudioInv /\ [Next]_vars => AudioInv'
  BY AudioSteps DEF AudioInv
<1> QED
  BY <1>1, <1>2, PTL DEF Spec

\* init_pa_audio_devices makes a device the default one only if its id is an index
\* of the list PulseAudio sent, for whatever ids the flags hold.
THEOREM ChoiceExists == Spec => []ChosenExists
<1>1. AudioInv => ChosenExists
  BY DEF AudioInv, Polling
<1> QED
  BY <1>1, AudioInvariant, PTL

\* main prints and chooses from a list only when the callbacks have filled it with
\* the whole answer, though it never takes the mainloop's lock.
THEOREM ListsReadWhole == Spec => []ReadsWhole
<1>1. AudioInv => ReadsWhole
  BY DEF AudioInv, TypeOK, Polling, ListsFilled, Running, ReadsWhole
<1> QED
  BY <1>1, AudioInvariant, PTL

\* The loops on pa_operation_get_state and on pa_context_initialized_ see every
\* connection lost or not made; only the error of an earlier request can leave main
\* polling for what nobody sends.
THEOREM LossIsNoticed == Spec => []StrandedOnlyIfRefused
<1>1. AudioInv => StrandedOnlyIfRefused
  BY DEF AudioInv, Polling
<1> QED
  BY <1>1, AudioInvariant, PTL

=============================================================================
