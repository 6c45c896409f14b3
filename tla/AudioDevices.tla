---------------------------- MODULE AudioDevices ----------------------------
(***************************************************************************)
(* The audio client asks PulseAudio for its devices before it starts:      *)
(* list_pa_audio_devices, init_pa_audio_devices and their callbacks in     *)
(* peer_audio_client.cpp.                                                  *)
(*                                                                         *)
(* main sends requests and polls; the callbacks run on the thread of       *)
(* PulseAudio's threaded mainloop and fill the lists main reads.  main     *)
(* never takes the mainloop's lock, so nothing orders the two threads but  *)
(* the state of the operation, and pa_threaded_mainloop_wait, which the    *)
(* library defines only for a thread that holds the lock, may return at    *)
(* once or may block until the mainloop is signalled.                      *)
(***************************************************************************)
EXTENDS Integers, Sequences

CONSTANTS
    Ids,         \* values of the flags playout_device_id, recording_device_id
    MaxDevices,  \* bound: devices of one kind
    SizeRange,   \* number of values of size_t
    MayLose,     \* the connection to PulseAudio may break
    MayRefuse,   \* PulseAudio may answer a request with an error
    WaitMayBlock \* pa_threaded_mainloop_wait may block

\* A device id, an int, converts to a size_t past the end of any list if it is
\* negative.
ASSUME AudioAssumption ==
    /\ Ids \subseteq Int
    /\ MaxDevices \in Nat /\ SizeRange \in Nat
    /\ \A id \in Ids : MaxDevices < id + SizeRange
    /\ {MayLose, MayRefuse, WaitMayBlock} \subseteq BOOLEAN

List == {"sources", "sinks"}
Default == {"default_source", "default_sink"}
Request == {"server"} \cup List \cup Default

VARIABLES
    list_devices,        \* the flag of that name
    recording_device_id, playout_device_id,
    pc,      \* where main is
    todo,    \* the requests main has still to make
    op,      \* what main waits for: the context, or its last request
    context, \* state of pa_context_
    looping, \* the mainloop's thread runs
    report,  \* report[l]: the devices in PulseAudio's answer
    entries, \* entries[l]: the devices in pa_source_list_, pa_sink_list_
    refused  \* PulseAudio answered a request with an error

flags == <<list_devices, recording_device_id, playout_device_id>>
lists == <<report, entries>>
vars == <<flags, pc, todo, op, context, looping, lists, refused>>

\* Every variable has its type, only a list comes in pieces, and none is longer
\* than the answer it is taken from.
TypeOK ==
    /\ list_devices \in BOOLEAN
    /\ recording_device_id \in Ids /\ playout_device_id \in Ids
    /\ pc \in {"start", "request", "await", "wait", "asleep", "read", "quit",
               "returned"}
    /\ todo \in Seq(Request)
    /\ op \in [kind : {"context", "drain"} \cup Request,
               state : {"running", "replying", "done", "cancelled"},
               device : Ids]
    /\ op.state = "replying" => op.kind \in List
    /\ context \in {"none", "connecting", "ready", "failed", "terminated"}
    /\ looping \in BOOLEAN
    /\ report \in [List -> 0 .. MaxDevices]
    /\ entries \in [List -> 0 .. MaxDevices]
    /\ \A l \in List : entries[l] <= report[l]
    /\ refused \in BOOLEAN

\* -1 asks for no device of that kind.
None == -1

\* What main asks for: the server and the lists, or each list it sets a default of.
Requests ==
    CASE list_devices -> <<"server", "sources", "sinks">>
      [] ~list_devices /\ recording_device_id = None -> <<"sinks", "default_sink">>
      [] ~list_devices /\ recording_device_id # None /\ playout_device_id = None
           -> <<"sources", "default_source">>
      [] OTHER -> <<"sources", "default_source", "sinks", "default_sink">>

\* main comes here only with something to list or to set.
Init ==
    /\ list_devices \in BOOLEAN
    /\ recording_device_id \in Ids /\ playout_device_id \in Ids
    /\ list_devices \/ recording_device_id # None \/ playout_device_id # None
    /\ pc = "start"
    /\ todo = Requests
    /\ op = [kind |-> "context", state |-> "running", device |-> recording_device_id]
    /\ context = "none"
    /\ looping = FALSE
    /\ report = [l \in List |-> 0]
    /\ entries = [l \in List |-> 0]
    /\ refused = FALSE

\* pa_operation_get_state is RUNNING, or the context is not initialized.
Running == op.state \in {"running", "replying"}

Ended(s) == op' = [op EXCEPT !.state = s]

------------------------------------------------------------------------------
(* main *)

\* Create mainloop and context, clear the lists, and connect; any of it may fail.
Connect ==
    /\ pc = "start"
    /\ \/ pc' = "await" /\ looping' = TRUE /\ context' = "connecting"
       \/ pc' = "quit" /\ looping' \in BOOLEAN /\ UNCHANGED context
    /\ UNCHANGED <<flags, todo, op, lists, refused>>

\* The id a request passes, and the list it is an index of.
Named(r) == IF r = "default_source" THEN recording_device_id ELSE playout_device_id
ListOf(r) == IF r = "default_source" THEN "sources" ELSE "sinks"

\* A request on a context that is not ready fails, and main quits.
MakeRequest ==
    /\ pc = "request"
    /\ todo # <<>>
    /\ \/ /\ context = "ready"
          /\ op' = [kind |-> Head(todo), state |-> "running", device |-> Named(Head(todo))]
          /\ todo' = Tail(todo)
          /\ pc' = "await"
       \/ /\ context # "ready"
          /\ pc' = "quit"
          /\ UNCHANGED <<op, todo>>
    /\ UNCHANGED <<flags, context, looping, lists, refused>>

\* Mutant: "if" for "while".
AwaitOnce ==
    /\ \/ pc = "await" /\ Running /\ pc' = "wait"
       \/ /\ pc \in {"await", "wait"}
          /\ pc = "await" => ~Running
          /\ pc' = IF op.kind \in List THEN "read" ELSE "request"
    /\ UNCHANGED <<flags, todo, op, context, looping, lists, refused>>
\* while(... RUNNING) pa_threaded_mainloop_wait: the test.
Await ==
    /\ pc = "await"
    /\ pc' = IF Running THEN "wait"
             ELSE IF op.kind \in List THEN "read" ELSE "request"
    /\ UNCHANGED <<flags, todo, op, context, looping, lists, refused>>

\* The wait returns at once, or blocks until the mainloop is signalled.
Wait ==
    /\ pc = "wait"
    /\ pc' = "await" \/ (WaitMayBlock /\ pc' = "asleep")
    /\ UNCHANGED <<flags, todo, op, context, looping, lists, refused>>

\* Mutant: the id is compared as an int.
AsInt(id) == id
\* An int compared with a size_t.
AsSize(id) == IF id < 0 THEN id + SizeRange ELSE id

\* Print the list; quit if the id is not in it.
Read ==
    /\ pc = "read"
    /\ LET id == IF op.kind = "sources" THEN recording_device_id ELSE playout_device_id
       IN  pc' = IF ~list_devices /\ AsSize(id) >= entries[op.kind] THEN "quit" ELSE "request"
    /\ UNCHANGED <<flags, todo, op, context, looping, lists, refused>>

\* With nothing to drain main disconnects, and so ends the mainloop, itself.
Drain ==
    /\ pc = "request"
    /\ todo = <<>>
    /\ pc' = "quit"
    /\ \/ /\ context = "ready"
          /\ op' = [op EXCEPT !.kind = "drain", !.state = "running"]
          /\ UNCHANGED <<context, looping>>
       \/ /\ context' = IF context = "ready" THEN "terminated" ELSE context
          /\ looping' = (looping /\ context # "ready")
          /\ UNCHANGED op
    /\ UNCHANGED <<flags, todo, lists, refused>>

\* quit: release the context, stop and join the mainloop's thread.
Free ==
    /\ pc = "quit"
    /\ pc' = "returned"
    /\ looping' = FALSE
    /\ context' = "none"
    /\ Ended("cancelled")
    /\ UNCHANGED <<flags, todo, lists, refused>>

------------------------------------------------------------------------------
(* The mainloop's thread *)

\* context_state_callback, READY.
ContextReady ==
    /\ looping
    /\ context = "connecting"
    /\ context' = "ready"
    /\ Ended("done")
    /\ UNCHANGED <<flags, pc, todo, looping, lists, refused>>

\* Mutant: a failure does not count as initialized.
ContextFailsUnnoticed ==
    /\ looping
    /\ context = "connecting" \/ (MayLose /\ context = "ready" /\ op.state # "replying")
    /\ context' = "failed"
    /\ looping' = FALSE
    /\ IF Running /\ op.kind # "context" THEN Ended("cancelled") ELSE UNCHANGED op
    /\ UNCHANGED <<flags, pc, todo, lists, refused>>
\* context_state_callback, FAILED: the library has cancelled the operation; the
\* mainloop is told to quit.  It happens between two replies, never within one.
ContextFails ==
    /\ looping
    /\ context = "connecting" \/ (MayLose /\ context = "ready" /\ op.state # "replying")
    /\ context' = "failed"
    /\ looping' = FALSE
    /\ IF Running THEN Ended("cancelled") ELSE UNCHANGED op
    /\ UNCHANGED <<flags, pc, todo, lists, refused>>

\* get_server_info_callback, simple_callback.
Answered ==
    /\ looping
    /\ op.kind \in {"server"} \cup Default /\ op.state = "running"
    /\ Ended("done")
    /\ UNCHANGED <<flags, pc, todo, context, looping, lists, refused>>

\* Every callback that is told of an error tells the mainloop to quit.
Refused ==
    /\ MayRefuse
    /\ looping
    /\ op.kind \in Request /\ op.state = "running"
    /\ Ended("done")
    /\ looping' = FALSE
    /\ refused' = TRUE
    /\ UNCHANGED <<flags, pc, todo, context, lists>>

\* The answer with a list arrives, and is taken apart entry by entry.
ListArrives ==
    /\ looping
    /\ op.kind \in List /\ op.state = "running"
    /\ \E n \in 0 .. MaxDevices : report' = [report EXCEPT ![op.kind] = n]
    /\ Ended("replying")
    /\ UNCHANGED <<flags, pc, todo, context, looping, entries, refused>>

\* get_source_info_callback, get_sink_info_callback with an entry.
info_callback ==
    /\ looping
    /\ op.state = "replying"
    /\ entries[op.kind] < report[op.kind]
    /\ entries' = [entries EXCEPT ![op.kind] = @ + 1]
    /\ UNCHANGED <<flags, pc, todo, op, context, looping, report, refused>>

\* Mutant: no return after is_last, which is taken for an entry.
LastIsEntry ==
    /\ looping
    /\ op.state = "replying"
    /\ entries[op.kind] = report[op.kind]
    /\ Ended("done")
    /\ entries' = [entries EXCEPT ![op.kind] = @ + 1]
    /\ pc' = IF pc = "asleep" THEN "await" ELSE pc
    /\ UNCHANGED <<flags, todo, context, looping, report, refused>>
\* The same with is_last: signal the mainloop; then the operation is done.
info_callback_last ==
    /\ looping
    /\ op.state = "replying"
    /\ entries[op.kind] = report[op.kind]
    /\ Ended("done")
    /\ pc' = IF pc = "asleep" THEN "await" ELSE pc
    /\ UNCHANGED <<flags, todo, context, looping, lists, refused>>

\* context_drain_complete disconnects; context_state_callback, TERMINATED.
Drained ==
    /\ looping
    /\ op.kind = "drain" /\ op.state = "running"
    /\ Ended("done")
    /\ context' = "terminated"
    /\ looping' = FALSE
    /\ UNCHANGED <<flags, pc, todo, lists, refused>>

------------------------------------------------------------------------------
Main == Connect \/ MakeRequest \/ Await \/ Wait \/ Read \/ Drain \/ Free

Reply ==
    \/ ContextReady \/ Answered \/ ListArrives \/ info_callback
    \/ info_callback_last \/ Drained

Next == Main \/ Reply \/ ContextFails \/ Refused

Spec == Init /\ [][Next]_vars

\* main runs, and PulseAudio answers what it is asked.
FairSpec == Spec /\ WF_vars(Main) /\ WF_vars(Reply)

------------------------------------------------------------------------------
\* The device main makes the default one exists: its id is an index of the list
\* of its kind, whatever the flags said, even for an empty list or a negative id.
ChosenExists ==
    op.kind \in Default => op.device >= 0 /\ op.device < entries[ListOf(op.kind)]

\* main reads a list only when no callback writes it any more, and what it reads
\* is PulseAudio's whole answer, empty when there was none.
ReadsWhole == pc = "read" => ~Running /\ entries[op.kind] = report[op.kind]

\* main polls for something that cannot come any more only when PulseAudio has
\* answered an earlier request with an error: a connection that could not be made
\* or that broke always ends the polling.  (Nothing wakes a main that a wait without
\* the lock has put to sleep.)
StrandedOnlyIfRefused ==
    pc \in {"await", "wait"} /\ ~looping /\ Running => refused

\* What main asks next, and what it has asked: every request once, and a default
\* only right after the list it is taken from, and not just to list the devices.
InOrder ==
    /\ \A i \in DOMAIN todo : todo[i] # op.kind
    /\ \A i, j \in DOMAIN todo : todo[i] = todo[j] => i = j
    /\ \A i \in DOMAIN todo : todo[i] \in Default =>
        ~list_devices /\ ListOf(todo[i]) = (IF i = 1 THEN op.kind ELSE todo[i - 1])

\* A list is empty until its answer comes and whole once that is taken apart.
ListsFilled ==
    \A l \in List :
        /\ (op.kind = l /\ op.state = "replying") \/ entries[l] = report[l]
        /\ (\E i \in DOMAIN todo : todo[i] = l) \/ (op.kind = l /\ op.state = "running")
            => report[l] = 0

\* The inductive invariant behind ChosenExists, ReadsWhole and
\* StrandedOnlyIfRefused: main asks for a default with the id it has just found
\* in the list, and the mainloop runs as long as the context is good.
Polling ==
    /\ InOrder /\ ListsFilled /\ ChosenExists /\ StrandedOnlyIfRefused
    /\ pc \in {"read", "request"} => ~Running
    /\ pc = "read" => op.kind \in List
    /\ op.state = "replying" => pc \in {"await", "wait", "asleep"}
    /\ pc = "request" /\ todo # <<>> /\ Head(todo) \in Default =>
        Named(Head(todo)) >= 0 /\ Named(Head(todo)) < entries[ListOf(Head(todo))]
    /\ pc = "start" =>
        ~looping /\ context = "none" /\ op.kind = "context" /\ op.state = "running"
    /\ pc \in {"quit", "returned"} /\ Running => op.kind \in {"context", "drain"}
    /\ op.kind = "drain" => pc \in {"quit", "returned"}
    /\ context = "connecting" => op.kind = "context" /\ op.state = "running"
    /\ context \in {"connecting", "ready"} /\ pc \notin {"quit", "returned"} =>
        looping \/ refused

\* Types, and all of this.
AudioInv == TypeOK /\ Polling

\* The call returns, also when the connection breaks, unless PulseAudio answers a
\* request with an error or main falls into a wait that nothing ends.
Finishes == <>(pc = "returned") \/ <>refused \/ <>[](pc = "asleep")

=============================================================================
