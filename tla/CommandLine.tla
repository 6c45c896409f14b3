----------------------------- MODULE CommandLine -----------------------------
(***************************************************************************)
(* The data channel program of cpp/datachannel/peer_datachannel.cpp.       *)
(*                                                                         *)
(* main reads lines and obeys them; the user carries the descriptions and  *)
(* the candidates it prints to the same program on another machine, and    *)
(* types in what that one printed.  The observers of Connection are called *)
(* on WebRTC's signaling thread; they share ice_list, sdp_type,            *)
(* peer_connection and data_channel with main, without a lock.             *)
(*                                                                         *)
(* Connections are numbered: the connection n is the one that the n-th     *)
(* command sdp1 or sdp2 makes.  0 is nullptr.                              *)
(***************************************************************************)
EXTENDS Naturals, Sequences

CONSTANTS
    MaxAsked,  \* bound: the commands sdp1 and sdp2 of a run
    MaxIce,    \* bound: the candidates of a connection
    MaxLines   \* bound: the lines after a command

ASSUME CommandLineAssumption == MaxAsked \in Nat /\ MaxIce \in Nat /\ MaxLines \in Nat

\* What the user types in as one line: a description, a list of candidates, the
\* list ice1 prints when there are none, a list that is not of candidates.
Texts == {"sdp", "ice", "[]", "bad"}

SdpTypes == {"Offer", "Answer"}

VARIABLES
    pc,               \* where main is
    mode,             \* is_cmd_mode ("command") or not ("text")
    command,
    parameter,        \* the lines collected
    sdp_type,
    peer_connection,  \* its number
    data_channel,     \* the number of the connection it belongs to
    fate,             \* how the process ended, unless main returns
    asked,            \* the commands sdp1 and sdp2 so far
    local, remote,    \* the descriptions of peer_connection, by type
    creating,         \* its calls of CreateOffer and CreateAnswer without a result
    to_gather,        \* how many candidates it has still to find
    closed,           \* whether it is closed
    ice_list,
    next,             \* where in ice_list the loop of ice1 is
    listed,           \* the candidates printed
    gathered,         \* the candidates passed to on_ice, and where main was
    shown             \* the descriptions printed, under which heading and when

line == <<mode, command, parameter>>
pointers == <<peer_connection, data_channel>>
library == <<local, remote, creating, to_gather, closed>>
ices == <<ice_list, next, listed, gathered>>
vars == <<pc, line, sdp_type, pointers, fate, asked, library, ices, shown>>

Statements == {"read", "offer", "channel", "ask_offer", "answer", "remote", "ask_answer",
               "list", "clear", "release", "return", "destroy", "end"}

Descriptions == [type : SdpTypes, of : Nat, heading : SdpTypes, asked : Nat]

\* Every variable has its type.
TypeOK ==
    /\ pc \in Statements
    /\ mode \in {"command", "text"}
    /\ command \in {"none", "sdp2", "sdp3", "ice2", "send"}
    /\ parameter \in Seq(Texts)
    /\ sdp_type \in SdpTypes \cup {"none"}
    /\ peer_connection \in 0..MaxAsked
    /\ data_channel \in 0..MaxAsked
    /\ fate \in {"alive", "failed", "null", "undefined"}
    /\ asked \in 0..MaxAsked
    /\ local \in SdpTypes \cup {"none"}
    /\ remote \in SdpTypes \cup {"none"}
    /\ creating \in Seq([type : SdpTypes, of : Nat])
    /\ to_gather \in 0..MaxIce
    /\ closed \in {"open", "closed"}
    /\ ice_list \in Seq(Nat \X Nat)
    /\ next \in Nat
    /\ listed \in Seq(Nat \X Nat)
    /\ gathered \in SUBSET [ice : Nat \X Nat, at : Statements]
    /\ shown \in SUBSET Descriptions

Init ==
    /\ pc = "read"
    /\ mode = "command" /\ command = "none" /\ parameter = <<>>
    /\ sdp_type = "none"
    /\ peer_connection = 0 /\ data_channel = 0
    /\ fate = "alive"
    /\ asked = 0
    /\ local = "none" /\ remote = "none" /\ creating = <<>> /\ to_gather = 0
    /\ closed = "open"
    /\ ice_list = <<>> /\ next = 1 /\ listed = <<>> /\ gathered = {}
    /\ shown = {}

-----------------------------------------------------------------------------
(* main: the lines it reads in command mode.                               *)

\* main is at the statement s.
At(s) == pc = s /\ fate = "alive"
Command == At("read") /\ mode = "command"

Sdp1 ==
    /\ Command
    /\ asked < MaxAsked
    /\ sdp_type' = "Offer"
    /\ asked' = asked + 1
    /\ pc' = "offer"
    /\ UNCHANGED <<line, pointers, fate, library, ices, shown>>

\* sdp2, sdp3, ice2 and send: the lines up to a semicolon are their parameter.
TakeParameter ==
    /\ Command
    /\ mode' = "text"
    /\ command' \in {"sdp2", "sdp3", "ice2", "send"}
    /\ UNCHANGED <<pc, parameter, sdp_type, pointers, fate, asked, library, ices, shown>>

\* Mutant of Ice1: it starts with the second candidate.
Ice1FromSecond ==
    /\ Command
    /\ pc' = "list"
    /\ next' = 2
    /\ UNCHANGED <<line, sdp_type, pointers, fate, asked, library, ice_list, listed,
                   gathered, shown>>

Ice1 ==
    /\ Command
    /\ pc' = "list"
    /\ next' = 1
    /\ UNCHANGED <<line, sdp_type, pointers, fate, asked, library, ice_list, listed,
                   gathered, shown>>

\* The pass of the loop for one candidate; the candidates that come meanwhile are in
\* the list as well.
ListIce ==
    /\ At("list")
    /\ next <= Len(ice_list)
    /\ listed' = Append(listed, ice_list[next])
    /\ next' = next + 1
    /\ UNCHANGED <<pc, line, sdp_type, pointers, fate, asked, library, ice_list, gathered,
                   shown>>

\* The loop is over, the list is written.
WriteIce ==
    /\ At("list")
    /\ next > Len(ice_list)
    /\ pc' = "clear"
    /\ UNCHANGED <<line, sdp_type, pointers, fate, asked, library, ices, shown>>

\* Mutant of ClearIce: the list is kept.
KeepIce ==
    /\ At("clear")
    /\ pc' = "read"
    /\ UNCHANGED <<line, sdp_type, pointers, fate, asked, library, ices, shown>>

ClearIce ==
    /\ At("clear")
    /\ ice_list' = <<>>
    /\ pc' = "read"
    /\ UNCHANGED <<line, sdp_type, pointers, fate, asked, library, next, listed, gathered,
                   shown>>


\* Of the descriptions asked for, those in S are printed.
Show(S) ==
    shown' = shown \cup {[type |-> r.type, of |-> r.of, heading |-> sdp_type,
                          asked |-> asked] : r \in S}

Pending == {creating[i] : i \in DOMAIN creating}

\* The library, before a connection goes away, answers what it was asked for: with the
\* description or with a failure.
Flush ==
    /\ creating' = <<>>
    /\ \E S \in SUBSET Pending : Show(S)

\* Mutant of Quit: without Close.
QuitWithoutClose ==
    /\ Command
    /\ IF peer_connection = 0
       THEN fate' = "null" /\ UNCHANGED pc
       ELSE pc' = "release" /\ UNCHANGED fate
    /\ UNCHANGED <<line, sdp_type, pointers, asked, library, ices, shown>>

\* quit, up to Close.
Quit ==
    /\ Command
    /\ IF peer_connection = 0
       THEN /\ fate' = "null"
            /\ UNCHANGED <<pc, creating, closed, to_gather, shown>>
       ELSE /\ closed' = "closed"
            /\ to_gather' = 0
            /\ Flush
            /\ pc' = "release"
            /\ UNCHANGED fate
    /\ UNCHANGED <<line, sdp_type, pointers, asked, local, remote, ices>>

\* The rest of quit, and the break.
Release ==
    /\ At("release")
    /\ peer_connection' = 0 /\ data_channel' = 0
    /\ pc' = "return"
    /\ UNCHANGED <<line, sdp_type, fate, asked, library, ices, shown>>

\* The end of the input, which comes in either mode.
EndOfInput ==
    /\ At("read")
    /\ pc' = "return"
    /\ UNCHANGED <<line, sdp_type, pointers, fate, asked, library, ices, shown>>
-----------------------------------------------------------------------------
(* main: the lines after a command, and the semicolon that ends them.      *)

Line ==
    /\ At("read") /\ mode = "text"
    /\ Len(parameter) < MaxLines
    /\ \E t \in Texts : parameter' = Append(parameter, t)
    /\ UNCHANGED <<pc, mode, command, sdp_type, pointers, fate, asked, library, ices, shown>>

Semicolon(c) == At("read") /\ mode = "text" /\ command = c

\* What CreateSessionDescription and picojson::parse can read; the latter stops after
\* the first list.
IsSdp == parameter # <<>> /\ \A i \in DOMAIN parameter : parameter[i] = "sdp"
IsJson == parameter # <<>> /\ Head(parameter) # "sdp"

\* The parameter is used up, main reads the next command.
Done == parameter' = <<>> /\ mode' = "command" /\ UNCHANGED command

\* Mutant of Sdp2: the heading stays that of the last command.
Sdp2KeepsType ==
    /\ Semicolon("sdp2")
    /\ asked < MaxAsked
    /\ asked' = asked + 1
    /\ pc' = "answer"
    /\ UNCHANGED <<line, sdp_type, pointers, fate, library, ices, shown>>

Sdp2 ==
    /\ Semicolon("sdp2")
    /\ asked < MaxAsked
    /\ sdp_type' = "Answer"
    /\ asked' = asked + 1
    /\ pc' = "answer"
    /\ UNCHANGED <<line, pointers, fate, library, ices, shown>>

\* push_reply_sdp.  SetRemoteDescription takes an answer after an offer, if it likes it.
Sdp3 ==
    /\ Semicolon("sdp3")
    /\ IF ~IsSdp
       THEN fate' = "failed" /\ UNCHANGED <<line, remote>>
       ELSE IF peer_connection = 0
       THEN fate' = "null" /\ UNCHANGED <<line, remote>>
       ELSE /\ remote' \in {remote} \cup {s \in {"Answer"} : local = "Offer"}
            /\ Done
            /\ UNCHANGED fate
    /\ UNCHANGED <<pc, sdp_type, pointers, asked, local, creating, to_gather, closed, ices, shown>>

\* A text that cannot be parsed leaves the program in text mode.
Ice2 ==
    /\ Semicolon("ice2")
    /\ IF ~IsJson
       THEN parameter' = <<>> /\ UNCHANGED <<mode, command, fate>>
       ELSE IF Head(parameter) = "bad"
       THEN fate' = "failed" /\ UNCHANGED line
       ELSE IF Head(parameter) = "ice" /\ peer_connection = 0
       THEN fate' = "null" /\ UNCHANGED line
       ELSE Done /\ UNCHANGED fate
    /\ UNCHANGED <<pc, sdp_type, pointers, asked, library, ices, shown>>

Send ==
    /\ Semicolon("send")
    /\ IF data_channel = 0
       THEN fate' = "null" /\ UNCHANGED line
       ELSE Done /\ UNCHANGED fate
    /\ UNCHANGED <<pc, sdp_type, pointers, asked, library, ices, shown>>

-----------------------------------------------------------------------------
(* create_offer_sdp and create_answer_sdp.                                 *)

\* Mutant of NewConnection: the old one lives on.
KeepConnection ==
    /\ At("offer") \/ At("answer")
    /\ local' = "none" /\ remote' = "none" /\ to_gather' = 0
    /\ peer_connection' = asked
    /\ pc' = IF pc = "offer" THEN "channel" ELSE "remote"
    /\ UNCHANGED <<line, sdp_type, data_channel, fate, asked, creating, closed, ices, shown>>

\* The new connection is stored before the old one is given up and answers what it was
\* asked for; the observer then sets an offer of the old one at the new one, which takes
\* it or not.  create_offer_sdp uses the new one before it looks whether there is one.
NewConnection ==
    /\ At("offer") \/ At("answer")
    /\ creating' = <<>>
    /\ remote' = "none"
    /\ \E S \in SUBSET Pending :
           \/ /\ peer_connection' = asked
              /\ Show(S)
              /\ local' \in {"none"} \cup {t \in {"Offer"} : \E r \in S : r.type = t}
              /\ to_gather' = IF local' = "none" THEN 0 ELSE MaxIce
              /\ pc' = IF pc = "offer" THEN "channel" ELSE "remote"
              /\ UNCHANGED fate
           \/ /\ peer_connection' = 0
              /\ local' = "none" /\ to_gather' = 0
              /\ fate' = IF pc = "offer" \/ S # {} THEN "null" ELSE "failed"
              /\ UNCHANGED <<pc, shown>>
    /\ UNCHANGED <<line, sdp_type, data_channel, asked, closed, ices>>

\* Mutant of NewChannel: the channel is not kept.
DropChannel ==
    /\ At("channel")
    /\ pc' = "ask_offer"
    /\ UNCHANGED <<line, sdp_type, pointers, fate, asked, library, ices, shown>>

NewChannel ==
    /\ At("channel")
    /\ data_channel' = peer_connection
    /\ pc' = "ask_offer"
    /\ UNCHANGED <<line, sdp_type, peer_connection, fate, asked, library, ices, shown>>

AskOffer ==
    /\ At("ask_offer")
    /\ creating' = Append(creating, [type |-> "Offer", of |-> peer_connection])
    /\ pc' = "read"
    /\ UNCHANGED <<line, sdp_type, pointers, fate, asked, local, remote, to_gather, closed,
                   ices, shown>>

SetOffer ==
    /\ At("remote")
    /\ IF ~IsSdp
       THEN fate' = "failed" /\ UNCHANGED <<pc, remote>>
       ELSE /\ remote' \in {"none"} \cup {t \in {"Offer"} : local = "none"}
            /\ pc' = "ask_answer"
            /\ UNCHANGED fate
    /\ UNCHANGED <<line, sdp_type, pointers, asked, local, creating, to_gather, closed, ices, shown>>

AskAnswer ==
    /\ At("ask_answer")
    /\ creating' = Append(creating, [type |-> "Answer", of |-> peer_connection])
    /\ pc' = "read"
    /\ Done
    /\ UNCHANGED <<sdp_type, pointers, fate, asked, local, remote, to_gather, closed, ices, shown>>

-----------------------------------------------------------------------------
(* The observers, on WebRTC's signaling thread.                            *)

Called == fate = "alive" /\ pc # "end" /\ closed = "open"

\* An observer that uses what main has destroyed.
TooLate ==
    /\ pc = "destroy"
    /\ fate' = "undefined"
    /\ UNCHANGED <<pc, line, sdp_type, pointers, asked, library, ices, shown>>

\* OnSuccess and on_success_csd: a description is made, set and printed.
OnSuccess ==
    /\ Called
    /\ creating # <<>>
    /\ Head(creating).type = "Answer" => remote = "Offer"
    /\ \/ TooLate
       \/ /\ pc # "destroy"
          /\ IF peer_connection = 0
             THEN fate' = "null" /\ UNCHANGED <<local, creating, to_gather, shown>>
             ELSE /\ local' = Head(creating).type
                  /\ to_gather' = IF local = "none" THEN MaxIce ELSE to_gather
                  /\ creating' = Tail(creating)
                  /\ Show({Head(creating)})
                  /\ UNCHANGED fate
          /\ UNCHANGED <<pc, line, sdp_type, pointers, asked, remote, closed, ices>>

\* Only logs.
OnFailure ==
    /\ Called
    /\ creating # <<>>
    /\ creating' = Tail(creating)
    /\ UNCHANGED <<pc, line, sdp_type, pointers, fate, asked, local, remote, to_gather,
                   closed, ices, shown>>

OnIceCandidate ==
    /\ Called
    /\ to_gather > 0
    /\ LET ice == <<peer_connection, to_gather>>
       IN  \/ TooLate
           \/ /\ pc # "destroy"
              /\ to_gather' = to_gather - 1
              /\ ice_list' = Append(ice_list, ice)
              /\ gathered' = gathered \cup {[ice |-> ice, at |-> pc]}
              /\ UNCHANGED <<pc, line, sdp_type, pointers, fate, asked, local, remote,
                             creating, closed, next, listed, shown>>

\* The channel of the offer, at the side that answers.
OnDataChannel ==
    /\ Called
    /\ local = "Answer"
    /\ data_channel # peer_connection
    /\ \/ TooLate
       \/ /\ pc # "destroy"
          /\ data_channel' = peer_connection
          /\ UNCHANGED <<pc, line, sdp_type, peer_connection, fate, asked, library, ices, shown>>

-----------------------------------------------------------------------------
(* The end of main: its locals, ice_list among them, go before webrtc.     *)

Return ==
    /\ At("return")
    /\ pc' = "destroy"
    /\ UNCHANGED <<line, sdp_type, pointers, fate, asked, library, ices, shown>>

\* ~Wrapper: the observers and the threads go while a connection still calls them.
Destroy ==
    /\ At("destroy")
    /\ pc' = "end"
    /\ fate' \in {"alive"} \cup {f \in {"undefined"} : peer_connection # 0}
    /\ UNCHANGED <<line, sdp_type, pointers, asked, library, ices, shown>>

Over == (fate # "alive" \/ pc = "end") /\ UNCHANGED vars

Main ==
    \/ Sdp1 \/ TakeParameter \/ Ice1 \/ ListIce \/ WriteIce \/ ClearIce
    \/ Quit \/ Release \/ EndOfInput \/ Line \/ Sdp2 \/ Sdp3 \/ Ice2 \/ Send
    \/ NewConnection \/ NewChannel \/ AskOffer \/ SetOffer \/ AskAnswer
    \/ Return \/ Destroy

Observers == OnSuccess \/ OnFailure \/ OnIceCandidate \/ OnDataChannel

Next == Main \/ Observers \/ Over

Spec == Init /\ [][Next]_vars

-----------------------------------------------------------------------------
(* Properties.                                                             *)

Ices(seq) == {seq[i] : i \in DOMAIN seq}

\* ice1 prints no candidate twice, however often it is typed and whatever comes
\* meanwhile: what it printed it takes off the list.
ListedOnce == \A i, j \in DOMAIN listed : listed[i] = listed[j] => i = j

\* A candidate that was neither printed nor is still in the list came after the loop
\* of ice1 (441) had ended and before ice_list.clear() (449).
LostInTheGap ==
    \A g \in gathered : g.ice \in Ices(listed) \cup Ices(ice_list) \/ g.at = "clear"

\* Where main is in a command that makes a connection until it is stored.
Replacing == pc \in {"offer", "answer"}

\* The program dies of a null pointer only before the first sdp1 or sdp2, of a send
\* without a channel, or when no new connection could be made; never after quit and
\* never in an observer of a connection that is there.
NullOnlyBeforeStart ==
    fate = "null" => \/ asked = 0
                     \/ Replacing
                     \/ pc = "read" /\ mode = "text" /\ command = "send" /\ data_channel = 0

\* An observer finds its objects destroyed only where the input ended without quit:
\* quit closes the connection and gives it up first.
QuitIsClean == fate = "undefined" => peer_connection # 0

\* A description that is printed under the wrong heading has been overtaken by the next
\* sdp1 or sdp2: sdp_type is that of the last one, and the observer reads it.
HeadingTellsType == \A d \in shown : d.heading = d.type \/ d.asked > d.of

\* send uses the channel of the current connection, unless this connection answers an
\* offer: its channel is announced later, the one of an earlier connection stays till then.
ChannelIsCurrent ==
    At("read") => data_channel \in {0, peer_connection} \/ sdp_type = "Answer"

-----------------------------------------------------------------------------
(* The invariant that the proofs use.                                      *)

Running == fate = "alive" /\ closed = "open"

\* Where main is in a command that makes a connection once it is stored.
Making == pc \in {"channel", "ask_offer", "remote", "ask_answer"}

\* The current connection is the last that was asked for, until quit gives it up.
Connections ==
    /\ Running => peer_connection = IF Replacing THEN asked - 1 ELSE asked
    /\ Replacing \/ Making => asked > 0 /\ closed = "open"
    /\ pc = "release" => closed = "closed"
    /\ closed = "closed" => pc \in {"release", "return", "destroy", "end"}
    /\ asked = 0 <=> sdp_type = "none"
    /\ pc \in {"channel", "ask_offer"} => sdp_type = "Offer"
    /\ pc \in {"answer", "remote", "ask_answer"} => sdp_type = "Answer"
    /\ pc = "offer" => sdp_type = "Offer"

\* The one request that is open is that of the current connection; a connection without
\* a description has no candidates.
Requests ==
    /\ \A i \in DOMAIN creating : /\ i = 1
                                  /\ creating[i].of = peer_connection
                                  /\ creating[i].of > 0
                                  /\ creating[i].type = sdp_type \/ asked > creating[i].of
    /\ creating # <<>> => closed = "open"
    /\ local = "none" => to_gather = 0
    /\ Running /\ local # "none" => peer_connection > 0
    /\ Making => creating = <<>>

Channels ==
    fate = "alive" /\ pc \in {"read", "list", "clear", "ask_offer"} /\ sdp_type # "Answer" =>
        data_channel = peer_connection

\* The candidate c is one that has come.
Known(c) ==
    \/ c[1] < peer_connection
    \/ c[1] = peer_connection /\ local # "none" /\ c[2] > to_gather

Listing == pc \in {"list", "clear"}

\* The list has no candidate twice, and none that was printed but by the loop that is
\* running; what that loop has not reached when it ends came after its end.
Candidates ==
    /\ next > 0
    /\ Running => /\ \A c \in Ices(listed) \cup Ices(ice_list) : Known(c)
                  /\ \A g \in gathered : Known(g.ice)
    /\ \A i, j \in DOMAIN ice_list : ice_list[i] = ice_list[j] => i = j
    /\ \A i \in DOMAIN listed, j \in DOMAIN ice_list :
           listed[i] = ice_list[j] => Listing /\ j < next
    /\ Listing => \A j \in DOMAIN ice_list : j < next => ice_list[j] \in Ices(listed)
    /\ Listing => next <= Len(ice_list) + 1
    /\ pc = "clear" => \A j \in DOMAIN ice_list, g \in gathered :
                           j >= next /\ g.ice = ice_list[j] => g.at = "clear"

\* The invariant the proofs use; it has the properties as its consequences.
CommandLineInv ==
    /\ TypeOK
    /\ Connections
    /\ Requests
    /\ Channels
    /\ Candidates
    /\ ListedOnce
    /\ LostInTheGap
    /\ NullOnlyBeforeStart
    /\ QuitIsClean
    /\ HeadingTellsType
=============================================================================
