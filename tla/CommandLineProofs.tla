-------------------------- MODULE CommandLineProofs --------------------------
(* Proofs about CommandLine, for any number of commands, candidates, lines. *)
EXTENDS CommandLine, SequenceTheorems, TLAPS

\* The empty sequence is one of any type.
LEMMA EmptySequence == \A T : <<>> \in Seq(T)
OBVIOUS

\* What Head and Tail return.
LEMMA Tails ==
  \A T : \A s \in Seq(T) : s # <<>> => Tail(s) \in Seq(T) /\ Head(s) \in T
OBVIOUS

\* What Append does.
LEMMA Appends ==
  ASSUME NEW T, NEW s \in Seq(T), NEW e
  PROVE  /\ Len(s) \in Nat /\ DOMAIN s = 1..Len(s)
         /\ Len(Append(s, e)) = Len(s) + 1 /\ DOMAIN Append(s, e) = 1..Len(s) + 1
         /\ \A i \in DOMAIN s : Append(s, e)[i] = s[i]
         /\ Append(s, e)[Len(s) + 1] = e
OBVIOUS

\* A request that is open has a heading.
LEMMA PendingTypes ==
  ASSUME TypeOK, Connections, Requests, Running
  PROVE  /\ Pending \in SUBSET [type : SdpTypes, of : Nat]
         /\ creating # <<>> => sdp_type # "none" /\ Head(creating) \in Pending
<1>1. Pending \in SUBSET [type : SdpTypes, of : Nat]
  <2>1. \A T : creating \in Seq(T) => \A i \in DOMAIN creating : creating[i] \in T
    OBVIOUS
  <2>2. creating \in Seq([type : SdpTypes, of : Nat])
    BY DEF TypeOK
  <2>3. \A i \in DOMAIN creating : creating[i] \in [type : SdpTypes, of : Nat]
    BY <2>1, <2>2, Zenon
  <2> QED BY <2>3, Zenon DEF Pending
<1>2. ASSUME creating # <<>>
      PROVE  1 \in DOMAIN creating /\ Head(creating) = creating[1]
  BY <1>2 DEF TypeOK
<1>3. ASSUME creating # <<>>
      PROVE  asked > 0
  <2>1. creating[1].of > 0 /\ creating[1].of = peer_connection
    BY <1>2, <1>3 DEF Requests
  <2>2. asked \in Nat /\ (peer_connection = asked - 1 \/ peer_connection = asked)
    BY CommandLineAssumption DEF TypeOK, Connections
  <2> QED BY <2>1, <2>2
<1> QED BY <1>1, <1>2, <1>3 DEF Connections, Pending

\* There is never a second one.
LEMMA OneRequest ==
  ASSUME TypeOK, Requests, creating # <<>>
  PROVE  1 \in DOMAIN creating /\ Head(creating) = creating[1] /\ Tail(creating) = <<>>
<1>1. creating \in Seq([type : SdpTypes, of : Nat])
  BY DEF TypeOK
<1>2. \A i \in 1..Len(creating) : i = 1
  BY <1>1 DEF Requests
<1>3. Len(creating) \in Nat /\ Len(creating) # 0
  BY <1>1
<1>4. Len(creating) = 1
  <2>1. CASE Len(creating) > 1
    <3>1. 2 \in 1..Len(creating)
      BY <1>3, <2>1
    <3> QED BY <1>2, <3>1
  <2>2. \A n \in Nat : n # 0 /\ ~(n > 1) => n = 1
    OBVIOUS
  <2> QED BY <1>3, <2>1, <2>2, Zenon
<1>5. Tail(creating) \in Seq([type : SdpTypes, of : Nat]) /\ Len(Tail(creating)) = 0
  BY <1>1, <1>4
<1>6. Tail(creating) = <<>>
  BY <1>5, EmptySeq, Zenon
<1>7. 1 \in DOMAIN creating /\ Head(creating) = creating[1]
  BY <1>1, <1>4
<1> QED BY <1>6, <1>7

\* Where a description that is printed comes from.
LEMMA ShownBy ==
  ASSUME NEW S, Show(S), NEW d \in shown'
  PROVE  \/ d \in shown
         \/ \E r \in S : d.type = r.type /\ d.of = r.of /\ d.heading = sdp_type /\ d.asked = asked
BY DEF Show

\* What is printed is a description.
LEMMA ShowTypes ==
  ASSUME TypeOK, sdp_type # "none", NEW S \in SUBSET [type : SdpTypes, of : Nat], Show(S)
  PROVE  shown' \in SUBSET Descriptions
<1>1. asked \in Nat
  BY CommandLineAssumption DEF TypeOK
<1> QED BY <1>1 DEF TypeOK, Show, Descriptions

\* What a connection answers before it goes is a description.
LEMMA FlushTypes ==
  ASSUME TypeOK, Connections, Requests, Running, NEW S \in SUBSET Pending, Show(S)
  PROVE  shown' \in SUBSET Descriptions
<1>1. CASE creating = <<>>
  <2>1. S = {}
    BY <1>1 DEF Pending
  <2> QED BY <2>1 DEF Show, TypeOK
<1>2. CASE creating # <<>>
  BY <1>2, PendingTypes, ShowTypes
<1> QED BY <1>1, <1>2

\* Every step keeps the types.
LEMMA CommandLineTypes ==
  ASSUME TypeOK, CommandLineInv, [Next]_vars
  PROVE  TypeOK'
<1> USE CommandLineAssumption DEF TypeOK, At, Command, Semicolon, Called, Statements, SdpTypes,
      line, pointers, library, ices, Done, TooLate
<1>1. CASE Sdp1 BY <1>1 DEF Sdp1
<1>2. CASE TakeParameter BY <1>2 DEF TakeParameter
<1>3. CASE Ice1 BY <1>3 DEF Ice1
<1>4. CASE ListIce
  <2>1. ice_list[next] \in Nat \X Nat
    <3>1. next # 0
      BY DEF CommandLineInv, Candidates
    <3> QED BY <3>1, <1>4 DEF ListIce
  <2> QED BY <1>4, <2>1 DEF ListIce
<1>5. CASE WriteIce BY <1>5 DEF WriteIce
<1>6. CASE ClearIce BY <1>6 DEF ClearIce
<1>7. CASE Quit
  <2>1. shown' \in SUBSET Descriptions /\ creating' \in Seq([type : SdpTypes, of : Nat])
    <3>1. Running
      BY <1>7 DEF Quit, Running, CommandLineInv, Connections
    <3>2. Flush \/ UNCHANGED <<creating, shown>>
      BY <1>7 DEF Quit
    <3>3. shown' \in SUBSET Descriptions /\ (creating' = <<>> \/ creating' = creating)
      BY <3>1, <3>2, FlushTypes DEF CommandLineInv, Flush
    <3> QED BY <3>3, EmptySequence
  <2>2. pc' \in Statements /\ fate' \in {"alive", "null"} /\ closed' \in {"open", "closed"}
    BY <1>7 DEF Quit
  <2>3. to_gather' \in 0..MaxIce
    BY <1>7 DEF Quit
  <2>4. UNCHANGED <<line, sdp_type, pointers, asked, local, remote, ices>>
    BY <1>7 DEF Quit
  <2> QED BY <2>1, <2>2, <2>3, <2>4
<1>8. CASE Release BY <1>8 DEF Release
<1>9. CASE EndOfInput BY <1>9 DEF EndOfInput
<1>10. CASE Line BY <1>10 DEF Line
<1>11. CASE Sdp2 BY <1>11 DEF Sdp2
<1>12. CASE Sdp3
  <2>1. parameter' \in Seq(Texts) /\ mode' \in {"command", "text"} /\ command' = command
    <3>1. parameter' = <<>> \/ parameter' = parameter
      BY <1>12 DEF Sdp3
    <3>2. mode' \in {"command", "text"} /\ command' = command
      BY <1>12 DEF Sdp3
    <3> QED BY <3>1, <3>2, EmptySequence
  <2>2. remote' \in SdpTypes \cup {"none"}
    BY <1>12 DEF Sdp3
  <2>3. fate' \in {"alive", "failed", "null", "undefined"}
    BY <1>12 DEF Sdp3
  <2>4. UNCHANGED <<pc, sdp_type, pointers, asked, local, creating, to_gather, closed, ices,
                    shown>>
    BY <1>12 DEF Sdp3
  <2> QED BY <2>1, <2>2, <2>3, <2>4
<1>13. CASE Ice2
  <2>1. parameter' \in Seq(Texts) /\ mode' \in {"command", "text"} /\ command' = command
    <3>1. parameter' = <<>> \/ parameter' = parameter
      BY <1>13 DEF Ice2
    <3>2. mode' \in {"command", "text"} /\ command' = command
      BY <1>13 DEF Ice2
    <3> QED BY <3>1, <3>2, EmptySequence
  <2>2. fate' \in {"alive", "failed", "null", "undefined"}
    BY <1>13 DEF Ice2
  <2>3. UNCHANGED <<pc, sdp_type, pointers, asked, library, ices, shown>>
    BY <1>13 DEF Ice2
  <2> QED BY <2>1, <2>2, <2>3
<1>14. CASE Send
  <2>1. parameter' \in Seq(Texts) /\ mode' \in {"command", "text"} /\ command' = command
    <3>1. parameter' = <<>> \/ parameter' = parameter
      BY <1>14 DEF Send
    <3>2. mode' \in {"command", "text"} /\ command' = command
      BY <1>14 DEF Send
    <3> QED BY <3>1, <3>2, EmptySequence
  <2>2. fate' \in {"alive", "failed", "null", "undefined"}
    BY <1>14 DEF Send
  <2>3. UNCHANGED <<pc, sdp_type, pointers, asked, library, ices, shown>>
    BY <1>14 DEF Send
  <2> QED BY <2>1, <2>2, <2>3
<1>15. CASE NewConnection
  <2>1. shown' \in SUBSET Descriptions /\ creating' \in Seq([type : SdpTypes, of : Nat])
    <3>1. Running
      BY <1>15 DEF Running, CommandLineInv, Connections, NewConnection, Replacing
    <3>2. shown' = shown \/ \E S \in SUBSET Pending : Show(S)
      BY <1>15 DEF NewConnection
    <3>3. shown' \in SUBSET Descriptions /\ creating' = <<>>
      BY <1>15, <3>1, <3>2, FlushTypes DEF CommandLineInv, NewConnection
    <3> QED BY <3>3, EmptySequence
  <2>2. pc' \in Statements /\ fate' \in {"alive", "null", "failed"}
    BY <1>15 DEF NewConnection
  <2>3. peer_connection' \in 0..MaxAsked
    BY <1>15 DEF NewConnection
  <2>4. local' \in SdpTypes \cup {"none"} /\ remote' = "none" /\ to_gather' \in 0..MaxIce
    BY <1>15 DEF NewConnection
  <2>5. UNCHANGED <<line, sdp_type, data_channel, asked, closed, ices>>
    BY <1>15 DEF NewConnection
  <2> QED BY <2>1, <2>2, <2>3, <2>4, <2>5
<1>16. CASE NewChannel BY <1>16 DEF NewChannel
<1>17. CASE AskOffer BY <1>17 DEF AskOffer
<1>18. CASE SetOffer BY <1>18 DEF SetOffer
<1>19. CASE AskAnswer BY <1>19 DEF AskAnswer
<1>20. CASE Return BY <1>20 DEF Return
<1>21. CASE Destroy BY <1>21 DEF Destroy
<1>22. CASE OnSuccess
  <2>1. ASSUME creating # <<>>, Show({Head(creating)})
        PROVE  shown' \in SUBSET Descriptions
    <3>1. Running
      BY <1>22 DEF Running, OnSuccess
    <3> QED BY <2>1, <3>1, PendingTypes, ShowTypes DEF CommandLineInv
  <2>2. CASE TooLate
    BY <2>2
  <2>3. CASE ~TooLate
    <3>1. UNCHANGED <<pc, line, sdp_type, pointers, asked, remote, closed, ices>>
      BY <1>22, <2>3 DEF OnSuccess
    <3>2. fate' \in {"alive", "null"}
      BY <1>22, <2>3 DEF OnSuccess
    <3>3. to_gather' \in 0..MaxIce
      BY <1>22, <2>3 DEF OnSuccess
    <3>4. shown' \in SUBSET Descriptions
      BY <1>22, <2>1, <2>3 DEF OnSuccess
    <3>5. creating' \in Seq([type : SdpTypes, of : Nat]) /\ local' \in SdpTypes \cup {"none"}
      <4>1. creating # <<>> => /\ Tail(creating) \in Seq([type : SdpTypes, of : Nat])
                              /\ Head(creating) \in [type : SdpTypes, of : Nat]
        BY Tails
      <4> QED BY <1>22, <2>3, <4>1 DEF OnSuccess
    <3> QED BY <3>1, <3>2, <3>3, <3>4, <3>5
  <2> QED BY <2>2, <2>3
<1>23. CASE OnFailure BY <1>23 DEF OnFailure
<1>24. CASE OnIceCandidate
  <2>1. CASE TooLate
    BY <2>1
  <2>2. CASE ~TooLate
    <3> DEFINE ice == <<peer_connection, to_gather>>
    <3>1. ice \in Nat \X Nat
      OBVIOUS
    <3>2. /\ to_gather' = to_gather - 1 /\ to_gather > 0
          /\ ice_list' = Append(ice_list, ice)
          /\ gathered' = gathered \cup {[ice |-> ice, at |-> pc]}
          /\ UNCHANGED <<pc, line, sdp_type, pointers, fate, asked, local, remote,
                         creating, closed, next, listed, shown>>
      BY <1>24, <2>2 DEF OnIceCandidate
    <3>3. ice_list' \in Seq(Nat \X Nat)
      BY <3>1, <3>2
    <3>4. gathered' \in SUBSET [ice : Nat \X Nat, at : Statements]
      BY <3>1, <3>2
    <3>5. to_gather' \in 0..MaxIce
      BY <3>2
    <3> QED BY <3>2, <3>3, <3>4, <3>5
  <2> QED BY <2>1, <2>2
<1>25. CASE OnDataChannel BY <1>25 DEF OnDataChannel
<1>26. CASE UNCHANGED vars \/ Over BY <1>26 DEF Over, vars
<1> QED BY <1>1, <1>2, <1>3, <1>4, <1>5, <1>6, <1>7, <1>8, <1>9, <1>10, <1>11, <1>12, <1>13,
     <1>14, <1>15, <1>16, <1>17, <1>18, <1>19, <1>20, <1>21, <1>22, <1>23, <1>24, <1>25, <1>26
     DEF Next, Main, Observers

\* The current connection stays the last that was asked for.
LEMMA ConnectionsKept ==
  ASSUME TypeOK, CommandLineInv, [Next]_vars
  PROVE  Connections'
<1> USE CommandLineAssumption DEF TypeOK, Statements, CommandLineInv, Connections, Running, Replacing, Making, At, Command, Semicolon, Called, TooLate,
      line, pointers, library, ices, Done
<1>1. CASE Sdp1 BY <1>1 DEF Sdp1
<1>2. CASE TakeParameter BY <1>2 DEF TakeParameter
<1>3. CASE Ice1 BY <1>3 DEF Ice1
<1>4. CASE ListIce BY <1>4 DEF ListIce
<1>5. CASE WriteIce BY <1>5 DEF WriteIce
<1>6. CASE ClearIce BY <1>6 DEF ClearIce
<1>7. CASE Quit BY <1>7 DEF Quit
<1>8. CASE Release BY <1>8 DEF Release
<1>9. CASE EndOfInput BY <1>9 DEF EndOfInput
<1>10. CASE Line BY <1>10 DEF Line
<1>11. CASE Sdp2 BY <1>11 DEF Sdp2
<1>12. CASE Sdp3 BY <1>12 DEF Sdp3
<1>13. CASE Ice2 BY <1>13 DEF Ice2
<1>14. CASE Send BY <1>14 DEF Send
<1>15. CASE NewConnection BY <1>15 DEF NewConnection
<1>16. CASE NewChannel BY <1>16 DEF NewChannel
<1>17. CASE AskOffer BY <1>17 DEF AskOffer
<1>18. CASE SetOffer BY <1>18 DEF SetOffer
<1>19. CASE AskAnswer BY <1>19 DEF AskAnswer
<1>20. CASE Return BY <1>20 DEF Return
<1>21. CASE Destroy BY <1>21 DEF Destroy
<1>22. CASE OnSuccess BY <1>22 DEF OnSuccess
<1>23. CASE OnFailure BY <1>23 DEF OnFailure
<1>24. CASE OnIceCandidate BY <1>24 DEF OnIceCandidate
<1>25. CASE OnDataChannel BY <1>25 DEF OnDataChannel
<1>26. CASE UNCHANGED vars \/ Over BY <1>26 DEF Over, vars
<1> QED BY <1>1, <1>2, <1>3, <1>4, <1>5, <1>6, <1>7, <1>8, <1>9, <1>10, <1>11, <1>12, <1>13,
     <1>14, <1>15, <1>16, <1>17, <1>18, <1>19, <1>20, <1>21, <1>22, <1>23, <1>24, <1>25, <1>26
     DEF Next, Main, Observers

\* The channel stays that of the last offer.
LEMMA ChannelsKept ==
  ASSUME TypeOK, CommandLineInv, [Next]_vars
  PROVE  Channels'
<1> USE CommandLineAssumption DEF TypeOK, Statements, CommandLineInv, Channels, Connections, Running, Replacing, Making, At, Command, Semicolon, Called, TooLate,
      line, pointers, library, ices, Done
<1>1. CASE Sdp1 BY <1>1 DEF Sdp1
<1>2. CASE TakeParameter BY <1>2 DEF TakeParameter
<1>3. CASE Ice1 BY <1>3 DEF Ice1
<1>4. CASE ListIce BY <1>4 DEF ListIce
<1>5. CASE WriteIce BY <1>5 DEF WriteIce
<1>6. CASE ClearIce BY <1>6 DEF ClearIce
<1>7. CASE Quit BY <1>7 DEF Quit
<1>8. CASE Release BY <1>8 DEF Release
<1>9. CASE EndOfInput BY <1>9 DEF EndOfInput
<1>10. CASE Line BY <1>10 DEF Line
<1>11. CASE Sdp2 BY <1>11 DEF Sdp2
<1>12. CASE Sdp3 BY <1>12 DEF Sdp3
<1>13. CASE Ice2 BY <1>13 DEF Ice2
<1>14. CASE Send BY <1>14 DEF Send
<1>15. CASE NewConnection BY <1>15 DEF NewConnection
<1>16. CASE NewChannel BY <1>16 DEF NewChannel
<1>17. CASE AskOffer BY <1>17 DEF AskOffer
<1>18. CASE SetOffer BY <1>18 DEF SetOffer
<1>19. CASE AskAnswer BY <1>19 DEF AskAnswer
<1>20. CASE Return BY <1>20 DEF Return
<1>21. CASE Destroy BY <1>21 DEF Destroy
<1>22. CASE OnSuccess BY <1>22 DEF OnSuccess
<1>23. CASE OnFailure BY <1>23 DEF OnFailure
<1>24. CASE OnIceCandidate BY <1>24 DEF OnIceCandidate
<1>25. CASE OnDataChannel BY <1>25 DEF OnDataChannel
<1>26. CASE UNCHANGED vars \/ Over BY <1>26 DEF Over, vars
<1> QED BY <1>1, <1>2, <1>3, <1>4, <1>5, <1>6, <1>7, <1>8, <1>9, <1>10, <1>11, <1>12, <1>13,
     <1>14, <1>15, <1>16, <1>17, <1>18, <1>19, <1>20, <1>21, <1>22, <1>23, <1>24, <1>25, <1>26
     DEF Next, Main, Observers

\* No request outlives its connection.
LEMMA RequestsKept ==
  ASSUME TypeOK, CommandLineInv, [Next]_vars
  PROVE  Requests'
<1> USE CommandLineAssumption DEF TypeOK, Statements, CommandLineInv, Requests, Connections, Running, Replacing, Making, Flush, At, Command, Semicolon, Called, TooLate,
      line, pointers, library, ices, Done
<1>1. CASE Sdp1 BY <1>1 DEF Sdp1
<1>2. CASE TakeParameter BY <1>2 DEF TakeParameter
<1>3. CASE Ice1 BY <1>3 DEF Ice1
<1>4. CASE ListIce BY <1>4 DEF ListIce
<1>5. CASE WriteIce BY <1>5 DEF WriteIce
<1>6. CASE ClearIce BY <1>6 DEF ClearIce
<1>7. CASE Quit BY <1>7 DEF Quit
<1>8. CASE Release BY <1>8 DEF Release
<1>9. CASE EndOfInput BY <1>9 DEF EndOfInput
<1>10. CASE Line BY <1>10 DEF Line
<1>11. CASE Sdp2 BY <1>11 DEF Sdp2
<1>12. CASE Sdp3 BY <1>12 DEF Sdp3
<1>13. CASE Ice2 BY <1>13 DEF Ice2
<1>14. CASE Send BY <1>14 DEF Send
<1>15. CASE NewConnection BY <1>15 DEF NewConnection
<1>16. CASE NewChannel BY <1>16 DEF NewChannel
<1>17. CASE AskOffer BY <1>17 DEF AskOffer
<1>18. CASE SetOffer BY <1>18 DEF SetOffer
<1>19. CASE AskAnswer BY <1>19 DEF AskAnswer
<1>20. CASE Return BY <1>20 DEF Return
<1>21. CASE Destroy BY <1>21 DEF Destroy
<1>22. CASE OnSuccess
  <2>1. creating # <<>> /\ creating[1].of = peer_connection /\ Tail(creating) = <<>>
    <3>1. creating # <<>>
      BY <1>22 DEF OnSuccess
    <3> QED BY <3>1, OneRequest
  <2>2. \/ creating' = <<>> /\ local' # "none" /\ peer_connection > 0
        \/ UNCHANGED library
    <3>1. Head(creating) \in [type : SdpTypes, of : Nat]
      <4>1. creating \in Seq([type : SdpTypes, of : Nat])
        BY DEF TypeOK
      <4> QED BY <2>1, <4>1, Tails, Zenon
    <3>2. Head(creating).type # "none"
      BY <3>1 DEF SdpTypes
    <3>3. creating[1].of > 0
      BY <2>1, OneRequest
    <3>4. CASE TooLate
      BY <3>4
    <3>5. CASE peer_connection = 0 /\ ~TooLate
      BY <2>1, <3>3, <3>5
    <3>6. CASE peer_connection # 0 /\ ~TooLate
      <4>1. local' = Head(creating).type /\ creating' = Tail(creating)
        BY <1>22, <3>6 DEF OnSuccess
      <4>2. peer_connection > 0
        BY <3>6
      <4> QED BY <2>1, <3>2, <4>1, <4>2
    <3> QED BY <3>4, <3>5, <3>6
  <2>3. UNCHANGED <<pc, sdp_type, pointers, asked, closed>>
    BY <1>22 DEF OnSuccess
  <2> QED BY <1>22, <2>2, <2>3 DEF OnSuccess
<1>23. CASE OnFailure BY <1>23 DEF OnFailure
<1>24. CASE OnIceCandidate BY <1>24 DEF OnIceCandidate
<1>25. CASE OnDataChannel BY <1>25 DEF OnDataChannel
<1>26. CASE UNCHANGED vars \/ Over BY <1>26 DEF Over, vars
<1> QED BY <1>1, <1>2, <1>3, <1>4, <1>5, <1>6, <1>7, <1>8, <1>9, <1>10, <1>11, <1>12, <1>13,
     <1>14, <1>15, <1>16, <1>17, <1>18, <1>19, <1>20, <1>21, <1>22, <1>23, <1>24, <1>25, <1>26
     DEF Next, Main, Observers

\* No null pointer is used once a connection has been asked for.
LEMMA NullKept ==
  ASSUME TypeOK, CommandLineInv, [Next]_vars
  PROVE  NullOnlyBeforeStart'
<1> USE CommandLineAssumption DEF TypeOK, Statements, CommandLineInv, NullOnlyBeforeStart, Requests, Connections, Running, Replacing, Making, At, Command, Semicolon, Called, TooLate,
      line, pointers, library, ices, Done
<1>1. CASE Sdp1 BY <1>1 DEF Sdp1
<1>2. CASE TakeParameter BY <1>2 DEF TakeParameter
<1>3. CASE Ice1 BY <1>3 DEF Ice1
<1>4. CASE ListIce BY <1>4 DEF ListIce
<1>5. CASE WriteIce BY <1>5 DEF WriteIce
<1>6. CASE ClearIce BY <1>6 DEF ClearIce
<1>7. CASE Quit BY <1>7 DEF Quit
<1>8. CASE Release BY <1>8 DEF Release
<1>9. CASE EndOfInput BY <1>9 DEF EndOfInput
<1>10. CASE Line BY <1>10 DEF Line
<1>11. CASE Sdp2 BY <1>11 DEF Sdp2
<1>12. CASE Sdp3 BY <1>12 DEF Sdp3
<1>13. CASE Ice2 BY <1>13 DEF Ice2
<1>14. CASE Send BY <1>14 DEF Send
<1>15. CASE NewConnection BY <1>15 DEF NewConnection
<1>16. CASE NewChannel BY <1>16 DEF NewChannel
<1>17. CASE AskOffer BY <1>17 DEF AskOffer
<1>18. CASE SetOffer BY <1>18 DEF SetOffer
<1>19. CASE AskAnswer BY <1>19 DEF AskAnswer
<1>20. CASE Return BY <1>20 DEF Return
<1>21. CASE Destroy BY <1>21 DEF Destroy
<1>22. CASE OnSuccess BY <1>22 DEF OnSuccess
<1>23. CASE OnFailure BY <1>23 DEF OnFailure
<1>24. CASE OnIceCandidate BY <1>24 DEF OnIceCandidate
<1>25. CASE OnDataChannel BY <1>25 DEF OnDataChannel
<1>26. CASE UNCHANGED vars \/ Over BY <1>26 DEF Over, vars
<1> QED BY <1>1, <1>2, <1>3, <1>4, <1>5, <1>6, <1>7, <1>8, <1>9, <1>10, <1>11, <1>12, <1>13,
     <1>14, <1>15, <1>16, <1>17, <1>18, <1>19, <1>20, <1>21, <1>22, <1>23, <1>24, <1>25, <1>26
     DEF Next, Main, Observers

\* Nothing calls an observer that is gone, after quit.
LEMMA QuitKept ==
  ASSUME TypeOK, CommandLineInv, [Next]_vars
  PROVE  QuitIsClean'
<1> USE CommandLineAssumption DEF TypeOK, Statements, CommandLineInv, QuitIsClean, Requests, Connections, Running, Replacing, Making, At, Command, Semicolon, Called, TooLate,
      line, pointers, library, ices, Done
<1>1. CASE Sdp1 BY <1>1 DEF Sdp1
<1>2. CASE TakeParameter BY <1>2 DEF TakeParameter
<1>3. CASE Ice1 BY <1>3 DEF Ice1
<1>4. CASE ListIce BY <1>4 DEF ListIce
<1>5. CASE WriteIce BY <1>5 DEF WriteIce
<1>6. CASE ClearIce BY <1>6 DEF ClearIce
<1>7. CASE Quit BY <1>7 DEF Quit
<1>8. CASE Release BY <1>8 DEF Release
<1>9. CASE EndOfInput BY <1>9 DEF EndOfInput
<1>10. CASE Line BY <1>10 DEF Line
<1>11. CASE Sdp2 BY <1>11 DEF Sdp2
<1>12. CASE Sdp3 BY <1>12 DEF Sdp3
<1>13. CASE Ice2 BY <1>13 DEF Ice2
<1>14. CASE Send BY <1>14 DEF Send
<1>15. CASE NewConnection BY <1>15 DEF NewConnection
<1>16. CASE NewChannel BY <1>16 DEF NewChannel
<1>17. CASE AskOffer BY <1>17 DEF AskOffer
<1>18. CASE SetOffer BY <1>18 DEF SetOffer
<1>19. CASE AskAnswer BY <1>19 DEF AskAnswer
<1>20. CASE Return BY <1>20 DEF Return
<1>21. CASE Destroy BY <1>21 DEF Destroy
<1>22. CASE OnSuccess BY <1>22 DEF OnSuccess
<1>23. CASE OnFailure BY <1>23 DEF OnFailure
<1>24. CASE OnIceCandidate BY <1>24 DEF OnIceCandidate
<1>25. CASE OnDataChannel BY <1>25 DEF OnDataChannel
<1>26. CASE UNCHANGED vars \/ Over BY <1>26 DEF Over, vars
<1> QED BY <1>1, <1>2, <1>3, <1>4, <1>5, <1>6, <1>7, <1>8, <1>9, <1>10, <1>11, <1>12, <1>13,
     <1>14, <1>15, <1>16, <1>17, <1>18, <1>19, <1>20, <1>21, <1>22, <1>23, <1>24, <1>25, <1>26
     DEF Next, Main, Observers

\* Only a description that has been overtaken gets the wrong heading.
LEMMA HeadingKept ==
  ASSUME TypeOK, CommandLineInv, [Next]_vars
  PROVE  HeadingTellsType'
<1> USE CommandLineAssumption DEF TypeOK, Statements, CommandLineInv, HeadingTellsType, Requests, Connections, Running, Replacing, Making, Show, Flush, Pending, At, Command, Semicolon, Called, TooLate,
      line, pointers, library, ices, Done
<1>1. CASE Sdp1 BY <1>1 DEF Sdp1
<1>2. CASE TakeParameter BY <1>2 DEF TakeParameter
<1>3. CASE Ice1 BY <1>3 DEF Ice1
<1>4. CASE ListIce BY <1>4 DEF ListIce
<1>5. CASE WriteIce BY <1>5 DEF WriteIce
<1>6. CASE ClearIce BY <1>6 DEF ClearIce
<1>7. CASE Quit
  <2>1. shown' = shown \/ Flush
    BY <1>7 DEF Quit
  <2>2. \A r \in Pending : r.type = sdp_type \/ asked > r.of
    BY DEF Pending
  <2>3. CASE shown' = shown
    BY <2>3
  <2>4. CASE Flush
    <3>1. PICK S \in SUBSET Pending : Show(S)
      BY <2>4
    <3> QED BY <2>2, <3>1, ShownBy
  <2> QED BY <2>1, <2>3, <2>4
<1>8. CASE Release BY <1>8 DEF Release
<1>9. CASE EndOfInput BY <1>9 DEF EndOfInput
<1>10. CASE Line BY <1>10 DEF Line
<1>11. CASE Sdp2 BY <1>11 DEF Sdp2
<1>12. CASE Sdp3 BY <1>12 DEF Sdp3
<1>13. CASE Ice2 BY <1>13 DEF Ice2
<1>14. CASE Send BY <1>14 DEF Send
<1>15. CASE NewConnection
  <2>1. \A r \in Pending : r.type = sdp_type \/ asked > r.of
    BY DEF Pending
  <2>2. shown' = shown \/ \E S \in SUBSET Pending : Show(S)
    BY <1>15 DEF NewConnection
  <2>3. UNCHANGED <<sdp_type, asked>>
    BY <1>15 DEF NewConnection
  <2>4. CASE shown' = shown
    BY <2>3, <2>4
  <2>5. CASE \E S \in SUBSET Pending : Show(S)
    <3>1. PICK S \in SUBSET Pending : Show(S)
      BY <2>5
    <3> QED BY <2>1, <2>3, <3>1, ShownBy
  <2> QED BY <2>2, <2>4, <2>5
<1>16. CASE NewChannel BY <1>16 DEF NewChannel
<1>17. CASE AskOffer BY <1>17 DEF AskOffer
<1>18. CASE SetOffer BY <1>18 DEF SetOffer
<1>19. CASE AskAnswer BY <1>19 DEF AskAnswer
<1>20. CASE Return BY <1>20 DEF Return
<1>21. CASE Destroy BY <1>21 DEF Destroy
<1>22. CASE OnSuccess
  <2>1. /\ creating[1].type = sdp_type \/ asked > creating[1].of
        /\ Head(creating) = creating[1]
    <3>1. creating # <<>>
      BY <1>22 DEF OnSuccess
    <3> QED BY <3>1, OneRequest
  <2>2. shown' = shown \/ Show({creating[1]})
    BY <1>22, <2>1 DEF OnSuccess
  <2> QED BY <2>1, <2>2
<1>23. CASE OnFailure BY <1>23 DEF OnFailure
<1>24. CASE OnIceCandidate BY <1>24 DEF OnIceCandidate
<1>25. CASE OnDataChannel BY <1>25 DEF OnDataChannel
<1>26. CASE UNCHANGED vars \/ Over BY <1>26 DEF Over, vars
<1> QED BY <1>1, <1>2, <1>3, <1>4, <1>5, <1>6, <1>7, <1>8, <1>9, <1>10, <1>11, <1>12, <1>13,
     <1>14, <1>15, <1>16, <1>17, <1>18, <1>19, <1>20, <1>21, <1>22, <1>23, <1>24, <1>25, <1>26
     DEF Next, Main, Observers

\* A step that leaves the lists alone, does not enter or leave ice1, and forgets no
\* candidate.
LEMMA ListsLeftAlone ==
  ASSUME TypeOK, CommandLineInv, UNCHANGED ices,
         pc' = pc \/ (~Listing /\ ~Listing'),
         Running' => Running,
         Running' => \A c \in Nat \X Nat : Known(c) => Known(c)'
  PROVE  Candidates' /\ ListedOnce' /\ LostInTheGap'
<1> USE DEF ices
<1>1. \A c \in Ices(listed) \cup Ices(ice_list) : c \in Nat \X Nat
  BY DEF TypeOK, Ices
<1>2. \A g \in gathered : g.ice \in Nat \X Nat
  BY DEF TypeOK
<1>3. Running' => /\ \A c \in Ices(listed)' \cup Ices(ice_list)' : Known(c)'
                  /\ \A g \in gathered' : Known(g.ice)'
  BY <1>1, <1>2 DEF CommandLineInv, Candidates, Ices
<1>4. Listing' => Listing
  BY DEF Listing
<1>5. pc' = "clear" => pc = "clear"
  BY DEF Listing
<1>6. ~Listing' => ~Listing
  BY DEF Listing
<1>7. Candidates'
  BY <1>3, <1>4, <1>5, <1>6 DEF CommandLineInv, Candidates, Ices
<1> QED BY <1>7 DEF CommandLineInv, ListedOnce, LostInTheGap, Ices

\* Every step keeps the list in order, and loses candidates in the gap only.
LEMMA CandidatesKept ==
  ASSUME TypeOK, CommandLineInv, [Next]_vars
  PROVE  Candidates' /\ ListedOnce' /\ LostInTheGap'
<1> USE CommandLineAssumption DEF At, Command, Semicolon, Called, line, pointers, library, ices,
      Done, TooLate
<1>1. CASE Ice1
  <2>1. /\ next' = 1 /\ pc' = "list" /\ pc = "read"
        /\ UNCHANGED <<ice_list, listed, gathered, peer_connection, local, to_gather, fate, closed>>
    BY <1>1 DEF Ice1
  <2>2. ~Listing
    BY <2>1 DEF Listing
  <2>3. \A j \in DOMAIN ice_list : ~(j < 1)
    BY DEF TypeOK
  <2>4. Running' => Running /\ \A c : Known(c)' = Known(c)
    BY <2>1 DEF Running, Known
  <2>5. next' <= Len(ice_list)' + 1
    BY <2>1 DEF TypeOK
  <2>6. Candidates'
    BY <2>1, <2>2, <2>3, <2>4, <2>5 DEF CommandLineInv, Candidates, Ices
  <2> QED BY <2>1, <2>6 DEF CommandLineInv, ListedOnce, LostInTheGap, Ices
<1>2. CASE ListIce
  <2>1. /\ pc = "list" /\ pc' = pc /\ next \in DOMAIN ice_list /\ next' = next + 1
        /\ listed' = Append(listed, ice_list[next])
        /\ UNCHANGED <<ice_list, gathered, peer_connection, local, to_gather, fate, closed>>
    BY <1>2 DEF ListIce, TypeOK, CommandLineInv, Candidates
  <2>2. /\ Len(listed') = Len(listed) + 1 /\ DOMAIN listed' = 1..Len(listed) + 1
        /\ DOMAIN listed = 1..Len(listed) /\ Len(listed) \in Nat
        /\ \A i \in DOMAIN listed : listed'[i] = listed[i]
        /\ listed'[Len(listed) + 1] = ice_list[next]
    <3>1. listed \in Seq(Nat \X Nat)
      BY DEF TypeOK
    <3> QED BY <2>1, <3>1, Appends
  <2>3. Listing /\ Listing' /\ next \in Nat
    BY <2>1 DEF Listing, TypeOK
  <2>4. \A i \in DOMAIN listed : listed[i] # ice_list[next]
    BY <2>1, <2>3 DEF CommandLineInv, Candidates
  <2>5. Ices(listed)' = Ices(listed) \cup {ice_list[next]}
    <3>1. \A i \in DOMAIN listed' : i \in DOMAIN listed \/ i = Len(listed) + 1
      BY <2>2
    <3>2. \A i \in DOMAIN listed : i \in DOMAIN listed'
      BY <2>2
    <3>3. Len(listed) + 1 \in DOMAIN listed'
      BY <2>2
    <3> QED BY <2>2, <3>1, <3>2, <3>3 DEF Ices
  <2>6. Ices(ice_list)' = Ices(ice_list) /\ ice_list[next] \in Ices(ice_list)
    BY <2>1 DEF Ices
  <2>7. Running' => Running /\ \A c : Known(c)' = Known(c)
    BY <2>1 DEF Running, Known
  <2>8. Running' => /\ \A c \in Ices(listed)' \cup Ices(ice_list)' : Known(c)'
                    /\ \A g \in gathered' : Known(g.ice)'
    BY <2>1, <2>5, <2>6, <2>7 DEF CommandLineInv, Candidates
  <2>9. ASSUME NEW i \in DOMAIN listed', NEW j \in DOMAIN ice_list', listed'[i] = ice_list'[j]
        PROVE  j < next'
    <3>1. j \in Nat
      BY <2>1 DEF TypeOK
    <3>2. CASE i \in DOMAIN listed
      BY <2>1, <2>2, <2>3, <2>9, <3>1, <3>2 DEF CommandLineInv, Candidates
    <3>3. CASE i = Len(listed) + 1
      <4>1. j = next
        BY <2>1, <2>2, <2>9, <3>3 DEF CommandLineInv, Candidates
      <4> QED BY <2>1, <2>3, <4>1
    <3> QED BY <2>2, <3>2, <3>3
  <2>10. \A j \in DOMAIN ice_list' : j < next' => ice_list'[j] \in Ices(listed)'
    <3>1. \A j \in DOMAIN ice_list : j < next + 1 => j < next \/ j = next
      BY <2>3 DEF TypeOK
    <3> QED BY <2>1, <2>3, <2>5, <3>1 DEF CommandLineInv, Candidates
  <2>11. Candidates'
    <3>1. next' <= Len(ice_list)' + 1
      BY <2>1, <2>3 DEF TypeOK
    <3> QED BY <2>1, <2>3, <2>8, <2>9, <2>10, <3>1 DEF CommandLineInv, Candidates
  <2>12. ListedOnce'
    <3>1. \A i \in DOMAIN listed' : i \in DOMAIN listed \/ i = Len(listed) + 1
      BY <2>2
    <3> QED BY <2>2, <2>4, <3>1 DEF CommandLineInv, ListedOnce
  <2>13. LostInTheGap'
    BY <2>1, <2>5, <2>6 DEF CommandLineInv, LostInTheGap
  <2> QED BY <2>11, <2>12, <2>13
<1>3. CASE WriteIce
  <2>1. /\ pc = "list" /\ pc' = "clear" /\ \A j \in DOMAIN ice_list : j < next
        /\ UNCHANGED <<ices, peer_connection, local, to_gather, fate, closed>>
    BY <1>3 DEF WriteIce, TypeOK
  <2>2. Listing /\ Listing'
    BY <2>1 DEF Listing
  <2>3. Running' => Running /\ \A c : Known(c)' = Known(c)
    BY <2>1 DEF Running, Known
  <2>4. \A j \in DOMAIN ice_list : ~(j >= next)
    BY <2>1 DEF TypeOK
  <2>5. Candidates'
    BY <2>1, <2>2, <2>3, <2>4 DEF CommandLineInv, Candidates, Ices
  <2> QED BY <2>1, <2>5 DEF CommandLineInv, ListedOnce, LostInTheGap, Ices
<1>4. CASE ClearIce
  <2>1. /\ pc = "clear" /\ pc' = "read" /\ ice_list' = <<>>
        /\ UNCHANGED <<next, listed, gathered, peer_connection, local, to_gather, fate, closed>>
    BY <1>4 DEF ClearIce
  <2>2. Listing /\ DOMAIN ice_list' = {} /\ Ices(ice_list)' = {}
    BY <2>1 DEF Listing, Ices
  <2>3. Running' => Running /\ \A c : Known(c)' = Known(c)
    BY <2>1 DEF Running, Known
  <2>4. Candidates'
    BY <2>1, <2>2, <2>3 DEF CommandLineInv, Candidates, Ices, Listing
  <2>5. LostInTheGap'
    <3>1. SUFFICES ASSUME NEW g \in gathered, g.at # "clear"
                   PROVE  g.ice \in Ices(listed)
      BY <2>1 DEF LostInTheGap, Ices
    <3>2. CASE g.ice \in Ices(ice_list)
      <4>1. PICK j \in DOMAIN ice_list : g.ice = ice_list[j]
        BY <3>2 DEF Ices
      <4>2. j \in Nat /\ next \in Nat
        BY DEF TypeOK
      <4>3. ~(j >= next)
        BY <2>1, <3>1, <4>1 DEF CommandLineInv, Candidates
      <4>4. j < next
        BY <4>2, <4>3
      <4> QED BY <2>2, <4>1, <4>4 DEF CommandLineInv, Candidates
    <3> QED BY <3>1, <3>2 DEF CommandLineInv, LostInTheGap
  <2> QED BY <2>1, <2>4, <2>5 DEF CommandLineInv, ListedOnce
<1>5. CASE OnIceCandidate /\ pc # "destroy"
  <2>0. PICK ice : ice = <<peer_connection, to_gather>>
    OBVIOUS
  <2>1. /\ to_gather > 0 /\ to_gather' = to_gather - 1
        /\ ice_list' = Append(ice_list, ice)
        /\ gathered' = gathered \cup {[ice |-> ice, at |-> pc]}
        /\ UNCHANGED <<pc, next, listed, peer_connection, local, fate, closed>>
    BY <1>5, <2>0 DEF OnIceCandidate
  <2>2. Running /\ Running' /\ ice \in Nat \X Nat /\ ~Known(ice) /\ Known(ice)'
    <3>1. Running /\ Running' /\ local # "none"
      BY <1>5, <2>1 DEF OnIceCandidate, Running, CommandLineInv, Requests
    <3>2. peer_connection \in Nat /\ to_gather \in Nat
      BY DEF TypeOK
    <3> QED BY <2>0, <2>1, <3>1, <3>2 DEF Known
  <2>3. \A c \in Nat \X Nat : Known(c) => Known(c)'
    <3>1. to_gather \in Nat
      BY DEF TypeOK
    <3> QED BY <2>1, <3>1 DEF Known
  <2>4. /\ DOMAIN ice_list' = 1..Len(ice_list) + 1 /\ DOMAIN ice_list = 1..Len(ice_list)
        /\ Len(ice_list) \in Nat
        /\ \A i \in DOMAIN ice_list : ice_list'[i] = ice_list[i]
        /\ ice_list'[Len(ice_list) + 1] = ice
    <3>1. ice_list \in Seq(Nat \X Nat)
      BY DEF TypeOK
    <3> QED BY <2>1, <3>1, Appends
  <2>5. /\ \A i \in DOMAIN ice_list' : i \in DOMAIN ice_list \/ i = Len(ice_list) + 1
        /\ \A i \in DOMAIN ice_list : i \in DOMAIN ice_list'
        /\ Len(ice_list) + 1 \in DOMAIN ice_list'
    BY <2>4
  <2>6. Ices(ice_list)' = Ices(ice_list) \cup {ice} /\ Ices(listed)' = Ices(listed)
    BY <2>1, <2>4, <2>5 DEF Ices
  <2>7. /\ ice \notin Ices(ice_list) /\ ice \notin Ices(listed)
        /\ \A g \in gathered : g.ice # ice
    BY <2>2 DEF CommandLineInv, Candidates
  <2>8. /\ \A i \in DOMAIN ice_list : ice_list[i] # ice
        /\ \A i \in DOMAIN listed : listed[i] # ice
    BY <2>7 DEF Ices
  <2>9. /\ \A c \in Ices(listed)' \cup Ices(ice_list)' : Known(c)'
        /\ \A g \in gathered' : Known(g.ice)'
    <3>1. \A c \in Ices(listed) \cup Ices(ice_list) : c \in Nat \X Nat
      BY DEF TypeOK, Ices
    <3>2. \A g \in gathered : g.ice \in Nat \X Nat
      BY DEF TypeOK
    <3>3. \A g \in gathered' : g \in gathered \/ g.ice = ice
      BY <2>1
    <3> QED BY <2>2, <2>3, <2>6, <3>1, <3>2, <3>3 DEF CommandLineInv, Candidates
  <2>10. \A i, j \in DOMAIN ice_list' : ice_list'[i] = ice_list'[j] => i = j
    BY <2>4, <2>5, <2>8 DEF CommandLineInv, Candidates
  <2>11. \A i \in DOMAIN listed', j \in DOMAIN ice_list' :
             listed'[i] = ice_list'[j] => Listing' /\ j < next'
    BY <2>1, <2>4, <2>5, <2>8 DEF CommandLineInv, Candidates, Listing
  <2>12. ASSUME Listing', NEW j \in DOMAIN ice_list', j < next'
         PROVE  ice_list'[j] \in Ices(listed)'
    <3>1. Listing /\ j < next
      BY <2>1, <2>12 DEF Listing
    <3>2. CASE j \in DOMAIN ice_list
      BY <2>4, <2>6, <3>1, <3>2 DEF CommandLineInv, Candidates
    <3>3. CASE j = Len(ice_list) + 1
      <4>1. next <= Len(ice_list) + 1 /\ next \in Nat
        BY <3>1 DEF CommandLineInv, Candidates, TypeOK
      <4> QED BY <2>4, <3>1, <3>3, <4>1
    <3> QED BY <2>5, <3>2, <3>3
  <2>13. ASSUME pc' = "clear", NEW j \in DOMAIN ice_list', NEW g \in gathered', j >= next',
                g.ice = ice_list'[j]
         PROVE  g.at = "clear"
    <3>1. CASE g \in gathered
      <4>1. j \in DOMAIN ice_list
        BY <2>4, <2>5, <2>7, <2>13, <3>1
      <4> QED BY <2>1, <2>4, <2>13, <3>1, <4>1 DEF CommandLineInv, Candidates
    <3>2. CASE g = [ice |-> ice, at |-> pc]
      BY <2>1, <2>13, <3>2
    <3> QED BY <2>1, <3>1, <3>2
  <2>14. Candidates'
    <3>1. Listing' => next' <= Len(ice_list)' + 1
      <4>1. Len(ice_list') = Len(ice_list) + 1 /\ next \in Nat
        BY <2>1, <2>2 DEF TypeOK
      <4> QED BY <2>1, <2>4, <4>1 DEF CommandLineInv, Candidates, Listing
    <3> QED BY <2>1, <2>9, <2>10, <2>11, <2>12, <2>13, <3>1 DEF CommandLineInv, Candidates
  <2>15. LostInTheGap'
    BY <2>1, <2>6 DEF CommandLineInv, LostInTheGap
  <2> QED BY <2>1, <2>14, <2>15 DEF CommandLineInv, ListedOnce
<1>6. CASE \/ Sdp1 \/ TakeParameter \/ EndOfInput \/ Line \/ Sdp2 \/ Sdp3 \/ Ice2 \/ Send
          \/ NewChannel \/ AskOffer \/ SetOffer \/ AskAnswer \/ OnFailure \/ OnDataChannel
          \/ Release \/ Return \/ Destroy \/ TooLate
  <2>1. UNCHANGED ices /\ (pc' = pc \/ (~Listing /\ ~Listing'))
    BY <1>6 DEF Listing, Sdp1, TakeParameter, EndOfInput, Line, Sdp2, Sdp3, Ice2, Send,
       NewChannel, AskOffer, SetOffer, AskAnswer, OnFailure, OnDataChannel, Release, Return,
       Destroy
  <2>2. Running' => Running
    BY <1>6 DEF Running, Sdp1, TakeParameter, EndOfInput, Line, Sdp2, Sdp3, Ice2, Send,
       NewChannel, AskOffer, SetOffer, AskAnswer, OnFailure, OnDataChannel, Release, Return,
       Destroy
  <2>3. Running' => UNCHANGED <<peer_connection, local, to_gather>>
    <3>1. Release => ~Running'
      BY DEF Release, Running, CommandLineInv, Connections
    <3> QED BY <1>6, <3>1 DEF Sdp1, TakeParameter, EndOfInput, Line, Sdp2, Sdp3, Ice2, Send,
       NewChannel, AskOffer, SetOffer, AskAnswer, OnFailure, OnDataChannel, Return, Destroy
  <2> QED BY <2>1, <2>2, <2>3, ListsLeftAlone DEF Known
<1>7. CASE Quit
  <2>1. UNCHANGED ices /\ ~Listing /\ ~Listing' /\ ~Running'
    BY <1>7 DEF Quit, Running, Listing
  <2> QED BY <2>1, ListsLeftAlone
<1>8. CASE NewConnection
  <2>1. UNCHANGED <<ices, closed>> /\ ~Listing /\ ~Listing' /\ fate = "alive"
    BY <1>8 DEF NewConnection, Listing
  <2>2. ASSUME Running'
        PROVE  /\ Running
               /\ \A c \in Nat \X Nat : Known(c) => Known(c)'
    <3>1. Running /\ peer_connection' = asked
      BY <1>8, <2>1, <2>2 DEF Running, NewConnection
    <3>2. peer_connection = asked - 1
      BY <1>8, <3>1 DEF CommandLineInv, Connections, Replacing, NewConnection
    <3>3. asked \in Nat
      BY DEF TypeOK
    <3> QED BY <3>1, <3>2, <3>3 DEF Known
  <2> QED BY <2>1, <2>2, ListsLeftAlone
<1>9. CASE OnSuccess /\ ~TooLate
  <2>1. /\ UNCHANGED <<ices, pc, closed, peer_connection>> /\ fate = "alive"
        /\ local # "none" => (local' # "none" /\ to_gather' = to_gather) \/ fate' = "null"
    <3>1. Head(creating).type # "none"
      <4>1. creating \in Seq([type : SdpTypes, of : Nat]) /\ creating # <<>>
        BY <1>9 DEF OnSuccess, TypeOK
      <4>2. Head(creating) \in [type : SdpTypes, of : Nat]
        BY <4>1, Tails, Zenon
      <4> QED BY <4>2 DEF SdpTypes
    <3> QED BY <1>9, <3>1 DEF OnSuccess
  <2>2. Running' => /\ Running
                    /\ \A c \in Nat \X Nat : Known(c) => Known(c)'
    BY <2>1 DEF Running, Known
  <2> QED BY <2>1, <2>2, ListsLeftAlone
<1>10. CASE OnIceCandidate /\ pc = "destroy"
  <2>1. TooLate
    BY <1>10 DEF OnIceCandidate
  <2> QED BY <1>6, <2>1
<1>11. CASE UNCHANGED vars \/ Over
  BY <1>11, ListsLeftAlone DEF Over, vars, Running, Known
<1> QED BY <1>1, <1>2, <1>3, <1>4, <1>5, <1>6, <1>7, <1>8, <1>9, <1>10, <1>11
     DEF Next, Main, Observers
\* The invariant holds when the program starts.
LEMMA CommandLineStarts ==
  ASSUME Init
  PROVE  CommandLineInv
<1> USE CommandLineAssumption DEF Init
<1>1. TypeOK
  BY EmptySequence DEF TypeOK, Statements, SdpTypes, Descriptions
<1>2. Connections /\ Channels
  BY DEF Connections, Channels, Running, Replacing, Making
<1>3. Requests
  BY DEF Requests, Running, Making
<1>4. Candidates /\ ListedOnce /\ LostInTheGap
  BY DEF Candidates, ListedOnce, LostInTheGap, Listing, Running, Ices
<1>5. NullOnlyBeforeStart /\ QuitIsClean /\ HeadingTellsType
  BY DEF NullOnlyBeforeStart, QuitIsClean, HeadingTellsType
<1> QED BY <1>1, <1>2, <1>3, <1>4, <1>5 DEF CommandLineInv

\* Every state has its types and satisfies the invariant: the current connection, the
\* one request for a description, the channel and the list of candidates agree.
THEOREM CommandLineInvariant == Spec => []CommandLineInv
<1>1. CommandLineInv /\ [Next]_vars => CommandLineInv'
  BY CommandLineTypes, ConnectionsKept, ChannelsKept, RequestsKept, NullKept, QuitKept,
     HeadingKept, CandidatesKept DEF CommandLineInv
<1> QED BY <1>1, CommandLineStarts, PTL DEF Spec

\* ice1 prints no candidate twice: what the loop printed is cleared, and what comes
\* between the commands, or while the loop runs, is a new candidate.
THEOREM ListedOnceHolds == Spec => []ListedOnce
<1>1. CommandLineInv => ListedOnce
  BY DEF CommandLineInv
<1> QED BY <1>1, CommandLineInvariant, PTL

\* The one window in which ice1 loses a candidate is from the end of its loop to clear.
THEOREM LostOnlyInTheGap == Spec => []LostInTheGap
<1>1. CommandLineInv => LostInTheGap
  BY DEF CommandLineInv
<1> QED BY <1>1, CommandLineInvariant, PTL

\* Once a connection was asked for, only a send without a channel, or create_offer_sdp
\* without a connection, dereferences a null pointer; quit leaves none to an observer.
THEOREM NullOnlyBefore == Spec => []NullOnlyBeforeStart
<1>1. CommandLineInv => NullOnlyBeforeStart
  BY DEF CommandLineInv
<1> QED BY <1>1, CommandLineInvariant, PTL

\* Nothing is used after it is destroyed if main ends with quit.
THEOREM QuitEndsCleanly == Spec => []QuitIsClean
<1>1. CommandLineInv => QuitIsClean
  BY DEF CommandLineInv
<1> QED BY <1>1, CommandLineInvariant, PTL

\* A wrong heading is that of a description overtaken by a later sdp1 or sdp2.
THEOREM HeadingIsRight == Spec => []HeadingTellsType
<1>1. CommandLineInv => HeadingTellsType
  BY DEF CommandLineInv
<1> QED BY <1>1, CommandLineInvariant, PTL

\* send uses the channel of the current connection unless that one answers an offer.
THEOREM ChannelIsOfConnection == Spec => []ChannelIsCurrent
<1>1. CommandLineInv => ChannelIsCurrent
  BY DEF TypeOK, CommandLineInv, Channels, ChannelIsCurrent, At
<1> QED BY <1>1, CommandLineInvariant, PTL
=============================================================================
