-------------------------- MODULE C6Station_proofs --------------------------
(***************************************************************************)
(* Proofs about C6Station, for every number of losses, injected frames and  *)
(* commands.                                                                *)
(*                                                                          *)
(* One inductive invariant: the types with the shape of a call in progress, *)
(* the pairing of kicks and completions, and the receive descriptor between *)
(* the accesses of c6_mac_rx_copy.  A second one, relative to it, follows   *)
(* the key to show which errors can end a run; a third one follows the      *)
(* answer that an undisturbed exchange waits for.                           *)
(***************************************************************************)
EXTENDS C6Station, SequenceTheorems, TLAPS

-----------------------------------------------------------------------------
(* Types *)

\* A call of the driver has a frame to send, and returns into the main loop.
CallShape ==
    /\ at \in {"kick", "wait", "release"} => sends # << >>
    /\ return \in {"poll", "station", "wpa2", "uart"}

Shape == C6StationTypeOK /\ CallShape

LEMMA RepliesTypes == \A request \in Request : Replies(request) \in Seq(Received)
<1> SUFFICES ASSUME NEW request \in Request PROVE Replies(request) \in Seq(Received)
    OBVIOUS
<1>1. CASE request.to = "nobody"
  <2>1. request.kind = "tagged"
      BY <1>1 DEF Request, AccessPoint
  <2> QED BY <2>1 DEF Replies, Group
<1>2. CASE request.to \in AccessPoint
  <2>1. request.kind \in RequestKind
      BY <1>2 DEF Request, AccessPoint
  <2>2. \A kind \in {"ack", "probe", "auth", "assoc", "m1", "m3", "pong"} :
            Answer(request.to, kind) \in Received
      BY <1>2 DEF Answer, Received, AccessPoint
  <2> HIDE DEF Answer
  <2>3. CASE request.kind = "probe"
      BY <2>2, <2>3 DEF Replies, Group
  <2>4. CASE request.kind = "auth"
      BY <2>2, <2>4 DEF Replies, Group
  <2>5. CASE request.kind = "assoc"
      BY <1>2, <2>2, <2>5 DEF Replies, Group, AccessPoint
  <2>6. CASE request.kind \in {"ping", "m2", "m4"}
      BY <2>2, <2>6 DEF Replies, Group
  <2> QED BY <2>1, <2>3, <2>4, <2>5, <2>6 DEF RequestKind
<1> QED BY <1>1, <1>2 DEF Request

LEMMA ResetMacTypes == ResetMac \in Mac
    BY DEF ResetMac, Mac

\* The frames of the exchange.
LEMMA RequestTypes ==
    /\ \A ap \in AccessPoint, kind \in RequestKind : To(ap, kind) \in Request
    /\ To("nobody", "tagged") \in Request
    BY DEF To, Request, AccessPoint

LEMMA TailNonEmpty == \A S : \A s \in Seq(S) : Len(s) > 1 => Tail(s) # << >>
<1> SUFFICES ASSUME NEW S, NEW s \in Seq(S), Len(s) > 1 PROVE Tail(s) # << >>
    OBVIOUS
<1>1. Len(s) \in Nat /\ Len(s) # 0
    BY LenProperties
<1>2. s # << >>
    BY <1>1, EmptySeq
<1>3. Len(Tail(s)) = Len(s) - 1
    BY <1>2, HeadTailProperties
<1>4. Len(Tail(s)) # 0
    BY <1>1, <1>3
<1> QED BY <1>4, EmptySeq

LEMMA OneFrame == \A request \in Request : <<request>> \in Seq(Request) /\ <<request>> # << >>
    OBVIOUS

LEMMA ShapeInit == StationInit => Shape
<1> SUFFICES ASSUME StationInit PROVE Shape
    OBVIOUS
<1>1. sends \in Seq(Request) /\ sends # << >>
    BY RequestTypes, OneFrame DEF StationInit, AccessPoint, RequestKind
<1>2. mac \in Mac
    BY ResetMacTypes DEF StationInit, MacInit, Mac
<1>3. MacTypes
  <2>1. /\ descriptor \in [state : {"armed", "filled"}, frame : Received \cup {None}]
        /\ pendingTx \in Request \cup {None} /\ air \in Seq(Received)
      BY DEF StationInit, MacInit
  <2>2. losses \in 0..MaxLosses /\ foreign \in 0..MaxForeign /\ unread \in Nat
      BY MacBoundsAssumption DEF StationInit, MacInit
  <2>3. /\ ownAck \in BOOLEAN /\ frontend \in BOOLEAN
        /\ fault \in {"none", "queue", "completion", "key"}
        /\ interference \in SUBSET {"lost", "missed", "dropped", "denied", "long", "host"}
      BY DEF StationInit, MacInit
  <2> QED BY <1>2, <2>1, <2>2, <2>3 DEF MacTypes
<1>4. CallShape
    BY <1>1 DEF StationInit, CallShape
<1>5. C6StationTypeOK
  <2>1. commands \in 0..MaxCommands
      BY MaxCommandsAssumption DEF StationInit
  <2> QED BY <1>1, <1>3, <2>1 DEF StationInit, C6StationTypeOK, Label, StationState, Wpa2State
<1> QED BY <1>4, <1>5 DEF Shape

LEMMA CompletedTypes ==
    \A m \in Mac : \A outcome \in {"success", "ack_timeout", "error"} : Completed(m, outcome) \in Mac
    BY DEF Completed, Mac

LEMMA AirTypes ==
    ASSUME air \in Seq(Received)
    PROVE  /\ air # << >> => Head(air) \in Received /\ Tail(air) \in Seq(Received)
           /\ \A frame \in Received : Append(air, frame) \in Seq(Received)
           /\ \A request \in Request : air \o Replies(request) \in Seq(Received)
<1>1. \A request \in Request : air \o Replies(request) \in Seq(Received)
    BY RepliesTypes, ConcatProperties
<1> QED BY <1>1

LEMMA KickTypes ==
    ASSUME MacTypes, NEW request \in Request, Kick(request)
    PROVE  MacTypes'
<1>1. mac \in Mac /\ air \in Seq(Received) /\ pendingTx \in Request \cup {None}
    BY DEF MacTypes
<1>2. UNCHANGED <<descriptor, ownAck, frontend, losses, foreign, unread>>
    BY DEF Kick
<1>3. \/ Refused("queue") \/ Refused("key") \/ KickDenied \/ KickGranted(request)
    BY DEF Kick
<1>4. CASE Refused("queue") \/ Refused("key")
    BY <1>2, <1>4 DEF Refused, MacTypes
<1>5. CASE KickDenied
  <2>1. mac' \in Mac
      BY <1>1, <1>5, CompletedTypes DEF KickDenied
  <2> QED BY <1>2, <1>5, <2>1 DEF KickDenied, MacTypes
<1>6. CASE KickGranted(request)
  <2>1. mac' \in Mac
      BY <1>1, <1>6 DEF KickGranted, Mac
  <2>2. air' \in Seq(Received)
      BY <1>1, <1>6, AirTypes DEF KickGranted
  <2> QED BY <1>2, <1>6, <2>1, <2>2 DEF KickGranted, MacTypes
<1> QED BY <1>3, <1>4, <1>5, <1>6

LEMMA WriteRxTypes ==
    ASSUME MacTypes, NEW frame \in Received, WriteRx(frame) \/ DropRx(frame)
    PROVE  /\ mac' \in Mac
           /\ descriptor' \in [state : {"armed", "filled"}, frame : Received \cup {None}]
           /\ unread' \in Nat
           /\ interference' \in SUBSET {"lost", "missed", "dropped", "denied", "long", "host"}
<1>1. CASE WriteRx(frame)
  <2>1. mac' \in Mac
      BY <1>1 DEF WriteRx, MacTypes, Mac
  <2> QED BY <1>1, <2>1 DEF WriteRx, MacTypes
<1>2. CASE DropRx(frame)
    BY <1>2 DEF DropRx, MacTypes
<1> QED BY <1>1, <1>2

LEMMA MachineTypes ==
    ASSUME MacTypes, MachineStep \/ PeerStep
    PROVE  MacTypes'
<1>1. mac \in Mac /\ air \in Seq(Received) /\ pendingTx \in Request \cup {None}
    BY DEF MacTypes
<1>2. CASE Deadline
  <2>1. mac' \in Mac
      BY <1>1, <1>2, CompletedTypes DEF Deadline, DeadlineOutcome
  <2> QED BY <1>2, <2>1 DEF Deadline, MacTypes
<1>3. CASE OwnAckEnds
    BY <1>3 DEF OwnAckEnds, MacTypes
<1>4. CASE Miss
    BY <1>1, <1>4, AirTypes DEF Miss, MacTypes
<1>5. CASE Lose
  <2>1. losses' \in 0..MaxLosses
      BY <1>5, MacBoundsAssumption DEF Lose, MacTypes
  <2>2. air' \in Seq(Received)
      BY <1>1, <1>5, AirTypes DEF Lose
  <2> QED BY <1>5, <2>1, <2>2 DEF Lose, MacTypes
<1>6. ASSUME NEW frame \in Injected, Foreign(frame) PROVE MacTypes'
  <2>1. foreign' \in 0..MaxForeign
      BY <1>6, MacBoundsAssumption DEF Foreign, MacTypes
  <2>2. air' \in Seq(Received)
      BY <1>1, <1>6, AirTypes, InjectedAssumption DEF Foreign
  <2> QED BY <1>6, <2>1, <2>2 DEF Foreign, MacTypes
<1>7. CASE Arrive
  <2>1. Head(air) \in Received /\ air' \in Seq(Received)
      BY <1>1, <1>7, AirTypes DEF Arrive
  <2>2. UNCHANGED <<frontend, losses, foreign>>
      BY <1>7 DEF Arrive
  <2>3. CASE ArriveAck
    <3>1. mac' \in Mac
        BY <1>1, <2>3, CompletedTypes DEF ArriveAck
    <3> QED BY <2>1, <2>2, <2>3, <3>1 DEF ArriveAck, MacTypes
  <2>4. CASE ArriveUnkeyed
      BY <2>1, <2>2, <2>4 DEF ArriveUnkeyed, MacTypes
  <2>5. CASE ArriveFrame
    <3>1. WriteRx(Head(air)) \/ DropRx(Head(air))
        BY <2>5 DEF ArriveFrame
    <3>2. ownAck' \in BOOLEAN /\ UNCHANGED <<pendingTx, fault>>
        BY <2>5 DEF ArriveFrame
    <3> QED BY <2>1, <2>2, <3>1, <3>2, WriteRxTypes DEF MacTypes
  <2> QED BY <1>7, <2>3, <2>4, <2>5 DEF Arrive
<1> QED BY <1>2, <1>3, <1>4, <1>5, <1>6, <1>7 DEF MachineStep, PeerStep

\* What the firmware keeps, apart from where it is and what it sends.
LEMMA MacStutter == MacTypes /\ UNCHANGED mac_vars => MacTypes'
    BY DEF MacTypes, mac_vars

LEMMA SendTypes ==
    ASSUME NEW frames \in Seq(Request), frames # << >>, NEW label \in {"poll", "wpa2", "uart"},
           Send(frames, label)
    PROVE  at' \in Label /\ sends' \in Seq(Request) /\ return' \in Label /\ CallShape'
    BY DEF Send, Label, CallShape

LEMMA ShapeFirmware ==
    ASSUME Shape, unread >= 1 \/ ~PollCopies, FirmwareStep
    PROVE  Shape'
<1> USE DEF Shape
<1>0. /\ MacTypes /\ mac \in Mac /\ at \in Label /\ sends \in Seq(Request) /\ CallShape
      /\ return \in Label
    BY DEF C6StationTypeOK, MacTypes
<1>1. CASE NotReady
  <2>1. MacTypes'
      BY <1>0, <1>1, MacStutter DEF NotReady
  <2> QED BY <1>0, <1>1, <2>1 DEF NotReady, C6StationTypeOK, CallShape
<1>2. CASE TxKick
  <2>1. Head(sends) \in Request
      BY <1>0, <1>2 DEF TxKick, CallShape
  <2>2. MacTypes'
      BY <1>0, <1>2, <2>1, KickTypes DEF TxKick
  <2> QED BY <1>0, <1>2, <2>2 DEF TxKick, C6StationTypeOK, CallShape, Label
<1>3. CASE TxWait
  <2>1. MacTypes'
      BY <1>0, <1>3 DEF TxWait, MacTypes, Mac
  <2> QED BY <1>0, <1>3, <2>1 DEF TxWait, C6StationTypeOK, CallShape, Label
<1>4. CASE TxRelease
  <2>1. MacTypes'
      BY <1>0, <1>4 DEF TxRelease, MacTypes, Mac
  <2>2. sends # << >> /\ Tail(sends) \in Seq(Request)
      BY <1>0, <1>4 DEF TxRelease, CallShape
  <2>3. Len(sends) > 1 => Tail(sends) # << >>
      BY <1>0, TailNonEmpty
  <2>4. CallShape'
      BY <1>0, <1>4, <2>2, <2>3 DEF TxRelease, CallShape
  <2>5. at' \in Label /\ wpa2' \in Wpa2State
      BY <1>0, <1>4 DEF TxRelease, Label, Wpa2State, C6StationTypeOK
  <2> QED BY <1>0, <1>4, <2>1, <2>2, <2>4, <2>5 DEF TxRelease, C6StationTypeOK
<1>5. CASE PollNothing \/ PollRejects
  <2>1. MacTypes'
      BY <1>0, <1>5, MacStutter DEF PollNothing, PollRejects
  <2> QED BY <1>0, <1>5, <2>1 DEF PollNothing, PollRejects, C6StationTypeOK, CallShape, Label
<1>6. CASE PollCopies
  <2>1. unread' \in Nat
      BY <1>0, <1>6 DEF PollCopies, MacTypes
  <2>2. MacTypes' /\ received' \in Received \cup {None}
      BY <1>0, <1>6, <2>1 DEF PollCopies, MacTypes
  <2> QED BY <1>0, <1>6, <2>2 DEF PollCopies, C6StationTypeOK, CallShape, Label
<1>7. CASE ClearRxDone
  <2>1. MacTypes'
      BY <1>0, <1>7 DEF ClearRxDone, MacTypes, Mac
  <2> QED BY <1>0, <1>7, <2>1 DEF ClearRxDone, C6StationTypeOK, CallShape, Label
<1>8. CASE RxArm
  <2>1. MacTypes'
      BY <1>0, <1>8 DEF RxArm, MacTypes
  <2> QED BY <1>0, <1>8, <2>1 DEF RxArm, C6StationTypeOK, CallShape, Label
<1>9. CASE RxBase
  <2>1. MacTypes'
      BY <1>0, <1>9 DEF RxBase, RxBaseWritten, MacTypes, Mac
  <2> QED BY <1>0, <1>9, <2>1 DEF RxBase, C6StationTypeOK, CallShape, Label
<1>10. CASE StationAdvances
  <2>1. MacTypes'
      BY <1>0, <1>10, MacStutter DEF StationAdvances
  <2>2. StationRow[station].send \in RequestKind /\ station' \in StationState
      BY <1>10 DEF StationAdvances, StationRow, RequestKind, StationState
  <2>3. at' \in Label /\ sends' \in Seq(Request) /\ return' \in Label /\ CallShape'
    <3>1. To("open", StationRow[station].send) \in Request
        BY <2>2, RequestTypes DEF AccessPoint
    <3> QED BY <1>10, <3>1, OneFrame, SendTypes DEF StationAdvances
  <2> QED BY <1>0, <1>10, <2>1, <2>2, <2>3 DEF StationAdvances, C6StationTypeOK
<1>11. CASE StationReached
  <2>1. MacTypes' /\ reached' \in SUBSET {"L2", "CCMP"}
      BY <1>0, <1>11 DEF StationReached, MacTypes, Mac, C6StationTypeOK
  <2>2. CASE started
      BY <1>0, <1>11, <2>1, <2>2 DEF StationReached, C6StationTypeOK, CallShape, Label
  <2>3. CASE ~started
    <3>1. at' \in Label /\ sends' \in Seq(Request) /\ return' \in Label /\ CallShape'
      <4>1. To("wpa2", "probe") \in Request
          BY RequestTypes DEF AccessPoint, RequestKind
      <4>2. Send(<<To("wpa2", "probe")>>, "wpa2")
          BY <1>11, <2>3 DEF StationReached
      <4> QED BY <4>1, <4>2, OneFrame, SendTypes
    <3>2. wpa2' \in Wpa2State /\ started' \in BOOLEAN
        BY <1>11, <2>3 DEF StationReached, Wpa2State
    <3> QED BY <1>0, <1>11, <2>1, <3>1, <3>2 DEF StationReached, C6StationTypeOK
  <2> QED BY <2>2, <2>3
<1>12. CASE StationIgnores \/ Wpa2Ignores \/ NoCommand
  <2>1. MacTypes'
      BY <1>0, <1>12, MacStutter DEF StationIgnores, Wpa2Ignores, NoCommand
  <2> QED BY <1>0, <1>12, <2>1
          DEF StationIgnores, Wpa2Ignores, NoCommand, C6StationTypeOK, CallShape, Label
<1>13. CASE Wpa2Advances
  <2>1. MacTypes'
      BY <1>0, <1>13, MacStutter DEF Wpa2Advances
  <2>2. wpa2' \in Wpa2State
      BY <1>13 DEF Wpa2Advances, Wpa2Row, Wpa2State
  <2>3. wpa2 \in {"SCANNING", "AUTHENTICATING", "ASSOCIATING", "WAIT_M1"}
      BY <1>13 DEF Wpa2Advances, Wpa2Row
  <2>4. CASE Wpa2Row[wpa2].send = << >>
      BY <1>0, <1>13, <2>1, <2>2, <2>4 DEF Wpa2Advances, C6StationTypeOK, CallShape, Label
  <2>5. CASE Wpa2Row[wpa2].send # << >>
    <3>1. Wpa2Row[wpa2].send \in Seq(Request)
      <4>1. /\ <<To("wpa2", "auth")>> \in Seq(Request) /\ <<To("wpa2", "assoc")>> \in Seq(Request)
            /\ <<To("wpa2", "m2")>> \in Seq(Request)
          BY RequestTypes, OneFrame DEF AccessPoint, RequestKind
      <4>2. /\ wpa2 = "SCANNING" => Wpa2Row[wpa2].send = <<To("wpa2", "auth")>>
            /\ wpa2 = "AUTHENTICATING" => Wpa2Row[wpa2].send = <<To("wpa2", "assoc")>>
            /\ wpa2 = "ASSOCIATING" => Wpa2Row[wpa2].send = << >>
            /\ wpa2 = "WAIT_M1" => Wpa2Row[wpa2].send = <<To("wpa2", "m2")>>
          BY DEF Wpa2Row
      <4> QED BY <2>3, <2>5, <4>1, <4>2
    <3>2. at' \in Label /\ sends' \in Seq(Request) /\ return' \in Label /\ CallShape'
        BY <1>13, <2>5, <3>1, SendTypes DEF Wpa2Advances
    <3> QED BY <1>0, <1>13, <2>1, <2>2, <3>2 DEF Wpa2Advances, C6StationTypeOK
  <2> QED BY <2>4, <2>5
<1>14. CASE Wpa2Keys
  <2>1. MacTypes'
      BY <1>0, <1>14 DEF Wpa2Keys, Installed, MacTypes, Mac
  <2>2. at' \in Label /\ sends' \in Seq(Request) /\ return' \in Label /\ CallShape'
    <3>1. To("wpa2", "m4") \in Request /\ To("wpa2", "ping") \in Request
        BY RequestTypes DEF AccessPoint, RequestKind
    <3>2. \A a, b \in Request : <<a, b>> \in Seq(Request) /\ <<a, b>> # << >>
        OBVIOUS
    <3> QED BY <1>14, <3>1, <3>2, SendTypes DEF Wpa2Keys
  <2> QED BY <1>0, <1>14, <2>1, <2>2 DEF Wpa2Keys, C6StationTypeOK
<1>15. CASE Wpa2Reached
  <2>1. MacTypes'
      BY <1>0, <1>15, MacStutter DEF Wpa2Reached
  <2> QED BY <1>0, <1>15, <2>1 DEF Wpa2Reached, C6StationTypeOK, CallShape, Label
<1> QED BY <1>1, <1>2, <1>3, <1>4, <1>5, <1>6, <1>7, <1>8, <1>9, <1>10, <1>11, <1>12, <1>13, <1>14,
           <1>15 DEF FirmwareStep

LEMMA ShapeCommand ==
    ASSUME Shape, HostStep PROVE Shape'
<1> USE DEF Shape
<1>0. /\ MacTypes /\ mac \in Mac /\ at \in Label /\ sends \in Seq(Request) /\ CallShape
      /\ return \in Label /\ Command /\ air \in Seq(Received) /\ << >> \in Seq(Received)
    BY DEF C6StationTypeOK, MacTypes, HostStep
<1>1. /\ UNCHANGED <<losses, foreign, station, wpa2, started, received, reached>>
      /\ commands' \in 0..MaxCommands
      /\ interference' \in SUBSET {"lost", "missed", "dropped", "denied", "long", "host"}
  <2>1. Executing
      BY <1>0 DEF Command, CommandRxStart, CommandRxStop, CommandTx, CommandTune, CommandReset,
                  CommandInit
  <2>2. commands' \in 0..MaxCommands
      BY <2>1, MaxCommandsAssumption DEF Executing, C6StationTypeOK
  <2> QED BY <1>0, <2>1, <2>2 DEF Executing, MacTypes
<1>2. CASE CommandRxStart
    BY <1>0, <1>1, <1>2 DEF CommandRxStart, C6StationTypeOK, MacTypes, CallShape, Label
<1>3. CASE CommandRxStop
  <2>1. mac' \in Mac
      BY <1>0, <1>3 DEF CommandRxStop, Mac
  <2>2. MacTypes'
      BY <1>0, <1>1, <1>3, <2>1 DEF CommandRxStop, MacTypes
  <2>3. at' \in Label /\ CallShape'
      BY <1>0, <1>3 DEF CommandRxStop, CallShape, Label
  <2> QED BY <1>0, <1>1, <1>3, <2>2, <2>3 DEF CommandRxStop, C6StationTypeOK
<1>4. CASE CommandTx
  <2>1. at' \in Label /\ sends' \in Seq(Request) /\ return' \in Label /\ CallShape'
    <3>1. To("nobody", "tagged") \in Request
        BY RequestTypes
    <3> QED BY <1>4, <3>1, OneFrame, SendTypes DEF CommandTx
  <2> QED BY <1>0, <1>1, <1>4, <2>1 DEF CommandTx, C6StationTypeOK, MacTypes
<1>5. CASE CommandTune
  <2>1. air' \in Seq(Received)
      BY <1>0, <1>5 DEF CommandTune, Retuned
  <2> QED BY <1>0, <1>1, <1>5, <2>1 DEF CommandTune, C6StationTypeOK, MacTypes, CallShape, Label
<1>6. CASE CommandReset
  <2>1. mac' \in Mac
      BY <1>6, ResetMacTypes DEF CommandReset, ResetRadio
  <2> QED BY <1>0, <1>1, <1>6, <2>1
          DEF CommandReset, ResetRadio, C6StationTypeOK, MacTypes, CallShape, Label
<1>7. CASE CommandInit
  <2>1. mac' \in Mac
      BY <1>7, ResetMacTypes DEF CommandInit, ResetRadio
  <2>2. air' \in Seq(Received)
      BY <1>0, <1>7 DEF CommandInit, Retuned
  <2> QED BY <1>0, <1>1, <1>7, <2>1, <2>2
          DEF CommandInit, ResetRadio, C6StationTypeOK, MacTypes, CallShape, Label
<1> QED BY <1>0, <1>2, <1>3, <1>4, <1>5, <1>6, <1>7 DEF Command

-----------------------------------------------------------------------------
(* Transmission *)

\* The actions of the firmware that touch neither the transmit side of the MAC
\* nor c6_mac_tx_frame.
Elsewhere ==
    /\ mac'.active = mac.active /\ mac'.txDone = mac.txDone /\ mac'.queueState = mac.queueState
    /\ UNCHANGED <<pendingTx, fault>>
    /\ at \notin {"wait", "release"} /\ at' \notin {"wait", "release"}

LEMMA CompletionElsewhere ==
    ASSUME OneCompletionPerKick, Elsewhere PROVE OneCompletionPerKick'
    BY DEF OneCompletionPerKick, Elsewhere

LEMMA FirmwareElsewhere ==
    ASSUME Shape, FirmwareStep, ~TxKick, ~TxWait, ~TxRelease PROVE Elsewhere
<1>0. mac \in Mac /\ return \in {"poll", "station", "wpa2", "uart"}
    BY DEF Shape, C6StationTypeOK, MacTypes, CallShape
<1>1. CASE NotReady
    BY <1>0, <1>1 DEF NotReady, mac_vars, Elsewhere
<1>2. CASE PollNothing \/ PollRejects \/ PollCopies
    BY <1>2 DEF PollNothing, PollRejects, PollCopies, mac_vars, Elsewhere
<1>3. CASE ClearRxDone \/ RxArm
    BY <1>0, <1>3 DEF ClearRxDone, RxArm, Elsewhere, Mac
<1>4. CASE RxBase
    BY <1>0, <1>4 DEF RxBase, RxBaseWritten, Elsewhere, Mac
<1>5. CASE StationAdvances \/ StationIgnores \/ Wpa2Ignores \/ NoCommand \/ Wpa2Reached
    BY <1>5 DEF StationAdvances, StationIgnores, Wpa2Ignores, NoCommand, Wpa2Reached, Send, mac_vars,
                Elsewhere
<1>6. CASE StationReached
    BY <1>0, <1>6 DEF StationReached, StationPong, Send, Elsewhere, Mac
<1>7. CASE Wpa2Advances
    BY <1>7 DEF Wpa2Advances, Send, mac_vars, Elsewhere
<1>8. CASE Wpa2Keys
    BY <1>0, <1>8 DEF Wpa2Keys, Installed, Send, Elsewhere, Mac
<1> QED BY <1>1, <1>2, <1>3, <1>4, <1>5, <1>6, <1>7, <1>8 DEF FirmwareStep

LEMMA CompletedMac ==
    \A m \in Mac, outcome \in {"success", "ack_timeout", "error"} :
        /\ Completed(m, outcome).active = FALSE /\ Completed(m, outcome).queueState = TRUE
        /\ Completed(m, outcome).txDone = TRUE /\ Completed(m, outcome).rxDone = m.rxDone
        /\ Completed(m, outcome).rxBase = m.rxBase /\ Completed(m, outcome).key = m.key
        /\ Completed(m, outcome).interface = m.interface
    BY DEF Completed, Mac

LEMMA CompletionFirmware ==
    ASSUME Shape, OneCompletionPerKick, FirmwareStep PROVE OneCompletionPerKick'
<1>0. /\ mac \in Mac /\ sends \in Seq(Request) /\ return \in {"poll", "station", "wpa2", "uart"}
      /\ (at \in {"kick", "wait", "release"} => sends # << >>) /\ fault = "none"
    BY DEF Shape, C6StationTypeOK, MacTypes, CallShape, FirmwareStep
<1>1. CASE TxKick
  <2>1. ~mac.active /\ ~mac.txDone /\ ~mac.queueState /\ pendingTx = None
      BY <1>0, <1>1 DEF TxKick, OneCompletionPerKick
  <2>2. Head(sends) \in Request /\ Head(sends) # None
      BY <1>0, <1>1, NoneAssumption DEF TxKick
  <2>3. at' = "wait" /\ sends' = sends
      BY <1>1 DEF TxKick
  <2>4. Refused("key") \/ KickDenied \/ KickGranted(Head(sends))
      BY <1>1, <2>1 DEF TxKick, Kick
  <2>5. CASE Refused("key")
      BY <2>5 DEF Refused, OneCompletionPerKick
  <2>6. CASE KickDenied
      BY <1>0, <2>1, <2>3, <2>6, CompletedMac DEF KickDenied, OneCompletionPerKick
  <2>7. CASE KickGranted(Head(sends))
    <3>1. /\ mac'.active = TRUE /\ mac'.txDone = FALSE /\ pendingTx' = Head(sends)
        BY <1>0, <2>1, <2>7 DEF KickGranted, Mac
    <3> QED BY <2>2, <2>3, <3>1 DEF OneCompletionPerKick
  <2> QED BY <2>4, <2>5, <2>6, <2>7
<1>2. CASE TxWait
    BY <1>0, <1>2 DEF TxWait, OneCompletionPerKick, Mac
<1>3. CASE TxRelease
  <2>1. ~mac.active /\ ~mac.txDone /\ pendingTx = None
      BY <1>0, <1>3 DEF TxRelease, OneCompletionPerKick
  <2>2. at' \notin {"wait", "release"}
      BY <1>0, <1>3 DEF TxRelease
  <2>3. mac'.active = FALSE /\ mac'.txDone = FALSE /\ mac'.queueState = FALSE /\ pendingTx' = None
      BY <1>0, <1>3, <2>1 DEF TxRelease, Mac
  <2> QED BY <2>2, <2>3 DEF OneCompletionPerKick
<1>4. CASE ~TxKick /\ ~TxWait /\ ~TxRelease
    BY <1>4, FirmwareElsewhere, CompletionElsewhere
<1> QED BY <1>1, <1>2, <1>3, <1>4

LEMMA CompletionMachine ==
    ASSUME Shape, OneCompletionPerKick, Machine \/ Peer PROVE OneCompletionPerKick'
<1>0. mac \in Mac /\ UNCHANGED <<at, sends>> /\ pendingTx \in Request \cup {None}
    BY DEF Shape, C6StationTypeOK, MacTypes, Machine, Peer, firmware_vars
<1>1. CASE Deadline
  <2>1. /\ fault = "none" /\ mac.active /\ pendingTx # None /\ at = "wait"
      BY <1>1 DEF Deadline, OneCompletionPerKick
  <2>2. DeadlineOutcome(pendingTx) \in {"success", "ack_timeout", "error"}
      BY DEF DeadlineOutcome
  <2>3. mac' = Completed(mac, DeadlineOutcome(pendingTx)) /\ pendingTx' = None
      BY <1>1, <2>1 DEF Deadline
  <2> QED BY <1>0, <2>1, <2>2, <2>3, CompletedMac DEF OneCompletionPerKick
<1>2. CASE OwnAckEnds \/ Miss \/ Lose
    BY <1>0, <1>2 DEF OwnAckEnds, Miss, Lose, OneCompletionPerKick
<1>3. ASSUME NEW frame \in Injected, Foreign(frame) PROVE OneCompletionPerKick'
    BY <1>0, <1>3 DEF Foreign, OneCompletionPerKick
<1>4. CASE Arrive /\ ArriveAck
  <2>1. /\ fault = "none" /\ mac.active /\ pendingTx # None /\ at = "wait"
      BY <1>4 DEF Arrive, ArriveAck, Acknowledges, OneCompletionPerKick
  <2>2. mac' = Completed(mac, "success") /\ pendingTx' = None
      BY <1>4, <2>1 DEF ArriveAck
  <2> QED BY <1>0, <2>1, <2>2, CompletedMac DEF OneCompletionPerKick
<1>5. CASE Arrive /\ ArriveUnkeyed
    BY <1>5 DEF ArriveUnkeyed, OneCompletionPerKick
<1>6. CASE Arrive /\ ArriveFrame
  <2>1. mac'.active = mac.active /\ mac'.txDone = mac.txDone /\ mac'.queueState = mac.queueState
      BY <1>0, <1>6 DEF ArriveFrame, WriteRx, DropRx, Mac
  <2> QED BY <1>0, <1>6, <2>1 DEF ArriveFrame, OneCompletionPerKick
<1> QED BY <1>1, <1>2, <1>3, <1>4, <1>5, <1>6 DEF Machine, Peer, MachineStep, PeerStep, Arrive

LEMMA CompletionCommand ==
    ASSUME Shape, OneCompletionPerKick, HostStep PROVE OneCompletionPerKick'
<1>0. mac \in Mac /\ at = "uart" /\ fault = "none" /\ Command
    BY DEF Shape, C6StationTypeOK, MacTypes, HostStep, Command, CommandRxStart, CommandRxStop,
           CommandTx, CommandTune, CommandReset, CommandInit, Executing
<1>1. CASE CommandRxStart \/ CommandTx \/ CommandTune
    BY <1>0, <1>1 DEF CommandRxStart, CommandTx, CommandTune, Send, OneCompletionPerKick
<1>2. CASE CommandRxStop
  <2>1. mac'.active = mac.active /\ mac'.txDone = mac.txDone /\ mac'.queueState = mac.queueState
      BY <1>0, <1>2 DEF CommandRxStop, Mac
  <2> QED BY <1>0, <1>2, <2>1 DEF CommandRxStop, OneCompletionPerKick
<1>3. CASE CommandReset \/ CommandInit
  <2>1. /\ mac'.active = FALSE /\ mac'.txDone = FALSE /\ mac'.queueState = FALSE
        /\ pendingTx' = None /\ at' = "poll"
      BY <1>3 DEF CommandReset, CommandInit, ResetRadio, ResetMac
  <2> QED BY <2>1 DEF OneCompletionPerKick
<1> QED BY <1>0, <1>1, <1>2, <1>3 DEF Command

-----------------------------------------------------------------------------
(* Reception *)

\* What c6_mac_rx_copy and c6_mac_rx_start leave between two of their accesses.
RearmShape ==
    /\ at = "clear" => descriptor.state = "filled" /\ mac.rxDone
    /\ at = "arm" => "host" \in interference \/ (descriptor.state = "filled" /\ ~mac.rxDone)
    /\ at = "base" => descriptor.state = "armed" \/ (descriptor.state = "filled" /\ mac.rxDone)

ReceiveInv == CopiedOnce /\ ReceiverAlive /\ RearmShape

\* The accesses of c6_mac_rx_copy and c6_mac_rx_start.
Rearming == PollCopies \/ ClearRxDone \/ RxArm \/ RxBase

\* Steps that leave the receive side of the MAC and the driver alone.
ReceiveIdle ==
    /\ mac'.rxDone = mac.rxDone /\ mac'.rxBase = mac.rxBase
    /\ UNCHANGED <<descriptor, unread, listening>>
    /\ wasReset => wasReset'
    /\ interference \subseteq interference'
    /\ at' = at \/ (at \notin {"clear", "arm", "base"} /\ at' \notin {"clear", "arm", "base"})

LEMMA ReceiveIdleKeeps ==
    ASSUME ReceiveInv, ReceiveIdle PROVE ReceiveInv'
<1>1. CopiedOnce'
    BY DEF ReceiveInv, ReceiveIdle, CopiedOnce
<1>2. ReceiverAlive'
    BY DEF ReceiveInv, ReceiveIdle, ReceiverAlive, ReceiverArmed, Copyable, OversizedBlocks
<1>3. RearmShape'
    BY DEF ReceiveInv, ReceiveIdle, RearmShape
<1> QED BY <1>1, <1>2, <1>3 DEF ReceiveInv

LEMMA FirmwareReceiveIdle ==
    ASSUME Shape, FirmwareStep, ~Rearming PROVE ReceiveIdle
<1>0. mac \in Mac /\ return \in {"poll", "station", "wpa2", "uart"}
    BY DEF Shape, C6StationTypeOK, MacTypes, CallShape
<1>1. CASE NotReady
    BY <1>0, <1>1 DEF NotReady, mac_vars, ReceiveIdle
<1>2. CASE TxKick
  <2>1. mac'.rxDone = mac.rxDone /\ mac'.rxBase = mac.rxBase /\ interference \subseteq interference'
      BY <1>0, <1>2, CompletedMac DEF TxKick, Kick, Refused, KickDenied, KickGranted, Mac
  <2> QED BY <1>2, <2>1 DEF TxKick, Kick, ReceiveIdle
<1>3. CASE TxWait \/ TxRelease
    BY <1>0, <1>3 DEF TxWait, TxRelease, ReceiveIdle, Mac
<1>4. CASE PollNothing \/ PollRejects
    BY <1>4 DEF PollNothing, PollRejects, mac_vars, ReceiveIdle
<1>5. CASE StationAdvances \/ StationIgnores \/ Wpa2Ignores \/ NoCommand \/ Wpa2Reached
    BY <1>5 DEF StationAdvances, StationIgnores, Wpa2Ignores, NoCommand, Wpa2Reached, Send, mac_vars,
                ReceiveIdle
<1>6. CASE StationReached
    BY <1>0, <1>6 DEF StationReached, StationPong, Send, ReceiveIdle, Mac
<1>7. CASE Wpa2Advances
    BY <1>7 DEF Wpa2Advances, Send, mac_vars, ReceiveIdle
<1>8. CASE Wpa2Keys
    BY <1>0, <1>8 DEF Wpa2Keys, Installed, Send, ReceiveIdle, Mac
<1> QED BY <1>1, <1>2, <1>3, <1>4, <1>5, <1>6, <1>7, <1>8 DEF FirmwareStep, Rearming

LEMMA ReceiveRearming ==
    ASSUME Shape, ReceiveInv, Rearming PROVE ReceiveInv'
<1>0. /\ mac \in Mac /\ return \in {"poll", "station", "wpa2", "uart"}
      /\ descriptor \in [state : {"armed", "filled"}, frame : Received \cup {None}]
      /\ unread \in Nat
    BY DEF Shape, C6StationTypeOK, MacTypes, CallShape
<1>1. CASE PollCopies
  <2>1. /\ at = "poll" /\ mac.rxDone /\ descriptor.state = "filled" /\ at' = "clear"
        /\ UNCHANGED <<mac, descriptor, interference, wasReset, listening>> /\ unread' = unread - 1
      BY <1>1 DEF PollCopies, Copyable
  <2>2. unread = 1
      BY <2>1 DEF ReceiveInv, CopiedOnce
  <2>3. unread' = 0
      BY <2>1, <2>2
  <2> QED BY <2>1, <2>3 DEF ReceiveInv, CopiedOnce, ReceiverAlive, ReceiverArmed, Copyable,
                   OversizedBlocks, RearmShape
<1>2. CASE ClearRxDone
  <2>1. /\ at = "clear" /\ mac'.rxDone = FALSE /\ descriptor.state = "filled" /\ at' = "arm"
        /\ UNCHANGED <<descriptor, interference, wasReset, listening, unread>>
      BY <1>0, <1>2 DEF ClearRxDone, ReceiveInv, RearmShape, Mac
  <2>2. unread = 0
      BY <2>1 DEF ReceiveInv, CopiedOnce
  <2> QED BY <2>1, <2>2 DEF ReceiveInv, CopiedOnce, ReceiverAlive, ReceiverArmed, Copyable,
                   OversizedBlocks, RearmShape
<1>3. CASE RxArm
  <2>1. /\ at = "arm" /\ descriptor'.state = "armed" /\ at' = "base" /\ unread' = 0
        /\ UNCHANGED <<mac, interference, wasReset, listening>>
      BY <1>3 DEF RxArm
  <2> QED BY <2>1 DEF ReceiveInv, CopiedOnce, ReceiverAlive, ReceiverArmed, Copyable,
                   OversizedBlocks, RearmShape
<1>4. CASE RxBase
  <2>1. /\ at = "base" /\ mac'.rxBase = TRUE /\ mac'.rxDone = mac.rxDone
        /\ at' \in {"poll", "station", "wpa2", "uart"}
        /\ UNCHANGED <<descriptor, unread, interference, wasReset>>
      BY <1>0, <1>4 DEF RxBase, RxBaseWritten, Mac
  <2>2. descriptor.state = "armed" \/ (descriptor.state = "filled" /\ mac.rxDone)
      BY <2>1 DEF ReceiveInv, RearmShape
  <2> QED BY <2>1, <2>2 DEF ReceiveInv, CopiedOnce, ReceiverAlive, ReceiverArmed, Copyable,
                   OversizedBlocks, RearmShape
<1> QED BY <1>1, <1>2, <1>3, <1>4 DEF Rearming

LEMMA ReceiveMachine ==
    ASSUME Shape, ReceiveInv, Machine \/ Peer PROVE ReceiveInv'
<1>0. /\ mac \in Mac /\ UNCHANGED <<at, wasReset, listening>> /\ unread \in Nat
      /\ descriptor \in [state : {"armed", "filled"}, frame : Received \cup {None}]
    BY DEF Shape, C6StationTypeOK, MacTypes, Machine, Peer, firmware_vars
<1>1. CASE Deadline
  <2>1. mac'.rxDone = mac.rxDone /\ mac'.rxBase = mac.rxBase
      BY <1>0, <1>1, CompletedMac DEF Deadline, DeadlineOutcome
  <2> QED BY <1>0, <1>1, <2>1, ReceiveIdleKeeps DEF Deadline, ReceiveIdle
<1>2. CASE OwnAckEnds \/ Miss \/ Lose
    BY <1>0, <1>2, ReceiveIdleKeeps DEF OwnAckEnds, Miss, Lose, ReceiveIdle
<1>3. ASSUME NEW frame \in Injected, Foreign(frame) PROVE ReceiveInv'
    BY <1>0, <1>3, ReceiveIdleKeeps DEF Foreign, ReceiveIdle
<1>4. CASE ArriveAck
  <2>1. mac'.rxDone = mac.rxDone /\ mac'.rxBase = mac.rxBase
      BY <1>0, <1>4, CompletedMac DEF ArriveAck
  <2> QED BY <1>0, <1>4, <2>1, ReceiveIdleKeeps DEF ArriveAck, ReceiveIdle
<1>5. CASE ArriveUnkeyed
    BY <1>0, <1>5, ReceiveIdleKeeps DEF ArriveUnkeyed, ReceiveIdle
<1>6. CASE ArriveFrame
  <2>1. CASE DropRx(Head(air))
      BY <1>0, <2>1, ReceiveIdleKeeps DEF DropRx, ReceiveIdle
  <2>2. CASE WriteRx(Head(air))
    <3>1. /\ descriptor.state = "armed" /\ descriptor'.state = "filled" /\ mac'.rxDone = TRUE
          /\ unread' = unread + 1 /\ interference \subseteq interference'
        BY <1>0, <2>2 DEF WriteRx, CanWriteRx, Mac
    <3>2. unread = 0 /\ at # "clear" /\ (at = "arm" => "host" \in interference)
        BY <3>1 DEF ReceiveInv, CopiedOnce, RearmShape
    <3>3. unread' = 1
        BY <3>1, <3>2
    <3> QED BY <1>0, <3>1, <3>2, <3>3 DEF ReceiveInv, CopiedOnce, ReceiverAlive, ReceiverArmed, Copyable,
                   OversizedBlocks, RearmShape
  <2> QED BY <1>6, <2>1, <2>2 DEF ArriveFrame
<1> QED BY <1>1, <1>2, <1>3, <1>4, <1>5, <1>6 DEF Machine, Peer, MachineStep, PeerStep, Arrive

LEMMA ReceiveCommand ==
    ASSUME Shape, ReceiveInv, HostStep PROVE ReceiveInv'
<1>0. /\ mac \in Mac /\ at = "uart" /\ Command /\ "host" \in interference'
      /\ interference \subseteq interference'
    BY DEF Shape, C6StationTypeOK, MacTypes, HostStep, Command, CommandRxStart, CommandRxStop,
           CommandTx, CommandTune, CommandReset, CommandInit, Executing
<1>1. CASE CommandTx \/ CommandTune
    BY <1>0, <1>1, ReceiveIdleKeeps DEF CommandTx, CommandTune, Send, ReceiveIdle
<1>2. CASE CommandRxStart
    BY <1>0, <1>2 DEF CommandRxStart, ReceiveInv, CopiedOnce, ReceiverAlive, ReceiverArmed, Copyable,
                   OversizedBlocks, RearmShape
<1>3. CASE CommandRxStop
  <2>1. /\ mac'.rxDone = mac.rxDone /\ listening' = FALSE /\ at' = "poll"
        /\ UNCHANGED <<descriptor, unread, wasReset>>
      BY <1>0, <1>3 DEF CommandRxStop, Mac
  <2> QED BY <1>0, <2>1 DEF ReceiveInv, CopiedOnce, ReceiverAlive, ReceiverArmed, Copyable,
                   OversizedBlocks, RearmShape
<1>4. CASE CommandReset \/ CommandInit
  <2>1. /\ mac'.rxDone = FALSE /\ listening' = FALSE /\ at' = "poll" /\ unread' = 0
        /\ wasReset' = TRUE
      BY <1>4 DEF CommandReset, CommandInit, ResetRadio, ResetMac
  <2> QED BY <2>1 DEF ReceiveInv, CopiedOnce, ReceiverAlive, ReceiverArmed, Copyable,
                   OversizedBlocks, RearmShape
<1> QED BY <1>0, <1>1, <1>2, <1>3, <1>4 DEF Command

-----------------------------------------------------------------------------
(* The inductive invariant *)

StationInv == Shape /\ OneCompletionPerKick /\ ReceiveInv

LEMMA StationInvInit == StationInit => StationInv
<1> SUFFICES ASSUME StationInit PROVE StationInv
    OBVIOUS
<1>1. Shape
    BY ShapeInit
<1>2. /\ mac.active = FALSE /\ mac.txDone = FALSE /\ mac.queueState = FALSE /\ mac.rxDone = FALSE
      /\ mac.rxBase = TRUE /\ descriptor.state = "armed" /\ pendingTx = None /\ at = "kick"
      /\ unread = 0
    BY DEF StationInit, MacInit, ResetMac
<1> QED BY <1>1, <1>2
        DEF StationInv, OneCompletionPerKick, ReceiveInv, CopiedOnce, ReceiverAlive, ReceiverArmed, Copyable,
                   OversizedBlocks, RearmShape

LEMMA StationInvStep == StationInv /\ [StationNext]_station_vars => StationInv'
<1> SUFFICES ASSUME StationInv, [StationNext]_station_vars PROVE StationInv'
    OBVIOUS
<1> USE DEF StationInv
<1>1. CASE FirmwareStep
  <2>1. PollCopies => unread >= 1
    <3>1. PollCopies => mac.rxDone /\ descriptor.state = "filled" /\ at = "poll"
        BY DEF PollCopies, Copyable
    <3>2. PollCopies => unread = 1
        BY <3>1 DEF ReceiveInv, CopiedOnce
    <3> QED BY <3>2
  <2>2. Shape'
      BY <1>1, <2>1, ShapeFirmware
  <2>3. ReceiveInv'
      BY <1>1, FirmwareReceiveIdle, ReceiveIdleKeeps, ReceiveRearming
  <2> QED BY <1>1, <2>2, <2>3, CompletionFirmware
<1>2. CASE HostStep
    BY <1>2, ShapeCommand, CompletionCommand, ReceiveCommand
<1>3. CASE Machine \/ Peer
  <2>1. MacTypes' /\ UNCHANGED firmware_vars
      BY <1>3, MachineTypes DEF Machine, Peer, Shape, C6StationTypeOK
  <2>2. Shape'
      BY <2>1 DEF firmware_vars, Shape, C6StationTypeOK, CallShape
  <2> QED BY <1>3, <2>2, CompletionMachine, ReceiveMachine
<1>4. CASE UNCHANGED station_vars
  <2>1. UNCHANGED <<mac, descriptor, pendingTx, ownAck, air, frontend, fault, losses, foreign, unread,
                    interference>>
      BY <1>4 DEF station_vars, mac_vars
  <2>2. UNCHANGED <<at, sends, return, station, wpa2, started, received, configured, commands,
                    wasReset, listening, reached>>
      BY <1>4 DEF station_vars, firmware_vars
  <2>3. Shape'
      BY <2>1, <2>2 DEF Shape, C6StationTypeOK, MacTypes, CallShape
  <2>4. OneCompletionPerKick'
      BY <2>1, <2>2 DEF OneCompletionPerKick
  <2>5. ReceiveInv'
      BY <2>1, <2>2, ReceiveIdleKeeps DEF ReceiveIdle
  <2> QED BY <2>3, <2>4, <2>5
<1> QED BY <1>1, <1>2, <1>3, <1>4 DEF StationNext

\* The invariant from which the theorems below follow.
THEOREM StationInvariant == StationSpec => []StationInv
    BY StationInvInit, StationInvStep, PTL DEF StationSpec

\* The types of the MAC, the machine's bookkeeping and the firmware: the count of
\* frames not yet copied never drops below zero.
THEOREM StationTypesCorrect == StationSpec => []C6StationTypeOK
<1>1. StationInv => C6StationTypeOK
    BY DEF StationInv, Shape
<1> QED BY <1>1, StationInvariant, PTL

\* Every kick of c6_mac_tx_frame is answered by exactly one completion, which
\* that call takes: none is waited for in vain and none is left over.
THEOREM CompletionCorrect == StationSpec => []OneCompletionPerKick
<1>1. StationInv => OneCompletionPerKick
    BY DEF StationInv
<1> QED BY <1>1, StationInvariant, PTL

\* No received frame is copied twice or overwritten before it was copied.
THEOREM CopyCorrect == StationSpec => []CopiedOnce
<1>1. StationInv => CopiedOnce
    BY DEF StationInv, ReceiveInv
<1> QED BY <1>1, StationInvariant, PTL

\* A receiver that was started and not stopped has a descriptor, or a frame whose
\* copy arms it again, unless an oversized frame blocks it.
THEOREM ReceiverAliveCorrect == StationSpec => []ReceiverAlive
<1>1. StationInv => ReceiverAlive
    BY DEF StationInv, ReceiveInv
<1> QED BY <1>1, StationInvariant, PTL

-----------------------------------------------------------------------------
(* The errors that end a run *)

LEMMA TwoFrames ==
    ASSUME NEW a, NEW b
    PROVE  \A i \in DOMAIN (<<a>> \o <<b>>) : (<<a>> \o <<b>>)[i] \in {a, b}
    OBVIOUS

\* Only a protected request has a protected answer.
LEMMA RepliesProtected ==
    \A request \in Request : \A i \in DOMAIN Replies(request) :
        ProtectedFrame(Replies(request)[i]) => ProtectedRequest(request)
<1> SUFFICES ASSUME NEW request \in Request, ~ProtectedRequest(request)
             PROVE  \A i \in DOMAIN Replies(request) : ~ProtectedFrame(Replies(request)[i])
    OBVIOUS
<1>1. request.kind = "ping" => request.to # "wpa2"
  <2>1. request.kind = "ping" /\ request.to = "wpa2" => request = [to |-> "wpa2", kind |-> "ping"]
      BY DEF Request
  <2> QED BY <2>1 DEF ProtectedRequest
<1>2. /\ \A kind \in {"ack", "probe", "auth", "assoc", "m1", "m3"} :
              ~ProtectedFrame(Answer(request.to, kind))
      /\ request.kind = "ping" => ~ProtectedFrame(Answer(request.to, "pong"))
    BY <1>1 DEF ProtectedFrame, Answer
<1> HIDE DEF ProtectedFrame, Answer
<1>3. CASE request.kind \in {"probe", "tagged"}
    BY <1>2, <1>3 DEF Replies, Group
<1>4. CASE request.kind = "auth"
    BY <1>2, <1>4 DEF Replies, Group
<1>5. CASE request.kind = "assoc"
  <2>1. request.to \in {"open", "wpa2"}
      BY <1>5 DEF Request, AccessPoint
  <2> QED BY <1>2, <1>5, <2>1 DEF Replies, Group
<1>6. CASE request.kind \in {"ping", "m2"}
  <2> DEFINE reply == IF request.kind = "ping" THEN "pong" ELSE "m3"
  <2>1. Replies(request) = <<Answer(request.to, "ack")>> \o <<Answer(request.to, reply)>>
    <3>1. CASE request.kind = "ping"
        BY <3>1 DEF Replies, Group
    <3>2. CASE request.kind = "m2"
        BY <3>2 DEF Replies, Group
    <3> QED BY <1>6, <3>1, <3>2
  <2>2. ~ProtectedFrame(Answer(request.to, "ack")) /\ ~ProtectedFrame(Answer(request.to, reply))
      BY <1>2, <1>6
  <2> HIDE DEF reply
  <2> QED BY <2>1, <2>2, TwoFrames
<1>7. CASE request.kind = "m4"
    BY <1>2, <1>7 DEF Replies, Group
<1> QED BY <1>3, <1>4, <1>5, <1>6, <1>7 DEF Request, RequestKind

\* A frame that needs the key is sent, or is on its way, only after both the
\* key and the address that selects it were written.
KeyInOrder ==
    /\ wpa2 # "IDLE" => mac.interface
    /\ \A i \in DOMAIN sends : ProtectedRequest(sends[i]) => KeySelected
    /\ \A i \in DOMAIN air : ProtectedFrame(air[i]) => KeySelected

ErrorInv == NoHardError /\ (wasReset \/ KeyInOrder)

LEMMA SequenceDomain ==
    \A S : \A s \in Seq(S) :
        /\ DOMAIN s = 1..Len(s) /\ Len(s) \in Nat
        /\ s # << >> =>
              /\ 1 \in DOMAIN s /\ Head(s) = s[1] /\ Tail(s) \in Seq(S)
              /\ \A i \in DOMAIN Tail(s) : i + 1 \in DOMAIN s /\ Tail(s)[i] = s[i + 1]
<1> SUFFICES ASSUME NEW S, NEW s \in Seq(S)
             PROVE  /\ DOMAIN s = 1..Len(s) /\ Len(s) \in Nat
                    /\ s # << >> =>
                          /\ 1 \in DOMAIN s /\ Head(s) = s[1] /\ Tail(s) \in Seq(S)
                          /\ \A i \in DOMAIN Tail(s) : i + 1 \in DOMAIN s /\ Tail(s)[i] = s[i + 1]
    OBVIOUS
<1>1. DOMAIN s = 1..Len(s) /\ Len(s) \in Nat
    BY LenProperties
<1>2. ASSUME s # << >>
      PROVE  /\ 1 \in DOMAIN s /\ Head(s) = s[1] /\ Tail(s) \in Seq(S)
             /\ \A i \in DOMAIN Tail(s) : i + 1 \in DOMAIN s /\ Tail(s)[i] = s[i + 1]
  <2>1. Len(s) >= 1
      BY <1>1, <1>2, EmptySeq
  <2>2. /\ Tail(s) \in Seq(S) /\ Len(Tail(s)) = Len(s) - 1
        /\ \A i \in 1..Len(Tail(s)) : Tail(s)[i] = s[i + 1]
      BY <1>2, HeadTailProperties
  <2>3. DOMAIN Tail(s) = 1..Len(Tail(s))
      BY <2>2, LenProperties
  <2>4. Head(s) = s[1]
      OBVIOUS
  <2> QED BY <1>1, <2>1, <2>2, <2>3, <2>4
<1> QED BY <1>1, <1>2

\* A step that leaves the key, the queue of sends and the air alone.
KeyIdle ==
    /\ mac'.key = mac.key /\ mac'.interface = mac.interface
    /\ UNCHANGED <<wpa2, sends, air, fault, wasReset>>

LEMMA KeyIdleKeeps == ASSUME ErrorInv, KeyIdle PROVE ErrorInv'
    BY DEF ErrorInv, KeyIdle, NoHardError, KeyInOrder, KeySelected

\* Frames leave the air.
LEMMA KeyTail ==
    ASSUME Shape, KeyInOrder, air # << >>, air' = Tail(air), UNCHANGED <<wpa2, sends>>,
           mac'.key = mac.key, mac'.interface = mac.interface
    PROVE  KeyInOrder'
<1>1. air \in Seq(Received)
    BY DEF Shape, C6StationTypeOK, MacTypes
<1>2. \A i \in DOMAIN Tail(air) : i + 1 \in DOMAIN air /\ Tail(air)[i] = air[i + 1]
    BY <1>1, SequenceDomain
<1> QED BY <1>2 DEF KeyInOrder, KeySelected

\* New frames are sent, none of them protected.
LEMMA KeySend ==
    ASSUME KeyInOrder, UNCHANGED air, mac'.key = mac.key,
           mac.interface => mac'.interface, wpa2' # "IDLE" => mac'.interface,
           \A i \in DOMAIN sends' : ~ProtectedRequest(sends'[i])
    PROVE  KeyInOrder'
    BY DEF KeyInOrder, KeySelected

LEMMA PlainFrame ==
    ASSUME NEW ap, NEW kind, kind # "ping"
    PROVE  \A i \in DOMAIN <<To(ap, kind)>> : ~ProtectedRequest(<<To(ap, kind)>>[i])
<1>1. ~ProtectedRequest(To(ap, kind))
    BY DEF To, ProtectedRequest
<1> HIDE DEF ProtectedRequest, To
<1> QED BY <1>1

LEMMA ErrorFirmware ==
    ASSUME StationInv, ErrorInv, FirmwareStep PROVE ErrorInv'
<1>0. /\ mac \in Mac /\ sends \in Seq(Request) /\ air \in Seq(Received) /\ fault = "none"
      /\ (at \in {"kick", "wait", "release"} => sends # << >>)
    BY DEF StationInv, Shape, C6StationTypeOK, MacTypes, CallShape, FirmwareStep
<1>1. CASE TxKick
  <2>1. ~mac.active /\ ~mac.queueState /\ at = "kick" /\ UNCHANGED <<wpa2, sends, wasReset>>
      BY <1>0, <1>1 DEF TxKick, StationInv, OneCompletionPerKick
  <2>2. Head(sends) \in Request /\ 1 \in DOMAIN sends /\ Head(sends) = sends[1]
      BY <1>0, <2>1, SequenceDomain
  <2>3. CASE Refused("key") /\ ProtectedRequest(Head(sends)) /\ ~KeySelected
    <3>1. wasReset
        BY <2>2, <2>3 DEF ErrorInv, KeyInOrder
    <3> QED BY <2>1, <2>3, <3>1 DEF Refused, ErrorInv, NoHardError
  <2>4. CASE KickDenied
      BY <1>0, <2>1, <2>4, CompletedMac, KeyIdleKeeps DEF KickDenied, KeyIdle
  <2>5. CASE KickGranted(Head(sends)) /\ (ProtectedRequest(Head(sends)) => KeySelected)
    <3>1. /\ mac'.key = mac.key /\ mac'.interface = mac.interface /\ fault' = fault
          /\ air' = air \o Replies(Head(sends))
        BY <1>0, <2>5 DEF KickGranted, Mac
    <3>2. ASSUME KeyInOrder, NEW i \in DOMAIN air', ProtectedFrame(air'[i]) PROVE KeySelected
      <4>1. Replies(Head(sends)) \in Seq(Received)
          BY <2>2, RepliesTypes
      <4>2. /\ air' \in Seq(Received) /\ Len(air') = Len(air) + Len(Replies(Head(sends)))
            /\ \A j \in 1..(Len(air) + Len(Replies(Head(sends)))) :
                  air'[j] = IF j <= Len(air) THEN air[j] ELSE Replies(Head(sends))[j - Len(air)]
          BY <1>0, <3>1, <4>1, ConcatProperties
      <4>3. /\ i \in 1..(Len(air) + Len(Replies(Head(sends)))) /\ Len(air) \in Nat
            /\ Len(Replies(Head(sends))) \in Nat /\ DOMAIN air = 1..Len(air)
            /\ DOMAIN Replies(Head(sends)) = 1..Len(Replies(Head(sends)))
          BY <1>0, <4>1, <4>2, LenProperties
      <4>4. CASE i <= Len(air)
        <5>1. i \in DOMAIN air /\ air'[i] = air[i]
            BY <4>2, <4>3, <4>4
        <5> QED BY <3>2, <5>1 DEF KeyInOrder
      <4>5. CASE i > Len(air)
        <5>1. /\ i - Len(air) \in DOMAIN Replies(Head(sends))
              /\ air'[i] = Replies(Head(sends))[i - Len(air)]
            BY <4>2, <4>3, <4>5
        <5> QED BY <2>2, <2>5, <3>2, <5>1, RepliesProtected
      <4> QED BY <4>3, <4>4, <4>5
    <3>3. KeyInOrder => KeyInOrder'
        BY <2>1, <3>1, <3>2 DEF KeyInOrder, KeySelected
    <3> QED BY <2>1, <3>1, <3>3 DEF ErrorInv, NoHardError
  <2> QED BY <1>1, <2>1, <2>3, <2>4, <2>5 DEF TxKick, Kick
<1>2. CASE TxWait
    BY <1>0, <1>2, KeyIdleKeeps DEF TxWait, KeyIdle, Mac
<1>3. CASE TxRelease
  <2>1. sends # << >> /\ sends' = Tail(sends) /\ UNCHANGED <<air, fault, wasReset>>
      BY <1>0, <1>3 DEF TxRelease
  <2>2. mac'.key = mac.key /\ mac'.interface = mac.interface
      BY <1>0, <1>3 DEF TxRelease, Mac
  <2>3. /\ 1 \in DOMAIN sends /\ Head(sends) = sends[1]
        /\ \A i \in DOMAIN sends' : i + 1 \in DOMAIN sends /\ sends'[i] = sends[i + 1]
      BY <1>0, <2>1, SequenceDomain
  <2>4. ASSUME KeyInOrder PROVE KeyInOrder'
    <3>1. \A i \in DOMAIN sends' : ProtectedRequest(sends'[i]) => KeySelected
        BY <2>3, <2>4 DEF KeyInOrder
    <3>2. wpa2' # "IDLE" => mac.interface
      <4>1. CASE Head(sends) = To("wpa2", "ping")
        <5>1. ProtectedRequest(sends[1])
            BY <2>3, <4>1 DEF To, ProtectedRequest
        <5> QED BY <2>3, <2>4, <5>1 DEF KeyInOrder, KeySelected
      <4>2. CASE Head(sends) # To("wpa2", "ping")
          BY <1>3, <2>4, <4>2 DEF TxRelease, KeyInOrder
      <4> QED BY <4>1, <4>2
    <3> QED BY <2>1, <2>2, <2>4, <3>1, <3>2 DEF KeyInOrder, KeySelected
  <2> QED BY <1>0, <2>1, <2>4 DEF ErrorInv, NoHardError
<1>4. CASE NotReady
  <2>1. sends' = << >> /\ UNCHANGED <<wpa2, wasReset, mac, air, fault>>
      BY <1>4 DEF NotReady, mac_vars
  <2>2. KeyInOrder => KeyInOrder'
      BY <2>1 DEF KeyInOrder, KeySelected
  <2> QED BY <2>1, <2>2 DEF ErrorInv, NoHardError
<1>5. CASE PollNothing \/ PollRejects \/ PollCopies \/ StationIgnores \/ Wpa2Reached \/ Wpa2Ignores
           \/ NoCommand \/ RxArm
    BY <1>5, KeyIdleKeeps DEF PollNothing, PollRejects, PollCopies, StationIgnores, Wpa2Reached,
                              Wpa2Ignores, NoCommand, RxArm, mac_vars, KeyIdle
<1>6. CASE ClearRxDone \/ RxBase
    BY <1>0, <1>6, KeyIdleKeeps DEF ClearRxDone, RxBase, RxBaseWritten, KeyIdle, Mac
<1>7. CASE StationAdvances
  <2>1. /\ sends' = <<To("open", StationRow[station].send)>>
        /\ UNCHANGED <<wpa2, wasReset, mac, air, fault>>
      BY <1>7 DEF StationAdvances, Send, mac_vars
  <2>2. \A i \in DOMAIN sends' : ~ProtectedRequest(sends'[i])
      BY <2>1 DEF To, ProtectedRequest
  <2>3. KeyInOrder => KeyInOrder'
      BY <2>1, <2>2, KeySend DEF KeyInOrder
  <2> QED BY <2>1, <2>3 DEF ErrorInv, NoHardError
<1>8. CASE StationReached
  <2>1. CASE started
      BY <1>8, <2>1, KeyIdleKeeps DEF StationReached, KeyIdle
  <2>2. CASE ~started
    <3>1. /\ sends' = <<To("wpa2", "probe")>> /\ mac'.key = mac.key /\ mac'.interface = TRUE
          /\ UNCHANGED <<wasReset, air, fault>>
        BY <1>0, <1>8, <2>2 DEF StationReached, Send, Mac
    <3>2. \A i \in DOMAIN sends' : ~ProtectedRequest(sends'[i])
        BY <3>1, PlainFrame
    <3>3. KeyInOrder => KeyInOrder'
        BY <3>1, <3>2, KeySend
    <3> QED BY <3>1, <3>3 DEF ErrorInv, NoHardError
  <2> QED BY <2>1, <2>2
<1>9. CASE Wpa2Advances
  <2>1. UNCHANGED <<wasReset, mac, air, fault>> /\ wpa2 # "IDLE"
      BY <1>9 DEF Wpa2Advances, mac_vars, Wpa2Row
  <2>2. CASE UNCHANGED sends
    <3>1. KeyInOrder => KeyInOrder'
        BY <2>1, <2>2 DEF KeyInOrder, KeySelected
    <3> QED BY <2>1, <3>1 DEF ErrorInv, NoHardError
  <2>3. CASE Wpa2Row[wpa2].send # << >> /\ sends' = Wpa2Row[wpa2].send
    <3>1. /\ wpa2 \in {"SCANNING", "AUTHENTICATING", "ASSOCIATING", "WAIT_M1"}
          /\ wpa2 = "SCANNING" => Wpa2Row[wpa2].send = <<To("wpa2", "auth")>>
          /\ wpa2 = "AUTHENTICATING" => Wpa2Row[wpa2].send = <<To("wpa2", "assoc")>>
          /\ wpa2 = "ASSOCIATING" => Wpa2Row[wpa2].send = << >>
          /\ wpa2 = "WAIT_M1" => Wpa2Row[wpa2].send = <<To("wpa2", "m2")>>
        BY <1>9 DEF Wpa2Advances, Wpa2Row
    <3>2. \/ sends' = <<To("wpa2", "auth")>> \/ sends' = <<To("wpa2", "assoc")>>
          \/ sends' = <<To("wpa2", "m2")>>
        BY <2>3, <3>1
    <3>3. \A i \in DOMAIN sends' : ~ProtectedRequest(sends'[i])
        BY <3>2, PlainFrame
    <3>4. KeyInOrder => KeyInOrder'
        BY <2>1, <3>3, KeySend DEF KeyInOrder
    <3> QED BY <2>1, <3>4 DEF ErrorInv, NoHardError
  <2> QED BY <1>9, <2>2, <2>3 DEF Wpa2Advances, Send
<1>10. CASE Wpa2Keys
  <2>1. /\ mac'.key = TRUE /\ mac'.interface = mac.interface /\ wpa2 = "WAIT_M3"
        /\ UNCHANGED <<wpa2, wasReset, air, fault>>
      BY <1>0, <1>10 DEF Wpa2Keys, Installed, Mac
  <2>2. KeyInOrder => KeyInOrder'
      BY <2>1 DEF KeyInOrder, KeySelected
  <2> QED BY <2>1, <2>2 DEF ErrorInv, NoHardError
<1> QED BY <1>1, <1>2, <1>3, <1>4, <1>5, <1>6, <1>7, <1>8, <1>9, <1>10 DEF FirmwareStep

LEMMA ErrorMachine ==
    ASSUME \A frame \in Injected : ~ProtectedFrame(frame),
           StationInv, ErrorInv, Machine \/ Peer
    PROVE  ErrorInv'
<1>0. /\ mac \in Mac /\ air \in Seq(Received) /\ UNCHANGED <<wpa2, sends, wasReset>>
      /\ pendingTx \in Request \cup {None} /\ Shape /\ fault = "none"
    BY DEF StationInv, Shape, C6StationTypeOK, MacTypes, Machine, Peer, firmware_vars, MachineStep,
           PeerStep, Deadline, OwnAckEnds, Arrive, Miss, Lose, Foreign
<1>1. CASE Deadline
  <2>1. mac.active
      BY <1>0, <1>1 DEF Deadline, StationInv, OneCompletionPerKick
  <2>2. DeadlineOutcome(pendingTx) \in {"success", "ack_timeout", "error"}
      BY DEF DeadlineOutcome
  <2> QED BY <1>0, <1>1, <2>1, <2>2, CompletedMac, KeyIdleKeeps DEF Deadline, KeyIdle
<1>2. CASE OwnAckEnds
    BY <1>0, <1>2, KeyIdleKeeps DEF OwnAckEnds, KeyIdle
<1>3. CASE Miss \/ Lose
  <2>1. air # << >> /\ air' = Tail(air) /\ UNCHANGED <<mac, fault>>
      BY <1>3 DEF Miss, Lose
  <2>2. KeyInOrder => KeyInOrder'
      BY <1>0, <2>1, KeyTail
  <2> QED BY <1>0, <2>1, <2>2 DEF ErrorInv, NoHardError
<1>4. ASSUME NEW frame \in Injected, Foreign(frame) PROVE ErrorInv'
  <2>1. air' = Append(air, frame) /\ UNCHANGED <<mac, fault>> /\ frame \in Received
      BY <1>4, InjectedAssumption DEF Foreign
  <2>2. /\ Len(air') = Len(air) + 1 /\ DOMAIN air' = 1..Len(air') /\ DOMAIN air = 1..Len(air)
        /\ Len(air) \in Nat /\ air'[Len(air) + 1] = frame /\ \A i \in 1..Len(air) : air'[i] = air[i]
      BY <1>0, <2>1
  <2>3. ASSUME KeyInOrder, NEW i \in DOMAIN air', ProtectedFrame(air'[i]) PROVE KeySelected
    <3>1. i # Len(air) + 1
        BY <2>2, <2>3
    <3>2. i \in DOMAIN air /\ air'[i] = air[i]
        BY <2>2, <3>1
    <3> QED BY <2>3, <3>2 DEF KeyInOrder
  <2>4. KeyInOrder => KeyInOrder'
      BY <1>0, <2>1, <2>3 DEF KeyInOrder, KeySelected
  <2> QED BY <1>0, <2>1, <2>4 DEF ErrorInv, NoHardError
<1>5. CASE Arrive
  <2>1. air # << >> /\ air' = Tail(air) /\ 1 \in DOMAIN air /\ Head(air) = air[1]
      BY <1>0, <1>5, SequenceDomain DEF Arrive
  <2>2. mac'.key = mac.key /\ mac'.interface = mac.interface
      BY <1>0, <1>5, CompletedMac DEF Arrive, ArriveAck, ArriveUnkeyed, ArriveFrame, WriteRx, DropRx, Mac
  <2>3. KeyInOrder => KeyInOrder'
      BY <1>0, <2>1, <2>2, KeyTail
  <2>4. CASE ArriveAck
    <3>1. mac.active
        BY <1>0, <2>4 DEF ArriveAck, Acknowledges, StationInv, OneCompletionPerKick
    <3> QED BY <1>0, <2>3, <2>4, <3>1 DEF ArriveAck, ErrorInv, NoHardError
  <2>5. CASE ArriveUnkeyed
    <3>1. wasReset
        BY <2>1, <2>5 DEF ArriveUnkeyed, ErrorInv, KeyInOrder
    <3> QED BY <1>0, <2>5, <3>1 DEF ArriveUnkeyed, ErrorInv, NoHardError
  <2>6. CASE ArriveFrame
      BY <1>0, <2>3, <2>6 DEF ArriveFrame, ErrorInv, NoHardError
  <2> QED BY <1>5, <2>4, <2>5, <2>6 DEF Arrive
<1> QED BY <1>1, <1>2, <1>3, <1>4, <1>5 DEF Machine, Peer, MachineStep, PeerStep

LEMMA ErrorCommand == ASSUME StationInv, ErrorInv, HostStep PROVE ErrorInv'
<1>0. /\ mac \in Mac /\ fault = "none" /\ Command /\ UNCHANGED wpa2 /\ UNCHANGED fault
      /\ (wasReset => wasReset')
    BY DEF StationInv, Shape, C6StationTypeOK, MacTypes, HostStep, Command, CommandRxStart,
           CommandRxStop, CommandTx, CommandTune, CommandReset, CommandInit, Executing, ResetRadio
<1>1. CASE CommandRxStart
    BY <1>0, <1>1, KeyIdleKeeps DEF CommandRxStart, KeyIdle
<1>2. CASE CommandRxStop
    BY <1>0, <1>2, KeyIdleKeeps DEF CommandRxStop, KeyIdle, Mac
<1>3. CASE CommandTx
  <2>1. sends' = <<To("nobody", "tagged")>> /\ UNCHANGED <<mac, air>>
      BY <1>3 DEF CommandTx, Send
  <2>2. \A i \in DOMAIN sends' : ~ProtectedRequest(sends'[i])
      BY <2>1, PlainFrame
  <2>3. KeyInOrder => KeyInOrder'
      BY <1>0, <2>1, <2>2, KeySend DEF KeyInOrder
  <2> QED BY <1>0, <2>3 DEF ErrorInv, NoHardError
<1>4. CASE CommandTune
  <2>1. (air' = air \/ air' = << >>) /\ UNCHANGED <<mac, sends>>
      BY <1>4 DEF CommandTune, Retuned
  <2>2. KeyInOrder => KeyInOrder'
      BY <1>0, <2>1 DEF KeyInOrder, KeySelected
  <2> QED BY <1>0, <2>2 DEF ErrorInv, NoHardError
<1>5. CASE CommandReset \/ CommandInit
    BY <1>0, <1>5 DEF CommandReset, CommandInit, ResetRadio, ErrorInv, NoHardError
<1> QED BY <1>0, <1>1, <1>2, <1>3, <1>4, <1>5 DEF Command

\* Unless a scenario injects a frame that needs the key, a run never ends with an
\* error of the queue or of the completion, and ends with one of the key only
\* after a command reset the MAC.
THEOREM NoHardErrorCorrect ==
    ASSUME \A frame \in Injected : ~ProtectedFrame(frame)
    PROVE  StationSpec => []NoHardError
<1>1. StationInit => ErrorInv
  <2> SUFFICES ASSUME StationInit PROVE ErrorInv
      OBVIOUS
  <2>1. /\ fault = "none" /\ wpa2 = "IDLE" /\ air = << >> /\ sends = <<To("open", "probe")>>
      BY DEF StationInit, MacInit
  <2>2. \A i \in DOMAIN sends : ~ProtectedRequest(sends[i])
      BY <2>1, PlainFrame
  <2> QED BY <2>1, <2>2 DEF ErrorInv, NoHardError, KeyInOrder
<1>2. StationInv /\ ErrorInv /\ [StationNext]_station_vars => ErrorInv'
  <2> SUFFICES ASSUME StationInv, ErrorInv, [StationNext]_station_vars PROVE ErrorInv'
      OBVIOUS
  <2>1. CASE UNCHANGED station_vars
      BY <2>1, KeyIdleKeeps DEF station_vars, mac_vars, firmware_vars, KeyIdle
  <2> QED BY <2>1, ErrorFirmware, ErrorMachine, ErrorCommand DEF StationNext
<1>3. ErrorInv => NoHardError
    BY DEF ErrorInv
<1> QED BY <1>1, <1>2, <1>3, StationInvariant, PTL DEF StationSpec

-----------------------------------------------------------------------------
(* The awaited answer *)

\* Nothing has interfered with the exchange, and it is not over.
Quiet == interference = {} /\ fault = "none" /\ "CCMP" \notin reached

InAir(frame) == \E i \in DOMAIN air : air[i] = frame
Held(frame) == descriptor.state = "filled" /\ descriptor.frame = frame
Coming(frame) == InAir(frame) \/ Held(frame)

\* The firmware holds the frame and will still show it to the state machine that
\* waits for it.
InHand(frame) ==
    /\ received = frame
    /\ at \in {"clear", "arm", "base", "station"} \/ (at = "wpa2" /\ started)

\* A frame of the exchange: dropping one is an interference.
Exchanged(frame) == frame.kind \notin {"ack", "long"} /\ frame.from # "foreign"

Ping == To("wpa2", "ping")
Pong == Answer("wpa2", "pong")
Assoc == Answer("wpa2", "assoc")
M1 == Answer("wpa2", "m1")

Answers(request, frame) == \E i \in DOMAIN Replies(request) : Replies(request)[i] = frame

Busy == at \in {"wait", "release"}

\* A call in progress sends what makes the access point answer, or M4 and the
\* first protected frame.
Calling ==
    \/ /\ Len(sends) = 1 /\ sends[1] # Ping /\ Answers(sends[1], Awaited)
       /\ started /\ wpa2 = "ASSOCIATING" => sends[1] = To("wpa2", "assoc")
    \/ /\ started /\ wpa2 = "WAIT_M3"
       /\ \/ Len(sends) = 1 /\ sends[1] = Ping
          \/ Len(sends) = 2 /\ sends[1] = To("wpa2", "m4") /\ sends[2] = Ping

\* WAIT_CCMP is entered after the send whose answer it waits for.
Needed == IF Busy /\ sends[1] = Ping THEN Pong ELSE Awaited

\* M1 follows the association response, which nothing else asks for.
M1Follows ==
    \/ \E i, j \in DOMAIN air : i < j /\ air[i] = Assoc /\ air[j] = M1
    \/ Held(Assoc) /\ InAir(M1)
    \/ /\ received = Assoc
       /\ \/ at \in {"clear", "arm"} /\ InAir(M1)
          \/ at \in {"base", "station", "wpa2"} /\ Coming(M1)

ExchangeShape ==
    /\ configured /\ frontend
    /\ started => station = "ASSOCIATED" /\ wpa2 # "IDLE"
    /\ ~started => wpa2 = "IDLE"
    /\ at \in {"clear", "arm", "base"} => return = "station"
    /\ at \in {"clear", "arm"} => descriptor.frame = received
    /\ at \in {"kick", "wait", "release"} => Calling

AnswerComing ==
    at # "kick" /\ ~(Busy /\ Len(sends) = 2) => Coming(Needed) \/ InHand(Needed)

FirstMessageComing == at # "kick" /\ started /\ wpa2 = "ASSOCIATING" => M1Follows

ExchangeInv == Quiet => ExchangeShape /\ AnswerComing /\ FirstMessageComing

\* What the states wait for.
AwaitedTable ==
    /\ started =>
          /\ wpa2 = "SCANNING" => Awaited = Answer("wpa2", "probe")
          /\ wpa2 = "AUTHENTICATING" => Awaited = Answer("wpa2", "auth")
          /\ wpa2 = "ASSOCIATING" => Awaited = Assoc
          /\ wpa2 = "WAIT_M1" => Awaited = M1
          /\ wpa2 = "WAIT_M3" => Awaited = Answer("wpa2", "m3")
          /\ wpa2 = "WAIT_CCMP" => Awaited = Pong
    /\ ~started =>
          /\ station = "SCANNING" => Awaited = Answer("open", "probe")
          /\ station = "AUTHENTICATING" => Awaited = Answer("open", "auth")
          /\ station = "ASSOCIATING" => Awaited = Answer("open", "assoc")
          /\ station = "ASSOCIATED" => Awaited = Answer("open", "pong")

\* The table is what Awaited says, before and after a step.
LEMMA AwaitedIsTable == AwaitedTable /\ AwaitedTable'
<1> HIDE DEF Answer
<1>1. AwaitedTable
    BY DEF AwaitedTable, Awaited, Wpa2Row, StationRow, Assoc, M1, Pong
<1>2. AwaitedTable'
    BY DEF AwaitedTable, Awaited, Wpa2Row, StationRow, Assoc, M1, Pong
<1> QED BY <1>1, <1>2

\* Frames of an access point other than acknowledgements are frames of the exchange.
LEMMA AnswersExchanged ==
    \A ap \in {"open", "wpa2"} : \A kind \in {"probe", "auth", "assoc", "m1", "m3", "pong"} :
        Answer(ap, kind) \in Received /\ Exchanged(Answer(ap, kind))
    BY DEF Answer, Received, AccessPoint, Exchanged

LEMMA NeededExchanged ==
    ASSUME Shape, ExchangeShape PROVE Needed \in Received /\ Exchanged(Needed)
<1>1. station \in StationState /\ wpa2 \in Wpa2State /\ started \in BOOLEAN
    BY DEF Shape, C6StationTypeOK
<1>2. Awaited \in Received /\ Exchanged(Awaited)
  <2> HIDE DEF Answer, Exchanged, Received
  <2> QED BY <1>1, AwaitedIsTable, AnswersExchanged
        DEF AwaitedTable, Wpa2State, StationState, Assoc, M1, Pong, ExchangeShape
<1>3. Pong \in Received /\ Exchanged(Pong)
    BY AnswersExchanged DEF Pong
<1> QED BY <1>2, <1>3 DEF Needed

\* What follows the head of a queue moves one place up.
LEMMA TailShifts ==
    \A S : \A s \in Seq(S) : s # << >> =>
        \A i \in DOMAIN s : i # 1 => i - 1 \in DOMAIN Tail(s) /\ Tail(s)[i - 1] = s[i]
<1> SUFFICES ASSUME NEW S, NEW s \in Seq(S), s # << >>, NEW i \in DOMAIN s, i # 1
             PROVE  i - 1 \in DOMAIN Tail(s) /\ Tail(s)[i - 1] = s[i]
    OBVIOUS
<1>1. DOMAIN s = 1..Len(s) /\ Len(s) \in Nat
    BY LenProperties
<1>2. /\ Tail(s) \in Seq(S) /\ Len(Tail(s)) = Len(s) - 1
      /\ \A j \in 1..Len(Tail(s)) : Tail(s)[j] = s[j + 1]
    BY HeadTailProperties
<1>3. DOMAIN Tail(s) = 1..Len(Tail(s))
    BY <1>2, LenProperties
<1>4. i - 1 \in 1..Len(Tail(s)) /\ (i - 1) + 1 = i
    BY <1>1, <1>2
<1> QED BY <1>2, <1>3, <1>4

\* The two ways in which a machine that disturbs nothing moves the frames: some
\* are added behind the others, or the first one is written to memory or is none
\* of the exchange.
AirGrows ==
    /\ UNCHANGED descriptor
    /\ \A i \in DOMAIN air : i \in DOMAIN air' /\ air'[i] = air[i]

HeadTaken ==
    /\ \A i \in DOMAIN air : i # 1 => i - 1 \in DOMAIN air' /\ air'[i - 1] = air[i]
    /\ \/ UNCHANGED descriptor /\ ~Exchanged(air[1])
       \/ /\ descriptor.state = "armed"
          /\ descriptor'.state = "filled" /\ descriptor'.frame = air[1]

LEMMA HeadEffect ==
    ASSUME StationInv, Arrive, Quiet'
    PROVE  HeadTaken /\ UNCHANGED <<frontend, fault>> /\ interference = {}
<1>1. /\ air \in Seq(Received) /\ air # << >> /\ air' = Tail(air) /\ fault = "none"
      /\ UNCHANGED frontend
    BY DEF StationInv, Shape, C6StationTypeOK, MacTypes, Arrive
<1>2. \A i \in DOMAIN air : i # 1 => i - 1 \in DOMAIN air' /\ air'[i - 1] = air[i]
    BY <1>1, TailShifts
<1>3. Head(air) = air[1]
    BY <1>1, SequenceDomain
<1>4. CASE ArriveAck
  <2>1. air[1].kind = "ack" /\ UNCHANGED <<descriptor, interference>>
      BY <1>3, <1>4 DEF ArriveAck, Acknowledges
  <2> QED BY <1>1, <1>2, <2>1 DEF HeadTaken, Exchanged, Quiet
<1>5. CASE ArriveUnkeyed
    BY <1>5 DEF ArriveUnkeyed, Quiet
<1>6. CASE ArriveFrame
  <2>1. (WriteRx(air[1]) \/ DropRx(air[1])) /\ fault' = fault
      BY <1>3, <1>6 DEF ArriveFrame
  <2>2. CASE WriteRx(air[1])
    <3>1. /\ descriptor.state = "armed" /\ descriptor'.state = "filled"
          /\ descriptor'.frame = air[1] /\ interference \subseteq interference'
        BY <2>2 DEF WriteRx, CanWriteRx
    <3> QED BY <1>1, <1>2, <2>1, <3>1 DEF HeadTaken, Quiet
  <2>3. CASE DropRx(air[1])
    <3>1. UNCHANGED descriptor /\ interference \subseteq interference' /\ ~WantsAck(air[1])
        BY <2>3 DEF DropRx, Quiet
    <3>2. ~Exchanged(air[1])
        BY <3>1 DEF WantsAck, Exchanged
    <3> QED BY <1>1, <1>2, <2>1, <3>1, <3>2 DEF HeadTaken, Quiet
  <2> QED BY <2>1, <2>2, <2>3
<1> QED BY <1>4, <1>5, <1>6 DEF Arrive

LEMMA MachineEffect ==
    ASSUME StationInv, Machine \/ Peer, Quiet'
    PROVE  /\ Quiet /\ UNCHANGED firmware_vars /\ UNCHANGED frontend
           /\ AirGrows \/ HeadTaken
<1>1. UNCHANGED firmware_vars /\ UNCHANGED reached
    BY DEF Machine, Peer, firmware_vars
<1>2. CASE Arrive
    BY <1>1, <1>2, HeadEffect DEF Quiet
<1>3. CASE Miss \/ Lose
    BY <1>3 DEF Miss, Lose, Quiet
<1>4. CASE Deadline \/ OwnAckEnds
  <2>1. UNCHANGED <<air, descriptor, frontend, interference>> /\ fault = "none"
      BY <1>4 DEF Deadline, OwnAckEnds
  <2> QED BY <1>1, <2>1 DEF AirGrows, Quiet
<1>5. ASSUME NEW frame \in Injected, Foreign(frame)
      PROVE  AirGrows /\ Quiet /\ UNCHANGED frontend
  <2>1. /\ air' = Append(air, frame) /\ UNCHANGED <<descriptor, frontend, interference>>
        /\ fault = "none" /\ frame \in Received /\ air \in Seq(Received)
      BY <1>5, InjectedAssumption DEF Foreign, StationInv, Shape, C6StationTypeOK, MacTypes
  <2>2. \A i \in DOMAIN air : i \in DOMAIN air' /\ air'[i] = air[i]
      BY <2>1
  <2> QED BY <1>1, <2>1, <2>2 DEF AirGrows, Quiet
<1> QED BY <1>1, <1>2, <1>3, <1>4, <1>5 DEF Machine, Peer, MachineStep, PeerStep

\* A frame of the exchange that is on the air or in memory stays there.
LEMMA ComingKept ==
    ASSUME AirGrows \/ HeadTaken, NEW frame, Exchanged(frame)
    PROVE  /\ Coming(frame) => Coming(frame)'
           /\ Held(frame) => Held(frame)'
           /\ descriptor.state = "filled" /\ InAir(frame) => InAir(frame)'
<1>1. CASE AirGrows
    BY <1>1 DEF AirGrows, Coming, InAir, Held
<1>2. CASE HeadTaken
  <2>1. Held(frame) => Held(frame)'
      BY <1>2 DEF HeadTaken, Held
  <2>2. InAir(frame) => InAir(frame)' \/ (Held(frame)' /\ descriptor.state = "armed")
    <3> SUFFICES ASSUME NEW i \in DOMAIN air, air[i] = frame
                 PROVE  InAir(frame)' \/ (Held(frame)' /\ descriptor.state = "armed")
        BY DEF InAir
    <3>1. CASE i = 1
        BY <1>2, <3>1 DEF HeadTaken, Held
    <3>2. CASE i # 1
        BY <1>2, <3>2 DEF HeadTaken, InAir
    <3> QED BY <3>1, <3>2
  <2> QED BY <2>1, <2>2 DEF Coming
<1> QED BY <1>1, <1>2

LEMMA FollowsKept ==
    ASSUME AirGrows \/ HeadTaken, M1Follows, air \in Seq(Received), UNCHANGED <<at, received>>,
           at \in {"clear", "arm"} => descriptor.state = "filled"
    PROVE  M1Follows'
<1>0. Exchanged(Assoc) /\ Exchanged(M1)
    BY AnswersExchanged DEF Assoc, M1
<1> HIDE DEF Exchanged, Assoc, M1
<1>1. CASE \E i, j \in DOMAIN air : i < j /\ air[i] = Assoc /\ air[j] = M1
  <2>1. PICK i \in DOMAIN air, j \in DOMAIN air : i < j /\ air[i] = Assoc /\ air[j] = M1
      BY <1>1
  <2>2. i \in Nat /\ j \in Nat /\ i >= 1 /\ j # 1
      BY <2>1, LenProperties
  <2>3. CASE AirGrows
      BY <2>1, <2>3 DEF AirGrows, M1Follows
  <2>4. CASE HeadTaken
    <3>1. j - 1 \in DOMAIN air' /\ air'[j - 1] = M1
        BY <2>1, <2>2, <2>4 DEF HeadTaken
    <3>2. CASE i = 1
      <4>1. Held(Assoc)'
          BY <1>0, <2>1, <2>4, <3>2 DEF HeadTaken, Held
      <4>2. InAir(M1)'
          BY <3>1 DEF InAir
      <4> QED BY <4>1, <4>2 DEF M1Follows
    <3>3. CASE i # 1
      <4>1. i - 1 \in DOMAIN air' /\ air'[i - 1] = Assoc /\ i - 1 < j - 1
          BY <2>1, <2>2, <2>4, <3>3 DEF HeadTaken
      <4> QED BY <3>1, <4>1 DEF M1Follows
    <3> QED BY <3>2, <3>3
  <2> QED BY <2>3, <2>4
<1>2. CASE Held(Assoc) /\ InAir(M1)
  <2>1. Held(Assoc)' /\ InAir(M1)'
    <3>1. descriptor.state = "filled"
        BY <1>2 DEF Held
    <3> QED BY <1>0, <1>2, <3>1, ComingKept
  <2> QED BY <2>1 DEF M1Follows
<1>3. CASE received = Assoc /\ at \in {"clear", "arm"} /\ InAir(M1)
  <2>1. InAir(M1)'
      BY <1>0, <1>3, ComingKept
  <2> QED BY <1>3, <2>1 DEF M1Follows
<1>4. CASE received = Assoc /\ at \in {"base", "station", "wpa2"} /\ Coming(M1)
  <2>1. Coming(M1)'
      BY <1>0, <1>4, ComingKept
  <2> QED BY <1>4, <2>1 DEF M1Follows
<1> QED BY <1>1, <1>2, <1>3, <1>4 DEF M1Follows

\* Between its own accesses the firmware loses nothing that is on its way.
LEMMA ExchangeMachine ==
    ASSUME StationInv, ExchangeInv, Machine \/ Peer PROVE ExchangeInv'
<1> SUFFICES ASSUME Quiet' PROVE ExchangeShape' /\ AnswerComing' /\ FirstMessageComing'
    BY DEF ExchangeInv
<1>1. /\ Quiet /\ UNCHANGED frontend /\ (AirGrows \/ HeadTaken)
      /\ UNCHANGED <<at, sends, return, station, wpa2, started, received, configured>>
    BY MachineEffect DEF firmware_vars
<1>2. ExchangeShape /\ AnswerComing /\ FirstMessageComing /\ Shape /\ air \in Seq(Received)
    BY <1>1 DEF ExchangeInv, StationInv, Shape, C6StationTypeOK, MacTypes
<1>3. at \in {"clear", "arm"} => descriptor.state = "filled"
    BY <1>1 DEF StationInv, ReceiveInv, RearmShape, Quiet
<1>4. Awaited' = Awaited /\ (Busy' <=> Busy)
    BY <1>1 DEF Awaited, Busy
<1>5. Needed' = Needed
    BY <1>1, <1>4 DEF Needed
<1>6. ExchangeShape'
  <2>1. Calling => Calling'
      BY <1>1, <1>4 DEF Calling, Answers
  <2>2. at \in {"clear", "arm"} => UNCHANGED descriptor
      BY <1>1, <1>3 DEF AirGrows, HeadTaken
  <2> QED BY <1>1, <1>2, <2>1, <2>2 DEF ExchangeShape
<1>7. AnswerComing'
  <2>1. PICK frame : frame = Needed /\ frame = Needed' /\ Exchanged(frame)
      BY <1>2, <1>5, NeededExchanged
  <2>2. Coming(frame) => Coming(frame)'
      BY <1>1, <2>1, ComingKept
  <2>3. InHand(frame) => InHand(frame)'
      BY <1>1 DEF InHand
  <2>4. at # "kick" /\ ~(Busy /\ Len(sends) = 2) => Coming(frame) \/ InHand(frame)
      BY <1>2, <2>1 DEF AnswerComing
  <2>5. (at # "kick" /\ ~(Busy /\ Len(sends) = 2))' => Coming(frame)' \/ InHand(frame)'
      BY <1>1, <1>4, <2>2, <2>3, <2>4
  <2> QED BY <2>1, <2>5 DEF AnswerComing, Coming, InAir, Held, InHand
<1>8. FirstMessageComing'
    BY <1>1, <1>2, <1>3, FollowsKept DEF FirstMessageComing
<1> QED BY <1>6, <1>7, <1>8

\* What the access points answer to the requests of the exchange: M1 comes behind
\* the association response.
LEMMA RepliesOf ==
    ASSUME NEW request, NEW ap \in {"open", "wpa2"}, request.to = ap
    PROVE  /\ request.kind = "probe" => Replies(request) = << >> \o <<Answer(ap, "probe")>>
           /\ request.kind = "auth" =>
                 Replies(request) = <<Answer(ap, "ack")>> \o <<Answer(ap, "auth")>>
           /\ request.kind = "ping" =>
                 Replies(request) = <<Answer(ap, "ack")>> \o <<Answer(ap, "pong")>>
           /\ request.kind = "m2" =>
                 Replies(request) = <<Answer(ap, "ack")>> \o <<Answer(ap, "m3")>>
           /\ request.kind = "assoc" /\ ap = "open" =>
                 Replies(request) = <<Answer(ap, "ack")>> \o <<Answer(ap, "assoc")>>
           /\ request.kind = "assoc" /\ ap = "wpa2" =>
                 Replies(request) =
                     <<Answer(ap, "ack")>> \o <<Answer(ap, "assoc"), Answer(ap, "m1")>>
<1> HIDE DEF Answer
<1>1. ASSUME request.kind = "probe" PROVE Replies(request) = << >> \o <<Answer(ap, "probe")>>
    BY <1>1 DEF Replies, Group
<1>2. ASSUME request.kind = "auth"
      PROVE  Replies(request) = <<Answer(ap, "ack")>> \o <<Answer(ap, "auth")>>
    BY <1>2 DEF Replies, Group
<1>3. ASSUME request.kind = "ping"
      PROVE  Replies(request) = <<Answer(ap, "ack")>> \o <<Answer(ap, "pong")>>
    BY <1>3 DEF Replies, Group
<1>4. ASSUME request.kind = "m2"
      PROVE  Replies(request) = <<Answer(ap, "ack")>> \o <<Answer(ap, "m3")>>
    BY <1>4 DEF Replies, Group
<1>5. ASSUME request.kind = "assoc", ap = "open"
      PROVE  Replies(request) = <<Answer(ap, "ack")>> \o <<Answer(ap, "assoc")>>
    BY <1>5 DEF Replies, Group
<1>6. ASSUME request.kind = "assoc", ap = "wpa2"
      PROVE  Replies(request) = <<Answer(ap, "ack")>> \o <<Answer(ap, "assoc"), Answer(ap, "m1")>>
    BY <1>6 DEF Replies, Group
<1> QED BY <1>1, <1>2, <1>3, <1>4, <1>5, <1>6

LEMMA ExchangeAnswers ==
    /\ \A ap \in {"open", "wpa2"} :
          /\ Answers(To(ap, "probe"), Answer(ap, "probe"))
          /\ Answers(To(ap, "auth"), Answer(ap, "auth"))
          /\ Answers(To(ap, "ping"), Answer(ap, "pong"))
          /\ Answers(To(ap, "m2"), Answer(ap, "m3"))
          /\ Answers(To(ap, "assoc"), Answer(ap, "assoc"))
    /\ LET replies == Replies(To("wpa2", "assoc"))
       IN  2 \in DOMAIN replies /\ 3 \in DOMAIN replies /\ replies[2] = Assoc /\ replies[3] = M1
<1>1. ASSUME NEW request, NEW a, NEW b, Replies(request) = <<a>> \o <<b>> PROVE Answers(request, b)
  <2>1. 2 \in DOMAIN (<<a>> \o <<b>>) /\ (<<a>> \o <<b>>)[2] = b
      OBVIOUS
  <2> QED BY <1>1, <2>1 DEF Answers
<1>2. ASSUME NEW request, NEW a, Replies(request) = << >> \o <<a>> PROVE Answers(request, a)
  <2>1. 1 \in DOMAIN (<< >> \o <<a>>) /\ (<< >> \o <<a>>)[1] = a
      OBVIOUS
  <2> QED BY <1>2, <2>1 DEF Answers
<1>3. ASSUME NEW request, NEW a, NEW b, NEW c, Replies(request) = <<a>> \o <<b, c>>
      PROVE  /\ Answers(request, b)
             /\ 2 \in DOMAIN Replies(request) /\ 3 \in DOMAIN Replies(request)
             /\ Replies(request)[2] = b /\ Replies(request)[3] = c
  <2>1. LET r == <<a>> \o <<b, c>>
        IN  2 \in DOMAIN r /\ 3 \in DOMAIN r /\ r[2] = b /\ r[3] = c
      OBVIOUS
  <2> QED BY <1>3, <2>1 DEF Answers
<1>4. \A ap, kind : To(ap, kind).to = ap /\ To(ap, kind).kind = kind
    BY DEF To
<1> HIDE DEF Answer, To, Answers
<1>5. ASSUME NEW ap \in {"open", "wpa2"}
      PROVE  /\ Answers(To(ap, "probe"), Answer(ap, "probe"))
             /\ Answers(To(ap, "auth"), Answer(ap, "auth"))
             /\ Answers(To(ap, "ping"), Answer(ap, "pong"))
             /\ Answers(To(ap, "m2"), Answer(ap, "m3"))
             /\ Answers(To(ap, "assoc"), Answer(ap, "assoc"))
  <2>1. Answers(To(ap, "probe"), Answer(ap, "probe"))
      BY <1>2, <1>4, RepliesOf
  <2>2. Answers(To(ap, "auth"), Answer(ap, "auth"))
    <3>1. Replies(To(ap, "auth")) = <<Answer(ap, "ack")>> \o <<Answer(ap, "auth")>>
        BY <1>4, RepliesOf
    <3> QED BY <1>1, <3>1
  <2>3. Answers(To(ap, "ping"), Answer(ap, "pong"))
    <3>1. Replies(To(ap, "ping")) = <<Answer(ap, "ack")>> \o <<Answer(ap, "pong")>>
        BY <1>4, RepliesOf
    <3> QED BY <1>1, <3>1
  <2>4. Answers(To(ap, "m2"), Answer(ap, "m3"))
    <3>1. Replies(To(ap, "m2")) = <<Answer(ap, "ack")>> \o <<Answer(ap, "m3")>>
        BY <1>4, RepliesOf
    <3> QED BY <1>1, <3>1
  <2>5. Answers(To(ap, "assoc"), Answer(ap, "assoc"))
    <3>1. CASE ap = "open"
      <4>1. Replies(To(ap, "assoc")) = <<Answer(ap, "ack")>> \o <<Answer(ap, "assoc")>>
          BY <1>4, <3>1, RepliesOf
      <4> QED BY <1>1, <4>1
    <3>2. CASE ap = "wpa2"
      <4>1. Replies(To(ap, "assoc")) =
                <<Answer(ap, "ack")>> \o <<Answer(ap, "assoc"), Answer(ap, "m1")>>
          BY <1>4, <3>2, RepliesOf
      <4> QED BY <1>3, <4>1
    <3> QED BY <3>1, <3>2
  <2> QED BY <2>1, <2>2, <2>3, <2>4, <2>5
<1>6. Replies(To("wpa2", "assoc")) =
          <<Answer("wpa2", "ack")>> \o <<Answer("wpa2", "assoc"), Answer("wpa2", "m1")>>
    BY <1>4, RepliesOf
<1> QED BY <1>3, <1>5, <1>6 DEF Assoc, M1

\* The requests are different frames.
LEMMA RequestsDiffer ==
    /\ \A ap, kind : To(ap, kind) = Ping => ap = "wpa2" /\ kind = "ping"
    /\ To("wpa2", "m4") # Ping
    BY DEF To, Ping

\* A granted kick brings the answers behind the frames that are on the air.
LEMMA GrantedKick ==
    ASSUME StationInv, NEW request \in Request, KickGranted(request), UNCHANGED descriptor
    PROVE  /\ AirGrows
           /\ \A i \in DOMAIN Replies(request) :
                 Len(air) + i \in DOMAIN air' /\ air'[Len(air) + i] = Replies(request)[i]
<1>1. air \in Seq(Received) /\ Replies(request) \in Seq(Received) /\ air' = air \o Replies(request)
    BY RepliesTypes DEF StationInv, Shape, C6StationTypeOK, MacTypes, KickGranted
<1> DEFINE replies == Replies(request)
<1>2. /\ air' \in Seq(Received) /\ Len(air') = Len(air) + Len(replies)
      /\ \A j \in 1..(Len(air) + Len(replies)) :
            air'[j] = IF j <= Len(air) THEN air[j] ELSE replies[j - Len(air)]
    BY <1>1, ConcatProperties
<1>3. /\ Len(air) \in Nat /\ Len(replies) \in Nat /\ DOMAIN air = 1..Len(air)
      /\ DOMAIN replies = 1..Len(replies) /\ DOMAIN air' = 1..(Len(air) + Len(replies))
    BY <1>1, <1>2, LenProperties
<1> HIDE DEF replies
<1>4. \A i \in DOMAIN air : i \in DOMAIN air' /\ air'[i] = air[i]
    BY <1>2, <1>3
<1>5. \A i \in DOMAIN replies : /\ Len(air) + i \in 1..(Len(air) + Len(replies))
                                /\ ~(Len(air) + i <= Len(air)) /\ (Len(air) + i) - Len(air) = i
    BY <1>3
<1>6. \A i \in DOMAIN replies : Len(air) + i \in DOMAIN air' /\ air'[Len(air) + i] = replies[i]
    BY <1>2, <1>3, <1>5
<1> QED BY <1>4, <1>6 DEF AirGrows, replies

\* Steps that move the firmware between two labels of the main loop, and neither
\* call, nor take a frame, nor change what is waited for.
LoopLabel == {"poll", "uart", "station", "wpa2"}

LEMMA ExchangeLoop ==
    ASSUME ExchangeShape, AnswerComing, FirstMessageComing,
           at \in LoopLabel, at' \in LoopLabel,
           UNCHANGED <<descriptor, air, frontend, sends, return, station, wpa2, started, received,
                       configured>>,
           InHand(Awaited) => InHand(Awaited)',
           \/ at = "station" /\ at' = "wpa2"
           \/ at \notin {"station", "wpa2"} \/ received # Assoc
           \/ ~started \/ wpa2 # "ASSOCIATING"
    PROVE  ExchangeShape' /\ AnswerComing' /\ FirstMessageComing'
<1>1. Awaited' = Awaited
    BY DEF Awaited
<1>2. ~Busy /\ ~Busy' /\ Needed = Awaited /\ Needed' = Awaited
    BY <1>1 DEF Busy, Needed, LoopLabel
<1>3. ExchangeShape'
    BY DEF ExchangeShape, LoopLabel
<1>4. AnswerComing'
  <2>1. PICK frame : frame = Awaited
      OBVIOUS
  <2>2. Coming(frame) => Coming(frame)'
      BY DEF Coming, InAir, Held
  <2>3. Coming(frame) \/ InHand(frame)
      BY <1>2, <2>1 DEF AnswerComing, LoopLabel
  <2>4. InHand(frame) => InHand(frame)'
      BY <1>1, <2>1 DEF InHand
  <2>5. frame = Needed'
      BY <1>2, <2>1
  <2>6. Coming(frame)' \/ InHand(frame)'
      BY <2>2, <2>3, <2>4
  <2> QED BY <2>5, <2>6 DEF AnswerComing, Coming, InAir, Held, InHand
<1>5. FirstMessageComing'
  <2> SUFFICES ASSUME started, wpa2 = "ASSOCIATING" PROVE M1Follows'
      BY DEF FirstMessageComing
  <2>1. M1Follows
      BY DEF FirstMessageComing, LoopLabel
  <2> QED BY <2>1 DEF M1Follows, Held, InAir, Coming, LoopLabel
<1> QED BY <1>3, <1>4, <1>5

\* A call begins: the exchange asks for what it waits for next.
LEMMA ExchangeSend ==
    ASSUME ExchangeShape, NEW request \in Request, NEW label, Send(<<request>>, label),
           UNCHANGED <<descriptor, frontend, configured>>,
           started' => station' = "ASSOCIATED" /\ wpa2' # "IDLE",
           ~started' => wpa2' = "IDLE",
           request # Ping, Answers(request, Awaited'),
           started' /\ wpa2' = "ASSOCIATING" => request = To("wpa2", "assoc")
    PROVE  ExchangeShape' /\ AnswerComing' /\ FirstMessageComing'
<1>1. at' = "kick" /\ Len(sends') = 1 /\ sends'[1] = request
    BY DEF Send
<1>2. Calling'
    BY <1>1 DEF Calling, Answers
<1> QED BY <1>1, <1>2 DEF ExchangeShape, AnswerComing, FirstMessageComing

\* c6_mac_tx_frame.
LEMMA ExchangeTx ==
    ASSUME StationInv, Quiet, Quiet', ExchangeShape, AnswerComing, FirstMessageComing,
           NotReady \/ TxKick \/ TxWait \/ TxRelease
    PROVE  ExchangeShape' /\ AnswerComing' /\ FirstMessageComing'
<1>0. /\ sends \in Seq(Request) /\ return \in {"poll", "station", "wpa2", "uart"}
      /\ at \in {"kick", "wait", "release"} => sends # << >>
    BY DEF StationInv, Shape, C6StationTypeOK, CallShape
<1>1. CASE NotReady
    BY <1>1 DEF NotReady, Ready, ExchangeShape
<1>2. CASE TxKick
  <2>1. /\ at = "kick" /\ at' = "wait" /\ Kick(Head(sends)) /\ Calling /\ Head(sends) = sends[1]
        /\ UNCHANGED <<sends, return, station, wpa2, started, received, configured>>
        /\ Head(sends) \in Request
      BY <1>0, <1>2, SequenceDomain DEF TxKick, ExchangeShape
  <2>2. KickGranted(sends[1]) /\ UNCHANGED <<descriptor, frontend>>
      BY <2>1 DEF Kick, Refused, KickDenied, Quiet
  <2>3. \A i \in DOMAIN Replies(sends[1]) :
            Len(air) + i \in DOMAIN air' /\ air'[Len(air) + i] = Replies(sends[1])[i]
      BY <2>1, <2>2, GrantedKick
  <2>4. ASSUME NEW frame, Answers(sends[1], frame) PROVE InAir(frame)'
      BY <2>3, <2>4 DEF Answers, InAir
  <2>5. Awaited' = Awaited /\ Busy'
      BY <2>1 DEF Awaited, Busy
  <2>6. Calling'
      BY <2>1, <2>5 DEF Calling, Answers
  <2>7. ExchangeShape'
      BY <2>1, <2>2, <2>6 DEF ExchangeShape
  <2>8. AnswerComing'
    <3> SUFFICES ASSUME Len(sends) # 2 PROVE Coming(Needed)'
        BY <2>1, <2>5 DEF AnswerComing
    <3>1. CASE sends[1] = Ping
      <4>1. Answers(Ping, Pong)
          BY ExchangeAnswers DEF Ping, Pong
      <4>2. InAir(Pong)'
          BY <2>4, <3>1, <4>1
      <4>3. Needed' = Pong
          BY <2>1, <2>5, <3>1 DEF Needed
      <4> QED BY <4>2, <4>3 DEF Coming, InAir
    <3>2. CASE sends[1] # Ping
      <4>1. PICK frame : frame = Awaited /\ Answers(sends[1], frame)
          BY <2>1, <3>2 DEF Calling
      <4>2. InAir(frame)'
          BY <2>4, <4>1
      <4>3. Needed' = frame
          BY <2>1, <2>5, <3>2, <4>1 DEF Needed
      <4> QED BY <4>2, <4>3 DEF Coming, InAir
    <3> QED BY <3>1, <3>2
  <2>9. FirstMessageComing'
    <3> SUFFICES ASSUME started, wpa2 = "ASSOCIATING" PROVE M1Follows'
        BY <2>1 DEF FirstMessageComing
    <3>1. sends[1] = To("wpa2", "assoc")
        BY <2>1 DEF Calling
    <3>2. /\ Len(air) + 2 \in DOMAIN air' /\ air'[Len(air) + 2] = Assoc
          /\ Len(air) + 3 \in DOMAIN air' /\ air'[Len(air) + 3] = M1
        BY <2>3, <3>1, ExchangeAnswers
    <3>3. Len(air) + 2 < Len(air) + 3
      <4>1. Len(air) \in Nat
          BY LenProperties DEF StationInv, Shape, C6StationTypeOK, MacTypes
      <4> QED BY <4>1
    <3> QED BY <3>2, <3>3 DEF M1Follows
  <2> QED BY <2>7, <2>8, <2>9
<1>3. CASE TxWait
  <2>1. /\ at = "wait" /\ at' = "release"
        /\ UNCHANGED <<descriptor, air, frontend, sends, return, station, wpa2, started, received,
                       configured>>
      BY <1>3 DEF TxWait
  <2>2. Awaited' = Awaited /\ Busy /\ Busy'
      BY <2>1 DEF Awaited, Busy
  <2>3. Needed' = Needed
      BY <2>1, <2>2 DEF Needed
  <2>4. Calling => Calling'
      BY <2>1, <2>2 DEF Calling, Answers
  <2>5. ExchangeShape'
      BY <2>1, <2>4 DEF ExchangeShape
  <2>6. AnswerComing'
      BY <2>1, <2>2, <2>3 DEF AnswerComing, Coming, InAir, Held, InHand
  <2>7. FirstMessageComing'
      BY <2>1 DEF FirstMessageComing, M1Follows, Held, InAir, Coming
  <2> QED BY <2>5, <2>6, <2>7
<1>4. CASE TxRelease
  <2>1. /\ at = "release" /\ sends' = Tail(sends) /\ at' = IF Len(sends) > 1 THEN "kick" ELSE return
        /\ wpa2' = IF sends[1] = Ping THEN "WAIT_CCMP" ELSE wpa2
        /\ UNCHANGED <<descriptor, air, frontend, return, station, started, received, configured>>
        /\ Calling /\ Busy
      BY <1>0, <1>4, SequenceDomain DEF TxRelease, Ping, ExchangeShape, Busy
  <2>2. CASE Len(sends) = 2
    <3>1. sends[1] = To("wpa2", "m4") /\ sends[2] = Ping /\ started /\ wpa2 = "WAIT_M3"
        BY <2>1, <2>2 DEF Calling
    <3>2. at' = "kick" /\ UNCHANGED wpa2
        BY <2>1, <2>2, <3>1, RequestsDiffer
    <3>3. Len(sends') = 1 /\ sends'[1] = Ping
      <4>1. sends # << >>
          BY <1>0, <2>1
      <4>2. /\ Len(Tail(sends)) = Len(sends) - 1
            /\ \A i \in 1..Len(Tail(sends)) : Tail(sends)[i] = sends[i + 1]
          BY <1>0, <4>1, HeadTailProperties
      <4>3. Len(Tail(sends)) = 1
          BY <2>2, <4>2
      <4>4. Tail(sends)[1] = sends[1 + 1]
          BY <4>2, <4>3
      <4> QED BY <2>1, <3>1, <4>3, <4>4
    <3>4. Calling'
        BY <2>1, <3>1, <3>2, <3>3 DEF Calling
    <3> QED BY <2>1, <3>2, <3>4 DEF ExchangeShape, AnswerComing, FirstMessageComing
  <2>3. CASE Len(sends) = 1
    <3>1. at' = return /\ at' \in LoopLabel /\ ~Busy'
        BY <1>0, <2>1, <2>3 DEF LoopLabel, Busy
    <3>2. Needed' = Awaited'
        BY <3>1 DEF Needed
    <3>3. Needed' = Needed
      <4>1. CASE sends[1] = Ping
        <5>1. Needed = Pong
            BY <2>1, <4>1 DEF Needed
        <5>2. started' /\ wpa2' = "WAIT_CCMP"
            BY <2>1, <2>3, <4>1 DEF Calling
        <5> QED BY <3>2, <5>1, <5>2, AwaitedIsTable DEF AwaitedTable
      <4>2. CASE sends[1] # Ping
        <5>1. UNCHANGED <<started, station, wpa2>>
            BY <2>1, <4>2
        <5>2. Awaited' = Awaited
            BY <5>1 DEF Awaited
        <5> QED BY <3>2, <4>2, <5>2 DEF Needed
      <4> QED BY <4>1, <4>2
    <3>4. Coming(Needed)
        BY <2>1, <2>3 DEF AnswerComing, InHand, Busy
    <3>5. AnswerComing'
        BY <2>1, <3>3, <3>4 DEF AnswerComing, Coming, InAir, Held
    <3>6. ExchangeShape'
      <4>1. started => wpa2' # "IDLE"
          BY <2>1 DEF ExchangeShape
      <4>2. ~started => wpa2' = wpa2
          BY <2>1, <2>3 DEF Calling
      <4> QED BY <2>1, <3>1, <4>1, <4>2 DEF ExchangeShape, LoopLabel
    <3>7. FirstMessageComing'
      <4> SUFFICES ASSUME started, wpa2' = "ASSOCIATING" PROVE M1Follows'
          BY <2>1 DEF FirstMessageComing
      <4>1. wpa2 = "ASSOCIATING"
          BY <2>1
      <4>2. M1Follows
          BY <2>1, <4>1 DEF FirstMessageComing
      <4> QED BY <2>1, <4>2 DEF M1Follows, Held, InAir, Coming
    <3> QED BY <3>5, <3>6, <3>7
  <2> QED BY <2>1, <2>2, <2>3 DEF Calling
<1> QED BY <1>1, <1>2, <1>3, <1>4

\* c6_mac_rx_copy, and the arming of the descriptor behind it.
LEMMA ExchangeRx ==
    ASSUME StationInv, Quiet, Quiet', ExchangeShape, AnswerComing, FirstMessageComing,
           PollCopies \/ ClearRxDone \/ RxArm \/ RxBase
    PROVE  ExchangeShape' /\ AnswerComing' /\ FirstMessageComing'
<1>1. /\ at \in {"poll", "clear", "arm", "base"}
      /\ UNCHANGED <<air, sends, station, wpa2, started, configured>>
      /\ at' \notin {"kick", "wait", "release", "poll"} /\ frontend' /\ configured
    BY DEF PollCopies, ClearRxDone, RxArm, RxBase, ExchangeShape
<1>2. Awaited' = Awaited
    BY <1>1 DEF Awaited
<1>3. Needed = Awaited /\ Needed' = Awaited /\ ~Busy /\ ~Busy'
    BY <1>1, <1>2 DEF Needed, Busy
<1>4. ExchangeShape'
  <2>1. CASE PollCopies
      BY <1>1, <2>1 DEF PollCopies, ExchangeShape
  <2>2. CASE ClearRxDone
      BY <1>1, <2>2 DEF ClearRxDone, ExchangeShape
  <2>3. CASE RxArm
      BY <1>1, <2>3 DEF RxArm, ExchangeShape
  <2>4. CASE RxBase
      BY <1>1, <2>4 DEF RxBase, ExchangeShape
  <2> QED BY <2>1, <2>2, <2>3, <2>4
<1>5. AnswerComing'
  <2>1. PICK frame : frame = Awaited /\ frame = Needed'
      BY <1>3
  <2>2. Coming(frame) \/ InHand(frame)
      BY <1>1, <1>3, <2>1 DEF AnswerComing
  <2>3. Coming(frame)' \/ InHand(frame)'
    <3>1. CASE PollCopies
        BY <2>2, <3>1 DEF PollCopies, Coming, InAir, Held, InHand
    <3>2. CASE ClearRxDone
        BY <2>2, <3>2 DEF ClearRxDone, Coming, InAir, Held, InHand
    <3>3. CASE RxArm
        BY <2>2, <3>3 DEF RxArm, Coming, InAir, Held, InHand, ExchangeShape
    <3>4. CASE RxBase
        BY <2>2, <3>4 DEF RxBase, Coming, InAir, Held, InHand, ExchangeShape
    <3> QED BY <3>1, <3>2, <3>3, <3>4
  <2> QED BY <2>1, <2>3 DEF AnswerComing, Coming, InAir, Held, InHand
<1>6. FirstMessageComing'
  <2> SUFFICES ASSUME started, wpa2 = "ASSOCIATING" PROVE M1Follows'
      BY <1>1 DEF FirstMessageComing
  <2>1. M1Follows
      BY <1>1 DEF FirstMessageComing
  <2>2. CASE PollCopies
      BY <2>1, <2>2 DEF PollCopies, M1Follows, Coming, InAir, Held
  <2>3. CASE ClearRxDone
      BY <2>1, <2>3 DEF ClearRxDone, M1Follows, Coming, InAir, Held
  <2>4. CASE RxArm
      BY <2>1, <2>4 DEF RxArm, M1Follows, Coming, InAir, Held, ExchangeShape
  <2>5. CASE RxBase
      BY <2>1, <2>5 DEF RxBase, M1Follows, Coming, InAir, Held, ExchangeShape
  <2> QED BY <2>2, <2>3, <2>4, <2>5
<1> QED BY <1>4, <1>5, <1>6

\* c6_station_receive.
LEMMA ExchangeStation ==
    ASSUME StationInv, Quiet, Quiet', ExchangeShape, AnswerComing, FirstMessageComing,
           StationAdvances \/ StationReached \/ StationIgnores
    PROVE  ExchangeShape' /\ AnswerComing' /\ FirstMessageComing'
<1>0. station \in StationState /\ wpa2 \in Wpa2State
    BY DEF StationInv, Shape, C6StationTypeOK
<1>1. CASE StationAdvances
  <2>1. ~started /\ station \in {"SCANNING", "AUTHENTICATING", "ASSOCIATING"}
      BY <1>1 DEF StationAdvances, StationRow, ExchangeShape
  <2>2. /\ station' = StationRow[station].next
        /\ Send(<<To("open", StationRow[station].send)>>, "wpa2")
        /\ UNCHANGED <<descriptor, frontend, configured, started, wpa2>>
      BY <1>1 DEF StationAdvances, mac_vars
  <2> DEFINE kind == StationRow[station].send
  <2>3. /\ station = "SCANNING" => kind = "auth" /\ station' = "AUTHENTICATING"
        /\ station = "AUTHENTICATING" => kind = "assoc" /\ station' = "ASSOCIATING"
        /\ station = "ASSOCIATING" => kind = "ping" /\ station' = "ASSOCIATED"
      BY <2>2 DEF StationRow
  <2>4. /\ station = "SCANNING" => Awaited' = Answer("open", "auth")
        /\ station = "AUTHENTICATING" => Awaited' = Answer("open", "assoc")
        /\ station = "ASSOCIATING" => Awaited' = Answer("open", "pong")
      BY <2>1, <2>2, <2>3, AwaitedIsTable DEF AwaitedTable
  <2> HIDE DEF kind
  <2>5. Answers(To("open", kind), Awaited')
      BY <2>1, <2>3, <2>4, ExchangeAnswers
  <2>6. To("open", kind) \in Request /\ To("open", kind) # Ping
    <3>1. kind \in RequestKind
        BY <2>1, <2>3 DEF RequestKind
    <3> QED BY <3>1, RequestTypes, RequestsDiffer DEF AccessPoint
  <2>7. Send(<<To("open", kind)>>, "wpa2")
      BY <2>2 DEF kind
  <2>8. ~started' /\ wpa2' = "IDLE"
      BY <2>1, <2>2 DEF ExchangeShape
  <2> QED BY <2>2, <2>5, <2>6, <2>7, <2>8, ExchangeSend
<1>2. CASE StationReached /\ ~started
  <2>1. /\ started' /\ wpa2' = "SCANNING" /\ station = "ASSOCIATED" /\ UNCHANGED station
        /\ Send(<<To("wpa2", "probe")>>, "wpa2")
        /\ UNCHANGED <<descriptor, frontend, configured>>
      BY <1>2 DEF StationReached, StationPong
  <2>2. Awaited' = Answer("wpa2", "probe")
      BY <2>1, AwaitedIsTable DEF AwaitedTable
  <2>3. Answers(To("wpa2", "probe"), Awaited')
      BY <2>2, ExchangeAnswers
  <2>4. To("wpa2", "probe") \in Request /\ To("wpa2", "probe") # Ping
      BY RequestTypes, RequestsDiffer DEF AccessPoint, RequestKind
  <2> QED BY <2>1, <2>3, <2>4, ExchangeSend
<1>3. CASE (StationReached /\ started) \/ StationIgnores
  <2>1. /\ at = "station" /\ at' = "wpa2"
        /\ UNCHANGED <<descriptor, air, frontend, sends, return, station, wpa2, started, received,
                       configured>>
      BY <1>3 DEF StationReached, StationPong, StationIgnores, mac_vars
  <2>2. ~started => received # Awaited
    <3> SUFFICES ASSUME ~started PROVE received # Awaited
        OBVIOUS
    <3>1. StationIgnores
        BY <1>3
    <3>2. /\ station = "SCANNING" => received # Answer("open", "probe")
          /\ station = "AUTHENTICATING" => received # Answer("open", "auth")
          /\ station = "ASSOCIATING" => received # Answer("open", "assoc")
          /\ station = "ASSOCIATED" => received # Answer("open", "pong")
        BY <3>1 DEF StationIgnores, StationPong, StationRow
    <3> QED BY <1>0, <3>2, AwaitedIsTable DEF AwaitedTable, StationState
  <2>3. InHand(Awaited) => InHand(Awaited)'
    <3>1. Awaited' = Awaited
        BY <2>1 DEF Awaited
    <3> QED BY <2>1, <2>2, <3>1 DEF InHand
  <2> QED BY <2>1, <2>3, ExchangeLoop DEF LoopLabel
<1> QED BY <1>1, <1>2, <1>3

\* c6_wpa2_receive.
LEMMA ExchangeWpa2 ==
    ASSUME StationInv, Quiet, Quiet', ExchangeShape, AnswerComing, FirstMessageComing,
           Wpa2Advances \/ Wpa2Keys \/ Wpa2Reached \/ Wpa2Ignores
    PROVE  ExchangeShape' /\ AnswerComing' /\ FirstMessageComing'
<1>0. station \in StationState /\ wpa2 \in Wpa2State /\ at = "wpa2"
    BY DEF StationInv, Shape, C6StationTypeOK, Wpa2Advances, Wpa2Keys, Wpa2Reached, Wpa2Ignores
<1>1. CASE Wpa2Advances /\ wpa2 # "ASSOCIATING"
  <2>1. started /\ wpa2 \in {"SCANNING", "AUTHENTICATING", "WAIT_M1"}
      BY <1>1 DEF Wpa2Advances, Wpa2Row, ExchangeShape
  <2>2. station = "ASSOCIATED" /\ UNCHANGED <<descriptor, frontend, configured, started, station>>
      BY <1>1, <2>1 DEF Wpa2Advances, mac_vars, ExchangeShape
  <2>3. \E kind \in {"auth", "assoc", "m2"} :
            /\ wpa2 = "SCANNING" => kind = "auth" /\ wpa2' = "AUTHENTICATING"
            /\ wpa2 = "AUTHENTICATING" => kind = "assoc" /\ wpa2' = "ASSOCIATING"
            /\ wpa2 = "WAIT_M1" => kind = "m2" /\ wpa2' = "WAIT_M3"
            /\ Send(<<To("wpa2", kind)>>, "uart")
    <3>1. /\ wpa2' = Wpa2Row[wpa2].next
          /\ Wpa2Row[wpa2].send # << >> => Send(Wpa2Row[wpa2].send, "uart")
        BY <1>1 DEF Wpa2Advances
    <3>2. /\ wpa2 = "SCANNING" => /\ Wpa2Row[wpa2].next = "AUTHENTICATING"
                                  /\ Wpa2Row[wpa2].send = <<To("wpa2", "auth")>>
          /\ wpa2 = "AUTHENTICATING" => /\ Wpa2Row[wpa2].next = "ASSOCIATING"
                                        /\ Wpa2Row[wpa2].send = <<To("wpa2", "assoc")>>
          /\ wpa2 = "WAIT_M1" => /\ Wpa2Row[wpa2].next = "WAIT_M3"
                                 /\ Wpa2Row[wpa2].send = <<To("wpa2", "m2")>>
        BY DEF Wpa2Row
    <3>3. \A a : <<a>> # << >>
        OBVIOUS
    <3> HIDE DEF Send, To
    <3> QED BY <2>1, <3>1, <3>2, <3>3
  <2>4. PICK kind \in {"auth", "assoc", "m2"} :
            /\ wpa2 = "SCANNING" => kind = "auth" /\ wpa2' = "AUTHENTICATING"
            /\ wpa2 = "AUTHENTICATING" => kind = "assoc" /\ wpa2' = "ASSOCIATING"
            /\ wpa2 = "WAIT_M1" => kind = "m2" /\ wpa2' = "WAIT_M3"
            /\ Send(<<To("wpa2", kind)>>, "uart")
      BY <2>3
  <2>5. /\ kind = "auth" => Awaited' = Answer("wpa2", "auth")
        /\ kind = "assoc" => Awaited' = Answer("wpa2", "assoc")
        /\ kind = "m2" => Awaited' = Answer("wpa2", "m3")
      BY <2>1, <2>2, <2>4, AwaitedIsTable DEF AwaitedTable, Assoc
  <2>6. Answers(To("wpa2", kind), Awaited')
      BY <2>5, ExchangeAnswers
  <2>7. To("wpa2", kind) \in Request /\ To("wpa2", kind) # Ping
      BY RequestTypes, RequestsDiffer DEF AccessPoint, RequestKind
  <2>8. wpa2' # "IDLE" /\ (wpa2' = "ASSOCIATING" => kind = "assoc")
      BY <2>1, <2>4
  <2> QED BY <2>1, <2>2, <2>4, <2>6, <2>7, <2>8, ExchangeSend
<1>2. CASE Wpa2Advances /\ wpa2 = "ASSOCIATING"
  <2>1. /\ wpa2' = "WAIT_M1" /\ at' = "uart"
        /\ UNCHANGED <<descriptor, air, frontend, configured, started, station, sends, return>>
    <3>1. Wpa2Row[wpa2].next = "WAIT_M1" /\ Wpa2Row[wpa2].send = << >>
        BY <1>2 DEF Wpa2Row
    <3> QED BY <1>2, <3>1 DEF Wpa2Advances, mac_vars
  <2>2. started
      BY <1>2 DEF ExchangeShape
  <2>3. Coming(M1)
    <3>1. M1Follows
        BY <1>0, <1>2, <2>2 DEF FirstMessageComing
    <3> QED BY <3>1 DEF M1Follows, Coming, InAir
  <2>4. Needed' = M1
      BY <2>1, <2>2, AwaitedIsTable DEF Needed, Busy, AwaitedTable
  <2>5. AnswerComing'
      BY <2>1, <2>3, <2>4 DEF AnswerComing, Coming, InAir, Held
  <2>6. ExchangeShape' /\ FirstMessageComing'
      BY <2>1, <2>2 DEF ExchangeShape, FirstMessageComing
  <2> QED BY <2>5, <2>6
<1>3. CASE Wpa2Keys
  <2>1. /\ wpa2 = "WAIT_M3" /\ at' = "kick" /\ sends' = <<To("wpa2", "m4"), To("wpa2", "ping")>>
        /\ UNCHANGED <<descriptor, frontend, configured, started, station, wpa2>>
      BY <1>3 DEF Wpa2Keys, Send
  <2>2. started
      BY <2>1 DEF ExchangeShape
  <2>3. Len(sends') = 2 /\ sends'[1] = To("wpa2", "m4") /\ sends'[2] = Ping
    <3>1. \A a, b : Len(<<a, b>>) = 2 /\ <<a, b>>[1] = a /\ <<a, b>>[2] = b
        OBVIOUS
    <3> QED BY <2>1, <3>1 DEF Ping
  <2>4. Calling'
      BY <2>1, <2>2, <2>3 DEF Calling
  <2> QED BY <2>1, <2>4 DEF ExchangeShape, AnswerComing, FirstMessageComing
<1>4. CASE Wpa2Reached
    BY <1>4 DEF Wpa2Reached, Quiet
<1>5. CASE Wpa2Ignores
  <2>1. /\ at' = "uart"
        /\ UNCHANGED <<descriptor, air, frontend, sends, return, station, wpa2, started, received,
                       configured>>
      BY <1>5 DEF Wpa2Ignores, mac_vars
  <2>2. started => received # Awaited
    <3>1. /\ wpa2 = "SCANNING" => received # Answer("wpa2", "probe")
          /\ wpa2 = "AUTHENTICATING" => received # Answer("wpa2", "auth")
          /\ wpa2 = "ASSOCIATING" => received # Assoc
          /\ wpa2 = "WAIT_M1" => received # M1
          /\ wpa2 = "WAIT_M3" => received # Answer("wpa2", "m3")
          /\ wpa2 = "WAIT_CCMP" => received # Pong
        BY <1>5 DEF Wpa2Ignores, Wpa2Row, Assoc, M1, Pong
    <3> QED BY <1>0, <3>1, AwaitedIsTable DEF AwaitedTable, Wpa2State, ExchangeShape
  <2>3. InHand(Awaited) => InHand(Awaited)'
      BY <1>0, <2>2 DEF InHand
  <2>4. received # Assoc \/ ~started \/ wpa2 # "ASSOCIATING"
      BY <2>2, AwaitedIsTable DEF AwaitedTable
  <2> QED BY <1>0, <2>1, <2>3, <2>4, ExchangeLoop DEF LoopLabel
<1> QED BY <1>1, <1>2, <1>3, <1>4, <1>5

LEMMA ExchangeFirmware ==
    ASSUME StationInv, ExchangeInv, FirmwareStep PROVE ExchangeInv'
<1> SUFFICES ASSUME Quiet' PROVE ExchangeShape' /\ AnswerComing' /\ FirstMessageComing'
    BY DEF ExchangeInv
<1>1. Quiet
  <2>1. fault = "none" /\ interference \subseteq interference' /\ reached \subseteq reached'
      BY DEF FirmwareStep, NotReady, TxKick, TxWait, TxRelease, PollNothing, PollRejects, PollCopies,
             ClearRxDone, RxArm, RxBase, StationAdvances, StationReached, StationIgnores,
             Wpa2Advances, Wpa2Keys, Wpa2Reached, Wpa2Ignores, NoCommand, mac_vars, Kick, Refused,
             KickDenied, KickGranted
  <2> QED BY <2>1 DEF Quiet
<1>2. ExchangeShape /\ AnswerComing /\ FirstMessageComing
    BY <1>1 DEF ExchangeInv
<1>3. CASE PollNothing \/ PollRejects \/ NoCommand
  <2>1. /\ at \in {"poll", "uart"} /\ at' \in {"poll", "uart"}
        /\ UNCHANGED <<descriptor, air, frontend, sends, return, station, wpa2, started, received,
                       configured>>
      BY <1>3 DEF PollNothing, PollRejects, NoCommand, mac_vars
  <2>2. ~InHand(Awaited)
      BY <2>1 DEF InHand
  <2> QED BY <1>2, <2>1, <2>2, ExchangeLoop DEF LoopLabel
<1> QED BY <1>1, <1>2, <1>3, ExchangeTx, ExchangeRx, ExchangeStation, ExchangeWpa2 DEF FirmwareStep

\* No retry exists anywhere, and yet the exchange cannot stall by itself: unless
\* something from outside interfered, the awaited answer is on the air, in memory
\* or in the hands of the firmware, whatever a scenario injects.
THEOREM AnswerCorrect == StationSpec => []AnswerOnItsWay
<1>1. StationInit => ExchangeInv
  <2> SUFFICES ASSUME StationInit PROVE ExchangeInv
      OBVIOUS
  <2>1. /\ at = "kick" /\ sends = <<To("open", "probe")>> /\ station = "SCANNING" /\ wpa2 = "IDLE"
        /\ ~started /\ configured /\ frontend
      BY DEF StationInit, MacInit
  <2>2. Len(sends) = 1 /\ sends[1] = To("open", "probe")
      BY <2>1
  <2>3. Answers(sends[1], Awaited)
      BY <2>1, <2>2, AwaitedIsTable, ExchangeAnswers DEF AwaitedTable
  <2>4. Calling
      BY <2>1, <2>2, <2>3, RequestsDiffer DEF Calling
  <2> QED BY <2>1, <2>4 DEF ExchangeInv, ExchangeShape, AnswerComing, FirstMessageComing
<1>2. StationInv /\ ExchangeInv /\ [StationNext]_station_vars => ExchangeInv'
  <2> SUFFICES ASSUME StationInv, ExchangeInv, [StationNext]_station_vars PROVE ExchangeInv'
      OBVIOUS
  <2>1. CASE HostStep
      BY <2>1 DEF HostStep, Command, CommandRxStart, CommandRxStop, CommandTx, CommandTune,
                  CommandReset, CommandInit, Executing, ExchangeInv, Quiet
  <2>2. CASE UNCHANGED station_vars
      BY <2>2 DEF station_vars, mac_vars, firmware_vars, ExchangeInv, Quiet, ExchangeShape, Calling,
                  Answers, AnswerComing, FirstMessageComing, M1Follows, Coming, InAir, Held, InHand,
                  Needed, Busy, Awaited
  <2> QED BY <2>1, <2>2, ExchangeFirmware, ExchangeMachine DEF StationNext
<1>3. StationInv /\ ExchangeInv => AnswerOnItsWay
  <2> SUFFICES ASSUME StationInv, ExchangeInv, Quiet, at \notin {"kick", "wait"},
                      ~(at = "release" /\ wpa2 = "WAIT_M3")
               PROVE  \/ \E i \in DOMAIN air : air[i] = Awaited
                      \/ descriptor = [state |-> "filled", frame |-> Awaited]
                      \/ /\ received = Awaited
                         /\ at \in {"clear", "arm", "base", "station", "wpa2"}
      BY DEF AnswerOnItsWay, Quiet
  <2>1. ExchangeShape /\ AnswerComing
      BY DEF ExchangeInv
  <2>2. at = "release" => Len(sends) = 1 /\ sends[1] # Ping
      BY <2>1 DEF ExchangeShape, Calling
  <2>3. Needed = Awaited /\ (Coming(Awaited) \/ InHand(Awaited))
      BY <2>1, <2>2 DEF Needed, Busy, AnswerComing
  <2>4. Held(Awaited) => descriptor = [state |-> "filled", frame |-> Awaited]
      BY DEF Held, StationInv, Shape, C6StationTypeOK, MacTypes
  <2> QED BY <2>3, <2>4 DEF Coming, InAir, InHand
<1> QED BY <1>1, <1>2, <1>3, StationInvariant, PTL DEF StationSpec
=============================================================================
