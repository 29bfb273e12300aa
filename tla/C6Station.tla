------------------------------ MODULE C6Station ------------------------------
(***************************************************************************)
(* The project's own Wi-Fi station for the ESP32-C6                         *)
(* (qualification/radio/c6-rf-probe): the main loop with its UART commands  *)
(* (main.c), the MAC driver (hal/c6/mac.c, dma.c, phy.c, rf.c), the         *)
(* open-system exchange (station.c) and the WPA2 exchange (wpa2.c), on the  *)
(* MAC of module C6WifiMac.                                                 *)
(*                                                                          *)
(* The firmware is one thread that polls.  One action is the code between   *)
(* two accesses that the machine can tell apart, so that frames arrive,     *)
(* deadlines pass and acknowledgements end between any two of them.         *)
(***************************************************************************)
EXTENDS C6WifiMac

CONSTANT MaxCommands        \* UART commands given

ASSUME MaxCommandsAssumption == MaxCommands \in Nat

VARIABLES
    at,             \* where the main loop is
    sends,          \* c6_mac_tx_frame: the frames to send, the current one first
    return,         \* where the code goes on after a call of the driver
    station,        \* station.c: state
    wpa2,           \* wpa2.c: state
    started,        \* main.c: wpa2_started
    received,       \* main.c: received_frame
    configured,     \* rf.c: active_channel and active_power are set
    commands,       \* history: the commands executed
    wasReset,       \* history: a command has reset the MAC
    listening,      \* history: the driver has armed the receiver, nobody stopped it
    reached         \* history: L2_RX and CCMP_RX checkpoints

firmware_vars == <<at, sends, return, station, wpa2, started, received, configured, commands,
                   wasReset, listening, reached>>
station_vars == <<mac_vars, firmware_vars>>

Label == {"poll", "clear", "arm", "base", "station", "wpa2", "uart", "kick", "wait", "release"}
StationState == {"SCANNING", "AUTHENTICATING", "ASSOCIATING", "ASSOCIATED"}
Wpa2State == {"IDLE", "SCANNING", "AUTHENTICATING", "ASSOCIATING", "WAIT_M1", "WAIT_M3", "WAIT_CCMP"}

\* Types of the MAC, the machine and the firmware.
C6StationTypeOK ==
    /\ MacTypes
    /\ at \in Label
    /\ sends \in Seq(Request)
    /\ return \in Label
    /\ station \in StationState
    /\ wpa2 \in Wpa2State
    /\ started \in BOOLEAN
    /\ received \in Received \cup {None}
    /\ configured \in BOOLEAN
    /\ commands \in 0..MaxCommands
    /\ wasReset \in BOOLEAN
    /\ listening \in BOOLEAN
    /\ reached \in SUBSET {"L2", "CCMP"}

To(ap, kind) == [to |-> ap, kind |-> kind]

\* The end of self_test: c6_mac_rx_start, then c6_station_start.
StationInit ==
    /\ MacInit
    /\ at = "kick" /\ sends = <<To("open", "probe")>> /\ return = "poll"
    /\ station = "SCANNING" /\ wpa2 = "IDLE" /\ started = FALSE
    /\ received = None
    /\ configured = TRUE
    /\ commands = 0 /\ wasReset = FALSE /\ listening = TRUE /\ reached = {}

-----------------------------------------------------------------------------
(* hal/c6/mac.c: transmission *)

\* c6_rf_ready: rx_enabled follows the frontend register.
Ready == configured /\ frontend

\* The exchange sends these frames one after the other and goes on at `label'.
Send(frames, label) ==
    /\ at' = "kick"
    /\ sends' = frames
    /\ return' = label

NotReady ==
    /\ at = "kick" /\ ~Ready
    /\ at' = return
    /\ sends' = << >>
    /\ UNCHANGED <<mac_vars, return, station, wpa2, started, received, configured, commands,
                   wasReset, listening, reached>>

TxKick ==
    /\ at = "kick" /\ Ready
    /\ Kick(Head(sends))
    /\ at' = "wait"
    /\ UNCHANGED <<sends, return, station, wpa2, started, received, configured, commands, wasReset,
                   listening, reached>>

TxWait_Acknowledged ==
    /\ at = "wait"
    /\ mac.txDone /\ mac.queueState /\ mac.status = "success"
    /\ mac' = [mac EXCEPT !.txDone = FALSE]
    /\ at' = "release"
    /\ UNCHANGED <<descriptor, pendingTx, ownAck, air, frontend, fault, losses, foreign, unread,
                   interference, sends, return, station, wpa2, started, received, configured,
                   commands, wasReset, listening, reached>>

\* The poll that finds both the event and the queue bit clears the event.
TxWait ==
    /\ at = "wait"
    /\ mac.txDone /\ mac.queueState
    /\ mac' = [mac EXCEPT !.txDone = FALSE]
    /\ at' = "release"
    /\ UNCHANGED <<descriptor, pendingTx, ownAck, air, frontend, fault, losses, foreign, unread,
                   interference, sends, return, station, wpa2, started, received, configured,
                   commands, wasReset, listening, reached>>

TxRelease_FirstOnly ==
    /\ at = "release"
    /\ mac' = [mac EXCEPT !.queueState = FALSE]
    /\ sends' = << >>
    /\ at' = return
    /\ wpa2' = IF Head(sends) = To("wpa2", "ping") THEN "WAIT_CCMP" ELSE wpa2
    /\ UNCHANGED <<descriptor, pendingTx, ownAck, air, frontend, fault, losses, foreign, unread,
                   interference, return, station, started, received, configured, commands,
                   wasReset, listening, reached>>

\* STATE_CLEAR, C6_MAC_OK, and the caller's next send or return.  The state
\* WAIT_CCMP is entered only after the last of its two sends.
TxRelease ==
    /\ at = "release"
    /\ mac' = [mac EXCEPT !.queueState = FALSE]
    /\ sends' = Tail(sends)
    /\ at' = IF Len(sends) > 1 THEN "kick" ELSE return
    /\ wpa2' = IF Head(sends) = To("wpa2", "ping") THEN "WAIT_CCMP" ELSE wpa2
    /\ UNCHANGED <<descriptor, pendingTx, ownAck, air, frontend, fault, losses, foreign, unread,
                   interference, return, station, started, received, configured, commands,
                   wasReset, listening, reached>>

-----------------------------------------------------------------------------
(* hal/c6/mac.c: reception *)

PollNothing ==
    /\ at = "poll" /\ ~mac.rxDone
    /\ at' = "uart"
    /\ UNCHANGED <<mac_vars, sends, return, station, wpa2, started, received, configured, commands,
                   wasReset, listening, reached>>

\* The descriptor is complete and its frame fits into the caller's buffer.
Copyable == descriptor.state = "filled" /\ descriptor.frame.kind # "long"

\* C6_MAC_INVALID_RX_DESCRIPTOR and C6_MAC_BUFFER_TOO_SMALL: neither clears the
\* event nor arms the descriptor.
PollRejects ==
    /\ at = "poll" /\ mac.rxDone
    /\ ~Copyable
    /\ at' = "uart"
    /\ UNCHANGED <<mac_vars, sends, return, station, wpa2, started, received, configured, commands,
                   wasReset, listening, reached>>

PollCopies ==
    /\ at = "poll" /\ mac.rxDone
    /\ Copyable
    /\ received' = descriptor.frame
    /\ unread' = unread - 1
    /\ at' = "clear" /\ return' = "station"
    /\ UNCHANGED <<mac, descriptor, pendingTx, ownAck, air, frontend, fault, losses, foreign,
                   interference, sends, station, wpa2, started, configured, commands, wasReset,
                   listening, reached>>

ClearRxDone ==
    /\ at = "clear"
    /\ mac' = [mac EXCEPT !.rxDone = FALSE]
    /\ at' = "arm"
    /\ UNCHANGED <<descriptor, pendingTx, ownAck, air, frontend, fault, losses, foreign, unread,
                   interference, sends, return, station, wpa2, started, received, configured,
                   commands, wasReset, listening, reached>>

\* c6_mac_rx_start: frontend and descriptor, then RX_BASE.  A frame that was
\* not copied yet is given up.
RxArm ==
    /\ at = "arm"
    /\ frontend' = TRUE
    /\ descriptor' = [state |-> "armed", frame |-> None]
    /\ unread' = 0
    /\ at' = "base"
    /\ UNCHANGED <<mac, pendingTx, ownAck, air, fault, losses, foreign, interference, sends, return,
                   station, wpa2, started, received, configured, commands, wasReset, listening,
                   reached>>

RxBaseWritten_Forgotten == mac
RxBaseWritten == [mac EXCEPT !.rxBase = TRUE]

RxBase ==
    /\ at = "base"
    /\ mac' = RxBaseWritten
    /\ listening' = TRUE
    /\ at' = return
    /\ UNCHANGED <<descriptor, pendingTx, ownAck, air, frontend, fault, losses, foreign, unread,
                   interference, sends, return, station, wpa2, started, received, configured,
                   commands, wasReset, reached>>

-----------------------------------------------------------------------------
(* station.c and wpa2.c: what a state waits for, and what follows *)

\* c6_station_receive, up to the association.
StationRow ==
    [SCANNING |-> [reply |-> "probe", next |-> "AUTHENTICATING", send |-> "auth"],
     AUTHENTICATING |-> [reply |-> "auth", next |-> "ASSOCIATING", send |-> "assoc"],
     ASSOCIATING |-> [reply |-> "assoc", next |-> "ASSOCIATED", send |-> "ping"]]

StationAdvances ==
    /\ at = "station"
    /\ station \in DOMAIN StationRow
    /\ received = Answer("open", StationRow[station].reply)
    /\ station' = StationRow[station].next
    /\ Send(<<To("open", StationRow[station].send)>>, "wpa2")
    /\ UNCHANGED <<mac_vars, wpa2, started, received, configured, commands, wasReset, listening,
                   reached>>

StationPong == at = "station" /\ station = "ASSOCIATED" /\ received = Answer("open", "pong")

\* The first C6_STATION_L2_RX starts the WPA2 exchange: c6_wpa2_start.
StationReached ==
    /\ StationPong
    /\ reached' = reached \cup {"L2"}
    /\ \/ /\ started
          /\ at' = "wpa2"
          /\ UNCHANGED <<started, mac, wpa2, sends, return>>
       \/ /\ ~started
          /\ started' = TRUE
          /\ mac' = [mac EXCEPT !.interface = TRUE]
          /\ wpa2' = "SCANNING"
          /\ Send(<<To("wpa2", "probe")>>, "wpa2")
    /\ UNCHANGED <<descriptor, pendingTx, ownAck, air, frontend, fault, losses, foreign, unread,
                   interference, station, received, configured, commands, wasReset, listening>>

StationIgnores ==
    /\ at = "station"
    /\ ~StationPong
    /\ station \in DOMAIN StationRow => received # Answer("open", StationRow[station].reply)
    /\ at' = "wpa2"
    /\ UNCHANGED <<mac_vars, sends, return, station, wpa2, started, received, configured, commands,
                   wasReset, listening, reached>>

\* c6_wpa2_receive, up to M3.
Wpa2Row ==
    [SCANNING |-> [reply |-> "probe", next |-> "AUTHENTICATING", send |-> <<To("wpa2", "auth")>>],
     AUTHENTICATING |-> [reply |-> "auth", next |-> "ASSOCIATING", send |-> <<To("wpa2", "assoc")>>],
     ASSOCIATING |-> [reply |-> "assoc", next |-> "WAIT_M1", send |-> << >>],
     WAIT_M1 |-> [reply |-> "m1", next |-> "WAIT_M3", send |-> <<To("wpa2", "m2")>>]]

Wpa2Advances ==
    /\ at = "wpa2"
    /\ wpa2 \in DOMAIN Wpa2Row
    /\ received = Answer("wpa2", Wpa2Row[wpa2].reply)
    /\ wpa2' = Wpa2Row[wpa2].next
    /\ IF Wpa2Row[wpa2].send = << >>
       THEN at' = "uart" /\ UNCHANGED <<sends, return>>
       ELSE Send(Wpa2Row[wpa2].send, "uart")
    /\ UNCHANGED <<mac_vars, station, started, received, configured, commands, wasReset, listening,
                   reached>>

\* M3 installs the key and sends M4 and the first protected frame.
Installed_Forgotten == mac
Installed == [mac EXCEPT !.key = TRUE]

Wpa2Keys ==
    /\ at = "wpa2"
    /\ wpa2 = "WAIT_M3" /\ received = Answer("wpa2", "m3")
    /\ mac' = Installed
    /\ Send(<<To("wpa2", "m4"), To("wpa2", "ping")>>, "uart")
    /\ UNCHANGED <<descriptor, pendingTx, ownAck, air, frontend, fault, losses, foreign, unread,
                   interference, station, wpa2, started, received, configured, commands, wasReset,
                   listening, reached>>

Wpa2Reached ==
    /\ at = "wpa2"
    /\ wpa2 = "WAIT_CCMP" /\ received = Answer("wpa2", "pong")
    /\ reached' = reached \cup {"CCMP"}
    /\ at' = "uart"
    /\ UNCHANGED <<mac_vars, sends, return, station, wpa2, started, received, configured, commands,
                   wasReset, listening>>

\* Any other frame, the ones that print WPA2_FAILED included.
Wpa2Ignores ==
    /\ at = "wpa2"
    /\ wpa2 \in DOMAIN Wpa2Row => received # Answer("wpa2", Wpa2Row[wpa2].reply)
    /\ wpa2 = "WAIT_M3" => received # Answer("wpa2", "m3")
    /\ wpa2 = "WAIT_CCMP" => received # Answer("wpa2", "pong")
    /\ at' = "uart"
    /\ UNCHANGED <<mac_vars, sends, return, station, wpa2, started, received, configured, commands,
                   wasReset, listening, reached>>

-----------------------------------------------------------------------------
(* main.c: execute *)

NoCommand_Blocks == at = "uart" /\ UNCHANGED station_vars

NoCommand ==
    /\ at = "uart"
    /\ at' = "poll"
    /\ UNCHANGED <<mac_vars, sends, return, station, wpa2, started, received, configured, commands,
                   wasReset, listening, reached>>

Executing ==
    /\ at = "uart"
    /\ commands < MaxCommands
    /\ commands' = commands + 1
    /\ interference' = interference \cup {"host"}
    /\ UNCHANGED <<losses, foreign, station, wpa2, started, received, reached>>

CommandRxStart ==
    /\ Executing
    /\ at' = "arm" /\ return' = "poll"
    /\ UNCHANGED <<mac, descriptor, pendingTx, ownAck, air, frontend, fault, unread, sends,
                   configured, wasReset, listening>>

\* c6_mac_rx_stop.
CommandRxStop ==
    /\ Executing
    /\ mac' = [mac EXCEPT !.rxBase = FALSE]
    /\ frontend' = FALSE
    /\ listening' = FALSE
    /\ at' = "poll"
    /\ UNCHANGED <<descriptor, pendingTx, ownAck, air, fault, unread, sends, return, configured,
                   wasReset>>

CommandTx ==
    /\ Executing
    /\ Send(<<To("nobody", "tagged")>>, "poll")
    /\ UNCHANGED <<mac, descriptor, pendingTx, ownAck, air, frontend, fault, unread, configured,
                   wasReset, listening>>

\* c6_rf_configure: a frame that is on the air ends on another channel or while
\* the frontend is off, or it is not affected.
Retuned == air' \in {air, << >>}

\* CHANNEL and POWER with an accepted argument, after an initialisation.
CommandTune ==
    /\ Executing
    /\ configured
    /\ frontend' = TRUE
    /\ Retuned
    /\ at' = "poll"
    /\ UNCHANGED <<mac, descriptor, pendingTx, ownAck, fault, unread, sends, return, configured,
                   wasReset, listening>>

\* c6_phy_reset_radio with the service that follows the write of the reset: the
\* machine gives up the pending transmission and the grant of the MAC.
ResetRadio ==
    /\ mac' = ResetMac
    /\ pendingTx' = None
    /\ ownAck' = FALSE
    /\ unread' = 0
    /\ wasReset' = TRUE
    /\ listening' = FALSE
    /\ UNCHANGED <<descriptor, fault, sends, return>>

CommandReset ==
    /\ Executing
    /\ ResetRadio
    /\ frontend' = FALSE /\ configured' = FALSE
    /\ at' = "poll"
    /\ UNCHANGED air

\* INIT: reset, c6_mac_init and c6_rf_configure.
CommandInit ==
    /\ Executing
    /\ ResetRadio
    /\ frontend' = TRUE /\ configured' = TRUE
    /\ Retuned
    /\ at' = "poll"

Command == CommandRxStart \/ CommandRxStop \/ CommandTx \/ CommandTune \/ CommandReset \/ CommandInit

-----------------------------------------------------------------------------

FirmwareStep ==
    /\ fault = "none"
    /\ \/ NotReady \/ TxKick \/ TxWait \/ TxRelease
       \/ PollNothing \/ PollRejects \/ PollCopies \/ ClearRxDone \/ RxArm \/ RxBase
       \/ StationAdvances \/ StationReached \/ StationIgnores
       \/ Wpa2Advances \/ Wpa2Keys \/ Wpa2Reached \/ Wpa2Ignores
       \/ NoCommand
HostStep == fault = "none" /\ Command
Machine == MachineStep /\ UNCHANGED firmware_vars
Peer == PeerStep /\ UNCHANGED firmware_vars

StationNext == FirmwareStep \/ HostStep \/ Machine \/ Peer

\* The firmware keeps executing; deadlines pass, acknowledgements end and
\* frames arrive because the simulated time runs with the instructions.
StationFairness ==
    /\ WF_station_vars(FirmwareStep)
    /\ WF_station_vars(Deadline /\ UNCHANGED firmware_vars)
    /\ WF_station_vars((Arrive \/ Miss) /\ UNCHANGED firmware_vars)

StationSpec == StationInit /\ [][StationNext]_station_vars /\ StationFairness

-----------------------------------------------------------------------------
(* Properties *)

\* A kick is answered by exactly one completion, and c6_mac_tx_frame returns on
\* that one.  While it polls, either the machine holds its transmission or the
\* event and the queue bit are both set: it never waits for nothing, which is
\* why C6_MAC_TIMEOUT cannot be returned.  Outside of it no transmission and no
\* completion is left over that a later call could take for its own.
OneCompletionPerKick ==
    fault = "none" =>
        /\ mac.active <=> pendingTx # None
        /\ at = "wait" => mac.active # (mac.txDone /\ mac.queueState)
        /\ at = "wait" /\ mac.active => pendingTx = Head(sends)
        /\ at = "release" => ~mac.active /\ ~mac.txDone
        /\ at \notin {"wait", "release"} => ~mac.active /\ ~mac.txDone /\ ~mac.queueState

\* The run never ends with a hard error of the queue or of the completion, and
\* with one of the key only when a reset took the key away while the exchange
\* went on.
NoHardError == fault = "none" \/ (fault = "key" /\ wasReset)

\* The frames the MAC writes to memory and those c6_mac_rx_copy hands on are the
\* same: none is copied twice, none is overwritten before it was copied, and
\* the event is set exactly as long as there is one to copy, unless a command
\* (RX START, a reset) gave that frame up.
CopiedOnce ==
    /\ unread = IF mac.rxDone /\ descriptor.state = "filled" /\ at # "clear" THEN 1 ELSE 0
    /\ descriptor.state = "filled" /\ ~wasReset => mac.rxDone \/ at = "arm"
    /\ mac.rxDone /\ descriptor.state # "filled" => "host" \in interference

\* A frame longer than the caller's buffer is in the descriptor.  c6_mac_rx_copy
\* returns C6_MAC_BUFFER_TOO_SMALL before it clears the event and arms the
\* descriptor (mac.c:158), so that the receiver is deaf until an RX START.
OversizedBlocks ==
    mac.rxDone /\ descriptor.state = "filled" /\ descriptor.frame.kind = "long"

ReceiverArmed == mac.rxBase /\ descriptor.state = "armed"

\* An oversized frame is the only thing that leaves a receiver deaf that was
\* started and not stopped.  Otherwise it owns an armed descriptor, or the event
\* is set for a frame that c6_mac_rx_copy will take, or the accesses of that copy
\* or of an RX START that arm it are being made.
ReceiverAlive ==
    listening =>
        \/ ReceiverArmed
        \/ mac.rxDone /\ Copyable
        \/ at \in {"clear", "arm", "base"}
        \/ OversizedBlocks

\* c6_mac_rx_copy ends in c6_mac_rx_start, and the main loop comes back to it
\* whatever it sends in between: a receiver that was started is armed again and
\* again, until it is stopped, the run ends with an error or an oversized frame
\* blocks the descriptor.
ReceiverRearms ==
    (listening /\ fault = "none") ~>
        (ReceiverArmed \/ OversizedBlocks \/ ~listening \/ fault # "none")

\* The answer the exchange waits for.
Awaited ==
    IF started
    THEN IF wpa2 \in DOMAIN Wpa2Row THEN Answer("wpa2", Wpa2Row[wpa2].reply)
         ELSE IF wpa2 = "WAIT_M3" THEN Answer("wpa2", "m3") ELSE Answer("wpa2", "pong")
    ELSE IF station \in DOMAIN StationRow THEN Answer("open", StationRow[station].reply)
         ELSE Answer("open", "pong")

\* No retry exists anywhere, so that one missing answer stops the exchange for
\* good.  Unless the medium lost a frame, a frame found no descriptor, the
\* arbiter refused the firmware's airtime to the MAC's own acknowledgement, an
\* oversized frame blocks the buffer or a command interfered, the awaited
\* answer is on the air, in memory or in the hands of the firmware.
AnswerOnItsWay ==
    \/ interference # {} \/ fault # "none" \/ "CCMP" \in reached
    \/ at \in {"kick", "wait"}
    \/ at = "release" /\ wpa2 = "WAIT_M3"
    \/ \E i \in DOMAIN air : air[i] = Awaited
    \/ descriptor = [state |-> "filled", frame |-> Awaited]
    \/ received = Awaited /\ at \in {"clear", "arm", "base", "station", "wpa2"}

\* The open and then the WPA2 exchange reach CCMP_RX unless something of the
\* above interfered.
ExchangeReachesCcmp == <>("CCMP" \in reached \/ interference # {})
=============================================================================
