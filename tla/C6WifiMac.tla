------------------------------ MODULE C6WifiMac ------------------------------
(***************************************************************************)
(* The native Wi-Fi path of the ESP32-C6 machine under the project's own    *)
(* driver: the registers of the MAC (esp_c6_wifi_mac.rs), what the radio    *)
(* service does with a queue kick, a completion deadline and a received     *)
(* frame (radio_wifi_tx.rs, radio_wifi_completion.rs, radio_receive.rs),    *)
(* and the access points of the peer script.                                *)
(*                                                                          *)
(* There is one transmit queue and one receive descriptor, as the driver    *)
(* uses them.  Time is left out: what takes time is a step of its own       *)
(* (Deadline, OwnAckEnds, Arrive), which may come at any point after its    *)
(* cause.  A frame is who sent or shall get it and its kind.                *)
(***************************************************************************)
EXTENDS Naturals, Sequences

CONSTANTS
    None,           \* no transmission is pending, the buffer holds no frame
    MaxLosses,      \* frames the medium loses
    MaxForeign,     \* frames a scenario adds to those of the access points
    Injected        \* what such a frame may be

VARIABLES
    mac,            \* registers and ownership bits of the MAC
    descriptor,     \* the receive descriptor and the frame in its buffer
    pendingTx,      \* radio_pending_native_wifi
    ownAck,         \* the MAC is sending an acknowledgement of its own
    air,            \* frames on their way to the chip, in the order they end
    frontend,       \* RF_FRONTEND_FORCE lets the receiver be tuned
    fault,          \* the error that ended the run
    \* history, for the bounds and the properties only
    losses, foreign,
    unread,         \* frames written to memory and not yet copied by firmware
    interference    \* what kept an answer of an access point from the firmware

mac_vars == <<mac, descriptor, pendingTx, ownAck, air, frontend, fault,
              losses, foreign, unread, interference>>

AccessPoint == {"open", "wpa2"}
RequestKind == {"probe", "auth", "assoc", "ping", "m2", "m4"}
Request == [to : AccessPoint, kind : RequestKind] \cup [to : {"nobody"}, kind : {"tagged"}]
Received == [from : AccessPoint \cup {"foreign"},
             kind : {"ack", "probe", "auth", "assoc", "m1", "m3", "pong", "beacon", "long"}]

Mac == [active : BOOLEAN, queueState : BOOLEAN, txDone : BOOLEAN, rxDone : BOOLEAN,
        rxBase : BOOLEAN, interface : BOOLEAN, key : BOOLEAN,
        status : {"none", "success", "ack_timeout", "error"}]

MacTypes ==
    /\ mac \in Mac
    /\ descriptor \in [state : {"armed", "filled"}, frame : Received \cup {None}]
    /\ pendingTx \in Request \cup {None}
    /\ ownAck \in BOOLEAN
    /\ air \in Seq(Received)
    /\ frontend \in BOOLEAN
    /\ fault \in {"none", "queue", "completion", "key"}
    /\ losses \in 0..MaxLosses
    /\ foreign \in 0..MaxForeign
    /\ unread \in Nat
    /\ interference \in SUBSET {"lost", "missed", "dropped", "denied", "long", "host"}

ASSUME NoneAssumption == None \notin Request \cup Received
ASSUME InjectedAssumption == Injected \subseteq Received
ASSUME MacBoundsAssumption == MaxLosses \in Nat /\ MaxForeign \in Nat

\* EspC6WifiMacState::reset.
ResetMac == [active |-> FALSE, queueState |-> FALSE, txDone |-> FALSE, rxDone |-> FALSE,
             rxBase |-> FALSE, interface |-> FALSE, key |-> FALSE, status |-> "none"]

\* The driver has armed the receiver and nothing has been sent.
MacInit ==
    /\ mac = [ResetMac EXCEPT !.rxBase = TRUE]
    /\ descriptor = [state |-> "armed", frame |-> None]
    /\ pendingTx = None
    /\ ownAck = FALSE
    /\ air = << >>
    /\ frontend = TRUE
    /\ fault = "none"
    /\ losses = 0 /\ foreign = 0 /\ unread = 0 /\ interference = {}

-----------------------------------------------------------------------------
(* The access points: on_event of the peer script *)

Group(request) == request.kind \in {"probe", "tagged"}

Answer(ap, kind) == [from |-> ap, kind |-> kind]

\* Every unicast frame is acknowledged.  The script keeps no state, and answers
\* a frame that the medium will not deliver as well.
Replies(request) ==
    LET ap == request.to
        answers ==
          CASE request.kind \in {"probe", "auth"} -> <<Answer(ap, request.kind)>>
            [] request.kind = "assoc" /\ ap = "open" -> <<Answer(ap, "assoc")>>
            [] request.kind = "assoc" /\ ap = "wpa2" -> <<Answer(ap, "assoc"), Answer(ap, "m1")>>
            [] request.kind = "ping" -> <<Answer(ap, "pong")>>
            [] request.kind = "m2" -> <<Answer(ap, "m3")>>
            [] request.kind \in {"m4", "tagged"} -> << >>
    IN  (IF Group(request) THEN << >> ELSE <<Answer(ap, "ack")>>) \o answers

\* Encrypted by CCMP, in either direction.
ProtectedRequest(request) == request = [to |-> "wpa2", kind |-> "ping"]
ProtectedFrame(frame) == frame = Answer("wpa2", "pong")

\* The key table and the address filter select a key together.
KeySelected == mac.key /\ mac.interface

-----------------------------------------------------------------------------
(* Transmission *)

\* complete_tx_record.
Completed(m, outcome) ==
    [m EXCEPT !.active = FALSE, !.queueState = TRUE, !.txDone = TRUE, !.status = outcome]

Refused(error) ==
    /\ fault' = error
    /\ UNCHANGED <<mac, pendingTx, air, interference>>

\* The arbiter refuses the airtime while the MAC sends an acknowledgement of its
\* own, and the queue completes with an error although nothing was sent.
KickDenied ==
    /\ ownAck
    /\ mac' = Completed(mac, "error")
    /\ interference' = interference \cup {"denied"}
    /\ UNCHANGED <<pendingTx, air, fault>>

KickGranted(request) ==
    /\ ~ownAck
    /\ mac' = [mac EXCEPT !.active = TRUE]
    /\ pendingTx' = request
    /\ air' = air \o Replies(request)
    /\ UNCHANGED <<fault, interference>>

\* A write of TX_QUEUE0_CONTROL and the service that follows it.  The device
\* refuses a queue whose last completion is not cleared.
Kick(request) ==
    /\ IF mac.active \/ mac.queueState THEN Refused("queue")
       ELSE IF ProtectedRequest(request) /\ ~KeySelected THEN Refused("key")
       ELSE KickDenied \/ KickGranted(request)
    /\ UNCHANGED <<descriptor, ownAck, frontend, losses, foreign, unread>>

\* deadline_outcome: no acknowledgement came, or none was expected.
DeadlineOutcome(request) == IF Group(request) THEN "success" ELSE "ack_timeout"

\* complete_native_wifi_transmissions.
Deadline_KeepsPending ==
    /\ fault = "none" /\ pendingTx # None /\ mac.active
    /\ mac' = Completed(mac, DeadlineOutcome(pendingTx))
    /\ UNCHANGED <<pendingTx, fault, descriptor, ownAck, air, frontend, losses, foreign, unread,
                   interference>>

Deadline ==
    /\ fault = "none"
    /\ pendingTx # None
    /\ pendingTx' = None
    /\ IF mac.active
       THEN mac' = Completed(mac, DeadlineOutcome(pendingTx)) /\ UNCHANGED fault
       ELSE fault' = "completion" /\ UNCHANGED mac
    /\ UNCHANGED <<descriptor, ownAck, air, frontend, losses, foreign, unread, interference>>

OwnAckEnds ==
    /\ fault = "none"
    /\ ownAck
    /\ ownAck' = FALSE
    /\ UNCHANGED <<mac, descriptor, pendingTx, air, frontend, fault, losses, foreign, unread,
                   interference>>

-----------------------------------------------------------------------------
(* Reception *)

\* An acknowledgement that finds its transmission still pending completes it.
Acknowledges(frame) == frame.kind = "ack" /\ pendingTx # None /\ ~Group(pendingTx)

ArriveAck ==
    /\ Acknowledges(Head(air))
    /\ pendingTx' = None
    /\ IF mac.active
       THEN mac' = Completed(mac, "success") /\ UNCHANGED fault
       ELSE fault' = "completion" /\ UNCHANGED mac
    /\ UNCHANGED <<descriptor, ownAck, unread, interference>>

ArriveUnkeyed ==
    /\ ~Acknowledges(Head(air))
    /\ ProtectedFrame(Head(air)) /\ ~KeySelected
    /\ fault' = "key"
    /\ UNCHANGED <<mac, descriptor, pendingTx, ownAck, unread, interference>>

\* submit_native_wifi_receive_response: control and group frames get none.
WantsAck(frame) == frame.kind # "ack" /\ frame.from # "foreign"

\* write_native_wifi_rx: the descriptor must be handed over and owned by the
\* MAC; the ring ends after it.  A frame without one is dropped in silence.
CanWriteRx_AnyOwner == mac.rxBase
CanWriteRx == mac.rxBase /\ descriptor.state = "armed"

WriteRx(frame) ==
    /\ CanWriteRx
    /\ descriptor' = [state |-> "filled", frame |-> frame]
    /\ mac' = [mac EXCEPT !.rxBase = FALSE, !.rxDone = TRUE]
    /\ unread' = unread + 1
    /\ interference' = IF frame.kind = "long" THEN interference \cup {"long"} ELSE interference

DropRx(frame) ==
    /\ ~CanWriteRx
    /\ interference' = IF WantsAck(frame) THEN interference \cup {"dropped"} ELSE interference
    /\ UNCHANGED <<descriptor, mac, unread>>

ArriveFrame ==
    LET frame == Head(air)
    IN  /\ ~Acknowledges(frame)
        /\ ProtectedFrame(frame) => KeySelected
        /\ ownAck' = (ownAck \/ WantsAck(frame))
        /\ WriteRx(frame) \/ DropRx(frame)
        /\ UNCHANGED <<pendingTx, fault>>

\* complete_medium_receptions, for the next frame that ends while the receiver
\* is tuned.
Arrive ==
    /\ fault = "none"
    /\ frontend
    /\ air # << >>
    /\ air' = Tail(air)
    /\ ArriveAck \/ ArriveUnkeyed \/ ArriveFrame
    /\ UNCHANGED <<frontend, losses, foreign>>

\* The frontend is off: there is no receiver when the frame ends.
Miss ==
    /\ fault = "none"
    /\ ~frontend
    /\ air # << >>
    /\ air' = Tail(air)
    /\ interference' = interference \cup {"missed"}
    /\ UNCHANGED <<mac, descriptor, pendingTx, ownAck, frontend, fault, losses, foreign, unread>>

\* Seeded loss, collision, or too weak a signal.
Lose ==
    /\ fault = "none"
    /\ frontend
    /\ air # << >>
    /\ losses < MaxLosses
    /\ losses' = losses + 1
    /\ air' = Tail(air)
    /\ interference' = interference \cup {"lost"}
    /\ UNCHANGED <<mac, descriptor, pendingTx, ownAck, frontend, fault, foreign, unread>>

\* A frame of a scenario (remu.radio-input.v1), whatever its bytes are.
Foreign(frame) ==
    /\ fault = "none"
    /\ foreign < MaxForeign
    /\ foreign' = foreign + 1
    /\ air' = Append(air, frame)
    /\ UNCHANGED <<mac, descriptor, pendingTx, ownAck, frontend, fault, losses, unread,
                   interference>>

MachineStep == Deadline \/ OwnAckEnds \/ Arrive \/ Miss
PeerStep == Lose \/ \E frame \in Injected : Foreign(frame)
=============================================================================
