------------------------------- MODULE C6Radio -------------------------------
(***************************************************************************)
(* The ESP32-C6 radio service (crates/remu-machines/src/riscv/radio.rs,     *)
(* radio_receive.rs, radio_ble.rs, radio_wifi_tx.rs): one machine loop      *)
(* iteration executes one guest instruction and then services the radio.    *)
(*                                                                          *)
(* The service is a fixed sequence of phases, one action each, over five    *)
(* pieces of state that must agree: the coexistence arbiter, the chip's own *)
(* transmissions on the medium, the grant-to-transmission mapping, the      *)
(* 802.15.4 peripheral with the machine's list of operations in flight, and *)
(* the legality validator (crates/remu-radio/src/legality.rs), which ends   *)
(* the run at the first contradiction.                                      *)
(*                                                                          *)
(* Frame contents decide nothing here: whether a frame is well formed, wants *)
(* an acknowledgement, is busy on the channel, or a Wi-Fi or Bluetooth      *)
(* frame becomes due, is a free choice in the phase that looks at it.       *)
(***************************************************************************)
EXTENDS CoexistenceArbiter, Sequences

CONSTANTS
    wifi, ble, ieee802154,  \* the three protocols, and their modem domains
    coexist,                \* the fourth reset domain
    Airtime,                \* frame durations
    MacPriority,            \* values of the 802.15.4 priority register
    None

ASSUME C6Assumption ==
    /\ {wifi, ble, ieee802154} \subseteq Protocol
    /\ MacPriority \cup {8, 9, 15} \subseteq Priority
    /\ Airtime \subseteq Nat
    /\ None \notin Nat \cup [grant : Nat, tx : Nat]

VARIABLES
    now,            \* RiscVMachine.now
    phase,          \* the part of service_radio to run next; "guest" between two
    fault,          \* the MachineError that ended the run, if any
    \* the modem, as the guest programs it
    ready,          \* clock and reset state per protocol
    resets,         \* domains whose reset generation moved since the last service
    mac_reset,      \* the Wi-Fi MAC reset generation moved
    \* the 802.15.4 peripheral
    command,        \* the command written since the last service
    receiving,      \* status bit 9
    awaiting,       \* awaiting_ack_sequence is set
    \* the machine's 802.15.4 operations in flight
    pending_tx, pending_ack, pending_cca,
    tuned,          \* the medium holds the chip's 802.15.4 receiver
    \* the legality validator's view of the 802.15.4 domain
    activity, seen_ready,
    \* the chip's own transmissions on the medium, and the mapping
    air,            \* in submission order
    mapping         \* radio_coexistence_transmission

modem_vars == <<ready, resets, mac_reset>>
mac_vars == <<command, receiving, awaiting>>
pending_vars == <<pending_tx, pending_ack, pending_cca, tuned>>
legality_vars == <<activity, seen_ready>>
air_vars == <<air, mapping>>
c6_vars == <<arb_vars, now, phase, fault, modem_vars, mac_vars, pending_vars,
             legality_vars, air_vars>>

Commands == {"tx", "cca_tx", "ed", "rx", "stop"}

C6Init ==
    /\ ArbInit
    /\ now = 0
    /\ phase = "guest"
    /\ fault = "none"
    /\ ready = [p \in Protocol |-> TRUE]
    /\ resets = {}
    /\ mac_reset = FALSE
    /\ command = None
    /\ receiving = FALSE
    /\ awaiting = FALSE
    /\ pending_tx = {}
    /\ pending_ack = {}
    /\ pending_cca = None
    /\ tuned = FALSE
    /\ activity = "idle"
    /\ seen_ready = TRUE
    /\ air = << >>
    /\ mapping = None

-----------------------------------------------------------------------------
(* Shared parts *)

\* An error of one phase is dropped.
Then_Swallows(p) == phase' = p

\* The run ends with the first error; otherwise the next phase follows.
Then(p) == phase' = IF fault' = "none" THEN p ELSE "stopped"

\* RadioMedium::truncate on one of the chip's own transmissions at the
\* machine's time: it must be unresolved.
Truncatable(t) == air[t].state = "on_air" /\ now \in air[t].start..air[t].end

\* The transmission is resolved but keeps its scheduled end.
TruncatedAir_KeepsEnd(t) == [air EXCEPT ![t].state = "truncated"]

\* Its end moves to the time of the cut, and nobody receives it.
TruncatedAir(t) == [air EXCEPT ![t].end = now, ![t].state = "truncated"]

\* The mapping names the transmission that grant g put on the air.
Mapped(g) == mapping # None /\ mapping.grant = g

\* request, apply_coexistence_preemption, transmit and record for a frame of
\* any protocol.  `legal' says whether the validator lets the transmission
\* begin once the grant is there.
Seize(protocol, duration, priority, preemptible, legal) ==
    /\ RequestGranted(protocol, now, duration, priority, preemptible)
    /\ LET holder == Unexpired(now)
           owned == holder = NoGrant \/ Mapped(holder.id)
           cut == IF holder = NoGrant THEN air ELSE TruncatedAir(mapping.tx)
           frame == [protocol |-> protocol, grant |-> next_id, start |-> now,
                     end |-> now + duration, state |-> "on_air"]
       IN  IF ~owned
           THEN fault' = "ownership" /\ mapping' = None /\ air' = air
           ELSE IF holder # NoGrant /\ ~Truncatable(mapping.tx)
           THEN fault' = "truncation" /\ mapping' = None /\ air' = air
           ELSE IF ~legal
           THEN /\ fault' = "overlap"
                /\ mapping' = IF holder = NoGrant THEN mapping ELSE None
                /\ air' = cut
           ELSE /\ fault' = fault
                /\ mapping' = [grant |-> next_id, tx |-> Len(air) + 1]
                /\ air' = Append(cut, frame)

\* The airtime is cut and the arbiter keeps the grant.
ResetCoexistence_KeepsGrant(then) ==
    /\ ArbAdvance(now)
    /\ mapping' = None
    /\ IF active # NoGrant /\ active.end > now /\ mapping # None
       THEN air' = TruncatedAir(mapping.tx)
       ELSE air' = air
    /\ fault' = fault
    /\ Then(then)

\* reset_coexistence: airtime of the active grant is cut, whatever protocol
\* it belongs to.
ResetCoexistence(then) ==
    /\ ArbReset(now)
    /\ mapping' = None
    /\ IF active # NoGrant /\ active.end > now /\ mapping # None
       THEN IF Truncatable(mapping.tx)
            THEN air' = TruncatedAir(mapping.tx) /\ fault' = fault
            ELSE air' = air /\ fault' = "truncation"
       ELSE air' = air /\ fault' = fault
    /\ Then(then)

-----------------------------------------------------------------------------
(* One guest instruction *)

\* execute_command: the register effects are immediate, the operation waits
\* for the next service.
Write(c) ==
    /\ command' = c
    /\ receiving' = (c = "rx")
    /\ awaiting' = (awaiting /\ c # "stop")
    /\ UNCHANGED modem_vars

\* The clock gates of some protocols are switched by one register write:
\* the 802.15.4 gates have a register of their own.
Gate(D) ==
    /\ D = {ieee802154} \/ ieee802154 \notin D
    /\ ready' = [p \in Protocol |-> IF p \in D THEN ~ready[p] ELSE ready[p]]
    /\ UNCHANGED <<resets, mac_reset, mac_vars>>

\* record_reset_edges: reset bits of the domains D rise in one register
\* write.  Some Wi-Fi reset bits and the coexistence one, which has a
\* register of its own, leave their domain ready.
Reset(D) ==
    /\ D = {coexist} \/ coexist \notin D
    /\ resets' = D
    /\ \E still \in {D \cap {wifi}, {}} :
          ready' = [p \in Protocol |-> ready[p] /\ (p \in D => p \in still)]
    /\ UNCHANGED <<mac_reset, mac_vars>>

MacReset ==
    /\ mac_reset' = TRUE
    /\ UNCHANGED <<ready, resets, mac_vars>>

\* An instruction takes at least a tick and touches one register at most.
Instruction ==
    /\ phase = "guest"
    /\ now < ArbMaxTime
    /\ now' = now + 1
    /\ phase' = "reset"
    /\ \/ UNCHANGED <<modem_vars, mac_vars>>
       \/ \E c \in Commands : Write(c)
       \/ \E D \in (SUBSET Protocol) \ {{}} : Gate(D)
       \/ \E D \in (SUBSET (Protocol \cup {coexist})) \ {{}} : Reset(D)
       \/ MacReset
    /\ UNCHANGED <<arb_vars, fault, pending_vars, legality_vars, air_vars>>

-----------------------------------------------------------------------------
(* service_radio *)

\* Any modem reset cancels the ownership of the RF path.
ServiceResets ==
    /\ phase = "reset"
    /\ IF resets # {}
       THEN ResetCoexistence("mac_reset")
       ELSE phase' = "mac_reset" /\ UNCHANGED <<arb_vars, air_vars, fault>>
    /\ UNCHANGED <<now, modem_vars, mac_vars, pending_vars, legality_vars>>

\* A MAC-only reset cancels it for Wi-Fi.
ServiceMacReset ==
    /\ phase = "mac_reset"
    /\ IF mac_reset /\ active # NoGrant /\ active.protocol = wifi
       THEN ResetCoexistence("power")
       ELSE phase' = "power" /\ UNCHANGED <<arb_vars, air_vars, fault>>
    /\ mac_reset' = FALSE
    /\ UNCHANGED <<now, ready, resets, mac_vars, pending_vars, legality_vars>>

\* power_down_coexistence, when the owner's domain is no longer ready.
ServicePower ==
    /\ phase = "power"
    /\ IF active = NoGrant \/ ready[active.protocol] \/ active.end <= now
       THEN UNCHANGED <<arb_vars, air_vars, fault>>
       ELSE IF ~Mapped(active.id)
       THEN fault' = "ownership" /\ mapping' = None /\ UNCHANGED <<arb_vars, air>>
       ELSE IF ~Truncatable(mapping.tx)
       THEN fault' = "truncation" /\ mapping' = None /\ UNCHANGED <<arb_vars, air>>
       ELSE /\ ArbPowerDown(now)
            /\ air' = TruncatedAir(mapping.tx)
            /\ mapping' = None
            /\ fault' = fault
    /\ Then("domain")
    /\ UNCHANGED <<now, modem_vars, mac_vars, pending_vars, legality_vars>>

\* A reset of the 802.15.4 domain leaves the operations in flight.
ServiceDomain_KeepsPending ==
    /\ phase = "domain"
    /\ activity' = IF ieee802154 \in resets THEN "idle" ELSE activity
    /\ fault' = IF seen_ready /\ ~ready[ieee802154] /\ activity' # "idle"
                THEN "domain" ELSE fault
    /\ seen_ready' = ready[ieee802154]
    /\ resets' = {}
    /\ Then("medium")
    /\ UNCHANGED <<arb_vars, now, ready, mac_reset, mac_vars, pending_vars, air_vars>>

\* The 802.15.4 clean-up of a domain reset, then observe_domain: a reset
\* retires the activity, losing the clock during one is an error.  The
\* peripheral's own status survives.
ServiceDomain ==
    LET wiped == ieee802154 \in resets
        current == IF wiped THEN "idle" ELSE activity
        lost == seen_ready /\ ~ready[ieee802154] /\ current # "idle"
    IN  /\ phase = "domain"
        /\ pending_tx' = IF wiped THEN {} ELSE pending_tx
        /\ pending_ack' = IF wiped THEN {} ELSE pending_ack
        /\ pending_cca' = IF wiped THEN None ELSE pending_cca
        /\ tuned' = (tuned /\ ~wiped)
        /\ activity' = current
        /\ seen_ready' = IF lost THEN seen_ready ELSE ready[ieee802154]
        /\ fault' = IF lost THEN "domain" ELSE fault
        /\ resets' = {}
        /\ Then("medium")
        /\ UNCHANGED <<arb_vars, now, ready, mac_reset, mac_vars, air_vars>>

\* The medium resolves what has ended and the arbiter drops an expired grant.
ServiceMedium ==
    /\ phase = "medium"
    /\ air' = [t \in DOMAIN air |->
                 IF air[t].state = "on_air" /\ air[t].end <= now
                 THEN [air[t] EXCEPT !.state = "done"] ELSE air[t]]
    /\ ArbAdvance(now)
    /\ phase' = "ble"
    /\ UNCHANGED <<now, fault, modem_vars, mac_vars, pending_vars, legality_vars, mapping>>

\* A frame of an engine that keeps no operation of its own: granted and put
\* on the air, or denied and dropped.
EngineFrame(protocol, priority, preemptible) ==
    /\ \E d \in Airtime :
          \/ Seize(protocol, d, priority, preemptible, TRUE)
          \/ RequestDenied(now, d, priority) /\ UNCHANGED <<air_vars, fault>>
    /\ UNCHANGED <<now, modem_vars, mac_vars, pending_vars, legality_vars>>

\* The phase has nothing more to do.
Skip(from, to) ==
    /\ phase = from
    /\ phase' = to
    /\ UNCHANGED <<arb_vars, now, fault, modem_vars, mac_vars, pending_vars,
                   legality_vars, air_vars>>

\* submit_pending_native_ble_frames.
ServiceBle ==
    \/ phase = "ble" /\ EngineFrame(ble, 9, TRUE) /\ Then("ble")
    \/ Skip("ble", "receive")

\* transition_activity: the validator insists on the phase it expects.
Transition(from, to) ==
    /\ activity' = IF activity = from THEN to ELSE activity
    /\ fault' = IF activity = from THEN fault ELSE "completion"
    /\ UNCHANGED seen_ready

\* An 802.15.4 frame reaches the receiver while the peripheral waits for an
\* acknowledgement: the right one, or anything else, ends the wait.
ReceiveAck ==
    /\ receiving /\ awaiting
    /\ receiving' = FALSE
    /\ awaiting' = FALSE
    /\ Transition("awaiting_ack", "idle")
    /\ UNCHANGED <<arb_vars, pending_vars, air_vars>>

\* An accepted, filtered or damaged frame ends the receive operation.
ReceiveFrame ==
    /\ receiving /\ ~awaiting
    /\ receiving' = FALSE
    /\ Transition("receive", "idle")
    /\ UNCHANGED <<arb_vars, pending_vars, air_vars, awaiting>>

\* An accepted frame that wants an acknowledgement: submit_ieee802154_ack
\* follows in the same step, or the arbiter keeps the path from it.
ReceiveAndAck ==
    /\ receiving /\ ~awaiting
    /\ activity = "receive"
    /\ receiving' = FALSE
    /\ \E d \in Airtime, p \in MacPriority :
          \/ /\ Seize(ieee802154, d, p, TRUE, seen_ready)
             /\ activity' = IF fault' = "none" THEN "transmit" ELSE "idle"
             /\ pending_ack' = IF fault' = "none"
                               THEN pending_ack \cup {[tx |-> Len(air) + 1, end |-> now + d]}
                               ELSE pending_ack
          \/ /\ RequestDenied(now, d, p)
             /\ activity' = "idle"
             /\ UNCHANGED <<air_vars, fault, pending_ack>>
    /\ UNCHANGED <<awaiting, seen_ready, pending_tx, pending_cca, tuned>>

\* A colliding or lost frame aborts the receiver, armed or not.
ReceiveCollision ==
    /\ receiving' = FALSE
    /\ awaiting' = FALSE
    /\ IF awaiting THEN Transition("awaiting_ack", "idle")
       ELSE IF receiving THEN Transition("receive", "idle")
       ELSE UNCHANGED <<legality_vars, fault>>
    /\ UNCHANGED <<arb_vars, pending_vars, air_vars>>

\* complete_medium_receptions: any number of frames ended since the last
\* service.  A Wi-Fi frame may draw an immediate response or, after a CTS,
\* the protected payload.
ServiceReceive ==
    \/ /\ phase = "receive"
       /\ tuned
       /\ ReceiveAck \/ ReceiveFrame \/ ReceiveAndAck \/ ReceiveCollision
       /\ Then("receive")
       /\ UNCHANGED <<now, modem_vars, command>>
    \/ phase = "receive" /\ ready[wifi] /\ EngineFrame(wifi, 15, FALSE) /\ Then("receive")
    \/ phase = "receive" /\ EngineFrame(wifi, 8, TRUE) /\ Then("receive")
    \/ Skip("receive", "cca")

\* submit_ieee802154_tx from an activity the caller has left as `current'.
\* A malformed frame, channel or key aborts; so does a denied request; the
\* validator speaks up only after the grant.
SubmitTx(current) ==
    \/ \* length, channel (aborts) or security failure
       /\ receiving' = FALSE
       /\ awaiting' \in {FALSE, awaiting}
       /\ activity' = current
       /\ UNCHANGED <<arb_vars, air_vars, fault, pending_tx>>
    \/ \E d \in Airtime, p \in MacPriority :
          \/ /\ RequestDenied(now, d, p)
             /\ receiving' = FALSE
             /\ awaiting' = FALSE
             /\ activity' = current
             /\ UNCHANGED <<air_vars, fault, pending_tx>>
          \/ /\ Seize(ieee802154, d, p, TRUE, seen_ready /\ current = "idle")
             /\ activity' = IF fault' = "none" THEN "transmit" ELSE current
             /\ \E wants_ack \in BOOLEAN :
                   pending_tx' = IF fault' = "none"
                                 THEN pending_tx \cup {[tx |-> Len(air) + 1,
                                                        end |-> now + d,
                                                        wants_ack |-> wants_ack]}
                                 ELSE pending_tx
             /\ UNCHANGED <<receiving, awaiting>>

\* A CCA that is due: complete_ieee802154_cca_tx.
ServiceCca ==
    /\ phase = "cca"
    /\ IF pending_cca = None \/ pending_cca > now
       THEN UNCHANGED <<arb_vars, air_vars, fault, activity, receiving, awaiting,
                        pending_tx, pending_cca>>
       ELSE /\ pending_cca' = None
            /\ IF activity # "cca"
               THEN /\ fault' = "completion"
                    /\ UNCHANGED <<arb_vars, air_vars, activity, receiving, awaiting,
                                   pending_tx>>
               ELSE \/ \* the domain is gone, or the channel is busy
                       /\ activity' = "idle"
                       /\ receiving' = FALSE
                       /\ awaiting' = (awaiting /\ ready[ieee802154])
                       /\ UNCHANGED <<arb_vars, air_vars, fault, pending_tx>>
                    \/ ready[ieee802154] /\ SubmitTx("idle")
    /\ Then("acks")
    /\ UNCHANGED <<now, modem_vars, command, seen_ready, pending_ack, tuned>>

Due(S) == {p \in S : p.end <= now}

\* Acknowledgements whose airtime is over.
ServiceAcks ==
    /\ phase = "acks"
    /\ IF Due(pending_ack) = {}
       THEN UNCHANGED <<legality_vars, fault, pending_ack>>
       ELSE /\ Transition("transmit", "idle")
            /\ pending_ack' = pending_ack \ Due(pending_ack)
    /\ Then("sent")
    /\ UNCHANGED <<arb_vars, now, modem_vars, mac_vars, air_vars, pending_tx,
                   pending_cca, tuned>>

\* Transmissions whose scheduled airtime is over complete, cut short or not.
ServiceSent ==
    /\ phase = "sent"
    /\ IF Due(pending_tx) = {}
       THEN UNCHANGED <<legality_vars, fault, pending_tx, tuned, receiving, awaiting>>
       ELSE \E p \in Due(pending_tx) :
              /\ Transition("transmit", IF p.wants_ack THEN "awaiting_ack" ELSE "idle")
              /\ pending_tx' = pending_tx \ Due(pending_tx)
              /\ tuned' = (tuned \/ p.wants_ack)
              /\ receiving' = (receiving \/ p.wants_ack)
              /\ awaiting' = (awaiting \/ p.wants_ack)
    /\ Then("command")
    /\ UNCHANGED <<arb_vars, now, modem_vars, command, air_vars, pending_ack, pending_cca>>

\* abort(transmit, reason) clears the status word and the awaited sequence.
Abort == receiving' = FALSE /\ awaiting' = FALSE

\* begin_activity.
Begin(a) ==
    /\ activity' = IF seen_ready /\ activity = "idle" THEN a ELSE activity
    /\ fault' = IF seen_ready /\ activity = "idle" THEN fault
                ELSE IF seen_ready THEN "overlap" ELSE "domain"

CommandTx ==
    /\ command = "tx"
    /\ tuned' = FALSE
    /\ IF ready[ieee802154] THEN SubmitTx(activity)
       ELSE Abort /\ UNCHANGED <<arb_vars, air_vars, fault, activity, pending_tx>>
    /\ UNCHANGED <<pending_ack, pending_cca>>

CommandCcaTx ==
    /\ command = "cca_tx"
    /\ tuned' = FALSE
    /\ IF ready[ieee802154]
       THEN /\ Begin("cca")
            /\ pending_cca' \in IF fault' = "none" THEN {now + d : d \in Airtime}
                                ELSE {pending_cca}
            /\ UNCHANGED <<receiving, awaiting>>
       ELSE Abort /\ UNCHANGED <<fault, activity, pending_cca>>
    /\ UNCHANGED <<arb_vars, air_vars, pending_tx, pending_ack>>

\* Energy detection begins and completes in the same service.
CommandEd ==
    /\ command = "ed"
    /\ IF ready[ieee802154]
       THEN Begin("idle") /\ UNCHANGED <<receiving, awaiting>>
       ELSE Abort /\ UNCHANGED <<fault, activity>>
    /\ UNCHANGED <<arb_vars, air_vars, pending_vars>>

\* Stop forgets the operations but leaves airtime and grant to run out.
CommandStop ==
    /\ command = "stop"
    /\ tuned' = FALSE
    /\ activity' = "idle"
    /\ pending_cca' = None
    /\ pending_tx' = {}
    /\ pending_ack' = {}
    /\ IF pending_tx # {} THEN Abort ELSE UNCHANGED <<receiving, awaiting>>
    /\ UNCHANGED <<arb_vars, air_vars, fault>>

CommandRx ==
    /\ command = "rx"
    /\ IF ready[ieee802154]
       THEN /\ Begin("receive")
            /\ tuned' = (tuned \/ fault' = "none")
            /\ UNCHANGED <<receiving, awaiting>>
       ELSE Abort /\ UNCHANGED <<fault, activity, tuned>>
    /\ UNCHANGED <<arb_vars, air_vars, pending_tx, pending_ack, pending_cca>>

ServiceCommand ==
    /\ phase = "command"
    /\ \/ command = None /\ UNCHANGED <<arb_vars, air_vars, fault, activity, receiving,
                                        awaiting, pending_vars>>
       \/ CommandTx \/ CommandCcaTx \/ CommandEd \/ CommandStop \/ CommandRx
    /\ command' = None
    /\ Then("submit")
    /\ UNCHANGED <<now, modem_vars, seen_ready>>

\* submit_native_wifi_frames and submit_protocol_engine_frames.
ServiceSubmit ==
    \/ phase = "submit" /\ EngineFrame(wifi, 8, TRUE) /\ Then("submit")
    \/ phase = "submit" /\ EngineFrame(ble, 9, TRUE) /\ Then("submit")
    \/ Skip("submit", "guest")

Service ==
    \/ ServiceResets \/ ServiceMacReset \/ ServicePower \/ ServiceDomain
    \/ ServiceMedium \/ ServiceBle \/ ServiceReceive \/ ServiceCca
    \/ ServiceAcks \/ ServiceSent \/ ServiceCommand \/ ServiceSubmit

C6Next == Instruction \/ Service

C6Spec == C6Init /\ [][C6Next]_c6_vars

-----------------------------------------------------------------------------
(* Firmware that follows the driver contract *)

\* It starts an operation only on a powered, idle peripheral: nothing in
\* flight and the status register clear.  It leaves the clock and the resets
\* alone and may stop at any time.
Idle ==
    /\ ready[ieee802154]
    /\ pending_tx = {} /\ pending_ack = {} /\ pending_cca = None
    /\ ~receiving /\ ~awaiting

LegalInstruction ==
    /\ phase = "guest"
    /\ now < ArbMaxTime
    /\ now' = now + 1
    /\ phase' = "reset"
    /\ \/ UNCHANGED mac_vars
       \/ Idle /\ \E c \in Commands : Write(c)
       \/ Write("stop")
    /\ UNCHANGED <<arb_vars, fault, modem_vars, pending_vars, legality_vars, air_vars>>

C6LegalSpec == C6Init /\ [][LegalInstruction \/ Service]_c6_vars

-----------------------------------------------------------------------------
(* Properties *)

AirFrame == [protocol : Protocol, grant : GrantId, start : ArbTime, end : ArbTime,
             state : {"on_air", "truncated", "done"}]

\* Type invariant.
C6TypeOK ==
    /\ ArbTypeOK
    /\ now \in ArbTime /\ arb_now <= now
    /\ fault \in {"none", "ownership", "truncation", "overlap", "domain", "completion"}
    /\ phase = "stopped" <=> fault # "none"
    /\ ready \in [Protocol -> BOOLEAN]
    /\ resets \subseteq Protocol \cup {coexist}
    /\ <<mac_reset, receiving, awaiting, tuned, seen_ready>> \in
           BOOLEAN \X BOOLEAN \X BOOLEAN \X BOOLEAN \X BOOLEAN
    /\ command \in Commands \cup {None}
    /\ activity \in {"idle", "receive", "transmit", "cca", "awaiting_ack"}
    /\ pending_cca = None \/ pending_cca \in Nat
    /\ air \in Seq(AirFrame)
    /\ \A p \in pending_tx \cup pending_ack : p.tx \in DOMAIN air
    /\ mapping # None => mapping.grant \in DOMAIN tenure /\ mapping.tx \in DOMAIN air

\* Between two services the chip is on the air exactly when the arbiter's
\* evidence says it owns the RF path: every transmission occupies the
\* interval of its grant, no more and no less, whatever preemption, reset or
\* power-down cut it.  With ExclusiveOwnership, the chip's own frames never
\* overlap.
AirtimeMatchesTenure ==
    phase = "guest" =>
        \A t \in DOMAIN air :
            /\ air[t].protocol = tenure[air[t].grant].protocol
            /\ air[t].start = tenure[air[t].grant].start
            /\ air[t].end = tenure[air[t].grant].end

\* The internal consistency checks never fire: whenever a grant is taken
\* away, the mapping names its transmission and the medium has not resolved
\* it, even when reset, MAC reset, clock loss and a preempting frame meet in
\* one service.
OwnershipNeverContradicted == fault \notin {"ownership", "truncation"}

\* The machine's list of operations and the validator's activity agree
\* between two services, so that no completion is lost and none is spurious:
\* one transmission or acknowledgement in flight while the activity is a
\* transmit, a deadline while it is an assessment.
OperationsMatchActivity ==
    phase = "guest" =>
        /\ Cardinality(pending_tx) + Cardinality(pending_ack) =
              IF activity = "transmit" THEN 1 ELSE 0
        /\ pending_cca # None <=> activity = "cca"

\* legality.rs: the validator speaks only about a radio state that genuine
\* firmware never configures.
LegalDriverNotDiagnosed == fault = "none"

-----------------------------------------------------------------------------
(* The inductive invariant of C6Radio_proofs *)

\* In every phase a transmission occupies the interval of its grant, and a
\* grant has put at most one on the air.
FramesMatchTenure ==
    /\ \A t \in DOMAIN air :
          /\ air[t].grant \in DOMAIN tenure
          /\ air[t].protocol = tenure[air[t].grant].protocol
          /\ air[t].start = tenure[air[t].grant].start
          /\ air[t].end = tenure[air[t].grant].end
    /\ \A t, u \in DOMAIN air : air[t].grant = air[u].grant => t = u

\* Until the run stops, the mapping names the transmission of the arbiter's
\* active grant and the medium has not resolved it.
OwnerOnAir ==
    fault = "none" /\ active # NoGrant =>
        /\ Mapped(active.id)
        /\ air[mapping.tx].grant = active.id
        /\ air[mapping.tx].state = "on_air"
        /\ tenure[active.id].end = active.end

\* Until the run stops, the operations in flight are those of the activity.
OneOperation ==
    fault = "none" =>
        /\ IF activity = "transmit"
           THEN \E p \in pending_tx \cup pending_ack :
                   \/ pending_tx = {p} /\ pending_ack = {}
                   \/ pending_tx = {} /\ pending_ack = {p}
           ELSE pending_tx = {} /\ pending_ack = {}
        /\ pending_cca # None <=> activity = "cca"

C6Inv ==
    /\ ArbInv
    /\ C6TypeOK
    /\ \A p \in pending_tx : p.wants_ack \in BOOLEAN
    /\ OwnershipNeverContradicted
    /\ FramesMatchTenure
    /\ OwnerOnAir
    /\ OneOperation
=============================================================================
