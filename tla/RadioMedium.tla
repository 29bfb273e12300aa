----------------------------- MODULE RadioMedium -----------------------------
(***************************************************************************)
(* The deterministic shared RF medium (crates/remu-radio/src/medium.rs).    *)
(*                                                                          *)
(* The medium is polled: it stands at `m_now' until its machine calls       *)
(* advance_to, which resolves every transmission that has ended by then and *)
(* prunes the history it believes no later resolution can need.  Between    *)
(* two calls the machine's own clock runs ahead, and transmissions are      *)
(* submitted, truncated and listened to at times the medium has not seen.   *)
(*                                                                          *)
(* `aired' holds every transmission ever accepted, under its identifier,    *)
(* with the interval it really occupied; the vector the code keeps is the   *)
(* part of it named by `retained'.  A spectrum is the set of bins it        *)
(* covers, and link losses are configured before the run.                   *)
(***************************************************************************)
EXTENDS Integers, Sequences, FiniteSets, FiniteSetsExt

CONSTANTS
    Emission,           \* what a request asks for but its start: records
                        \* [source, protocol, spectrum, power, airtime, emulated]
    ReceiverConfig,     \* receiver settings: [node, protocol, spectrum, sensitivity]
    PathLoss,           \* loss in dB of each unordered pair of nodes
    CaptureThreshold,   \* MediumProfile.capture_threshold_db
    Lost,               \* the <<transmission, node>> the seeded sample discards
    MediumMaxTime,      \* bound: last instant
    MediumMaxId,        \* bound: number of transmissions
    NoReply             \* no peer, or a peer that stays silent

VARIABLES
    clock,              \* the machine's simulation time
    m_now,              \* RadioMedium.now
    receivers,          \* RadioMedium.receivers
    aired,              \* every accepted transmission, by identifier
    retained,           \* the identifiers still in RadioMedium.transmissions
    resolved,           \* those whose PendingTransmission.resolved is set
    \* history, for the properties only
    receptions,         \* the Reception events, with the sensitivity used
    truncated           \* the identifiers with a Truncated event

medium_vars == <<clock, m_now, receivers, aired, retained, resolved, receptions, truncated>>

MediumTime == 0..MediumMaxTime
TransmissionId == DOMAIN aired
NodeId == {e.source : e \in Emission} \cup {r.node : r \in ReceiverConfig}

ASSUME MediumAssumption ==
    /\ \A e \in Emission : e.power \in Int /\ e.airtime \in Nat
    /\ \A m, n \in NodeId : PathLoss[{m, n}] \in Int
    /\ MediumMaxTime \in Nat

MediumInit ==
    /\ clock = 0
    /\ m_now = 0
    /\ receivers = {}
    /\ aired = << >>
    /\ retained = {}
    /\ resolved = {}
    /\ receptions = {}
    /\ truncated = {}

-----------------------------------------------------------------------------
(* What the medium computes from the transmissions in S *)

\* Spectrum::overlaps.
Overlaps(s, t) == s \cap t # {}

\* i16::saturating_sub.
SaturatingSub(a, b) ==
    IF a - b > 32767 THEN 32767 ELSE IF a - b < -32768 THEN -32768 ELSE a - b

\* received_power_dbm.
Power(i, node) == SaturatingSub(aired[i].power, PathLoss[{aired[i].source, node}])

\* intervals_overlap, on half-open intervals.
IntervalsOverlap(i, j) ==
    /\ aired[i].start < aired[j].end
    /\ aired[j].start < aired[i].end

\* The transmissions in S that disturb i.
Interferers(S, i) ==
    {j \in S \ {i} : /\ IntervalsOverlap(i, j)
                     /\ Overlaps(aired[i].spectrum, aired[j].spectrum)}

\* strongest_interferer: by received power, the lowest identifier on a tie.
Strongest(C, node) ==
    LET top == Max({Power(j, node) : j \in C})
    IN  Min({j \in C : Power(j, node) = top})

\* loss_or_delivery.
LossOrDelivery(i, node) ==
    IF <<i, node>> \in Lost THEN "seeded_loss" ELSE "delivered"

\* The outcome of i at a node of the given sensitivity, when the
\* transmissions in C disturb it; `by' is the interferer of a collision.
OutcomeAgainst(C, i, node, sensitivity) ==
    LET clear == [kind |-> LossOrDelivery(i, node), by |-> 0]
        j == Strongest(C, node)
    IN  IF Power(i, node) < sensitivity
        THEN [kind |-> "below_sensitivity", by |-> 0]
        ELSE IF C = {} \/ SaturatingSub(Power(i, node), Power(j, node)) >= CaptureThreshold
        THEN clear
        ELSE [kind |-> "collision", by |-> j]

\* resolve: one Reception per receiver of another node, of the same protocol
\* and an overlapping spectrum, that is tuned when the medium gets to it.
Resolve(i, at) ==
    {[id |-> i, node |-> r.node, sensitivity |-> r.sensitivity, at |-> at,
      outcome |-> OutcomeAgainst(Interferers(retained, i), i, r.node, r.sensitivity)] :
         r \in {q \in receivers : /\ q.node # aired[i].source
                                  /\ q.protocol = aired[i].protocol
                                  /\ Overlaps(q.spectrum, aired[i].spectrum)}}

\* The end of the interval counts as airtime.
Audible_Inclusive(i) == aired[i].start <= m_now /\ aired[i].end >= m_now

\* A transmission on the air at the medium's clock.
Audible(i) == aired[i].start <= m_now /\ aired[i].end > m_now

\* The transmissions energy_dbm_at takes the maximum over.
Heard(S, node, spectrum) ==
    {i \in S : /\ aired[i].source # node
               /\ Audible(i)
               /\ Overlaps(aired[i].spectrum, spectrum)}

\* energy_dbm_at: the strongest signal, or the empty-medium floor.
Energy(S, node, spectrum) ==
    IF Heard(S, node, spectrum) = {} THEN -128
    ELSE Max({Power(i, node) : i \in Heard(S, node, spectrum)})

\* carrier_present_at.
CarrierPresent(S, node, protocol, spectrum, minimum) ==
    \E i \in Heard(S, node, spectrum) :
        aired[i].protocol = protocol /\ Power(i, node) >= minimum

-----------------------------------------------------------------------------
(* Operations *)

\* The machine executes; the medium does not notice.
Tick ==
    /\ clock < MediumMaxTime
    /\ clock' = clock + 1
    /\ UNCHANGED <<m_now, receivers, aired, retained, resolved, receptions, truncated>>

\* tune_receiver, and register_receiver, which reports a duplicate only
\* after it has replaced the old setting.
TuneReceiver(r) ==
    /\ receivers' = {q \in receivers : <<q.node, q.protocol>> # <<r.node, r.protocol>>}
                    \cup {r}
    /\ UNCHANGED <<clock, m_now, aired, retained, resolved, receptions, truncated>>

RemoveReceiver(r) ==
    /\ r \in receivers
    /\ receivers' = receivers \ {r}
    /\ UNCHANGED <<clock, m_now, aired, retained, resolved, receptions, truncated>>

\* The transmission of emission e that starts at s.
Transmission(e, s) ==
    [source |-> e.source, protocol |-> e.protocol, spectrum |-> e.spectrum,
     power |-> e.power, start |-> s, end |-> s + e.airtime]

\* transmit accepts a positive interval that does not start in the past of
\* the medium.
Accepted(t) ==
    /\ t.end > t.start
    /\ t.start >= m_now
    /\ t.end <= MediumMaxTime

\* transmit: the frame is on the medium before the peer is asked, and stays
\* there when the peer's reply is refused.  Only an emulated frame is shown
\* to the peer, whose reply is host-injected and triggers no other.
Transmit(e, s, reply) ==
    LET t == Transmission(e, s)
        new == IF reply # NoReply /\ Accepted(reply) /\ Len(aired) + 2 <= MediumMaxId
               THEN <<t, reply>> ELSE <<t>>
    IN  /\ Len(aired) < MediumMaxId
        /\ Accepted(t)
        /\ reply # NoReply => e.emulated
        /\ aired' = aired \o new
        /\ retained' = retained \cup (DOMAIN aired' \ DOMAIN aired)
        /\ UNCHANGED <<clock, m_now, receivers, resolved, receptions, truncated>>

\* The end is moved but the transmission still waits for its resolution.
Truncate_Unresolved(i) ==
    /\ i \in retained \ resolved
    /\ clock \in aired[i].start..aired[i].end
    /\ aired' = [aired EXCEPT ![i].end = clock]
    /\ truncated' = truncated \cup {i}
    /\ UNCHANGED <<clock, m_now, receivers, retained, resolved, receptions>>

\* truncate, always called with the machine's time.  A transmission that is
\* unknown, complete or outside its interval is an error without effect.
Truncate(i) ==
    /\ i \in retained \ resolved
    /\ clock \in aired[i].start..aired[i].end
    /\ aired' = [aired EXCEPT ![i].end = clock]
    /\ resolved' = resolved \cup {i}
    /\ truncated' = truncated \cup {i}
    /\ UNCHANGED <<clock, m_now, receivers, retained, receptions>>

\* Whatever has ended is forgotten.
Kept_Unended(S, done, at) == {i \in S : i \notin done \/ aired[i].end > at}

\* Nothing is remembered once an advance is over.
Kept_None(S, done, at) == {}

\* prune_history: a resolved transmission stays while it reaches past the
\* start of an unresolved one.
Kept(S, done, at) ==
    {i \in S : i \notin done \/ \E j \in S \ done : aired[i].end > aired[j].start}

\* What advance_to resolves.
Resolvable(at) == {i \in retained \ resolved : aired[i].end <= at}

\* advance_to, called by the machine with its own time.
AdvanceTo ==
    /\ m_now' = clock
    /\ receptions' = receptions \cup UNION {Resolve(i, clock) : i \in Resolvable(clock)}
    /\ resolved' = resolved \cup Resolvable(clock)
    /\ retained' = Kept(retained, resolved', clock)
    /\ UNCHANGED <<clock, receivers, aired, truncated>>

MediumNext ==
    \/ Tick
    \/ AdvanceTo
    \/ \E r \in ReceiverConfig : TuneReceiver(r) \/ RemoveReceiver(r)
    \/ \E e \in Emission, s \in MediumTime :
          \* The chip transmits from its own present on.
          /\ e.emulated => s >= clock
          /\ \/ Transmit(e, s, NoReply)
             \/ \E f \in {f \in Emission : ~f.emulated}, u \in MediumTime :
                   Transmit(e, s, Transmission(f, u))
    \/ \E i \in DOMAIN aired : Truncate(i)

MediumSpec == MediumInit /\ [][MediumNext]_medium_vars

-----------------------------------------------------------------------------
(* Properties *)

\* Type invariant; the code's vector never loses an unresolved transmission.
MediumTypeOK ==
    /\ m_now \in 0..clock /\ clock \in MediumTime
    /\ receivers \subseteq ReceiverConfig
    /\ \A i \in DOMAIN aired : aired[i].start \in MediumTime /\ aired[i].end \in MediumTime
    /\ retained \subseteq DOMAIN aired /\ resolved \subseteq DOMAIN aired
    /\ DOMAIN aired \ resolved \subseteq retained
    /\ truncated \subseteq resolved

\* The instants i is on the air.
Ticks(i) == aired[i].start..(aired[i].end - 1)

\* What disturbs i, from the full history: the transmissions of overlapping
\* spectrum that share an instant with it, and the ones cut to no airtime
\* strictly inside it.
TrueInterferers(i) ==
    {j \in DOMAIN aired \ {i} :
        /\ aired[i].spectrum \cap aired[j].spectrum # {}
        /\ \/ Ticks(i) \cap Ticks(j) # {}
           \/ /\ Ticks(j) = {}
              /\ aired[j].start \in (aired[i].start + 1)..(aired[i].end - 1)}

\* Every recorded outcome is the one the complete history gives, although
\* advance_to judged it from the pruned history and at whatever time the
\* machine happened to poll; what was submitted, truncated or pruned before
\* or after makes no difference.
OutcomesMatchHistory ==
    \A r \in receptions :
        r.outcome = OutcomeAgainst(TrueInterferers(r.id), r.id, r.node, r.sensitivity)

\* A transmission cut off by preemption, reset or power-down reaches nobody,
\* whether it is cut before or after the medium's clock passes it.
TruncatedNeverReceived == \A r \in receptions : r.id \notin truncated

\* Energy detection and carrier sense see everything that is on the air at
\* the medium's clock and nothing else: pruning never hides a transmission.
SensingMatchesHistory ==
    \A r \in ReceiverConfig :
        LET onAir == {i \in DOMAIN aired :
                        /\ m_now \in Ticks(i)
                        /\ aired[i].source # r.node
                        /\ aired[i].spectrum \cap r.spectrum # {}}
        IN  /\ Energy(retained, r.node, r.spectrum) =
                 IF onAir = {} THEN -128 ELSE Max({Power(i, r.node) : i \in onAir})
            /\ CarrierPresent(retained, r.node, r.protocol, r.spectrum, r.sensitivity) <=>
                 \E i \in onAir : /\ aired[i].protocol = r.protocol
                                  /\ Power(i, r.node) >= r.sensitivity

\* The comment on truncate: "A zero-airtime truncation is retained as
\* evidence but cannot interfere with or reach a receiver."
ZeroAirtimeIsHarmless ==
    \A r \in receptions :
        r.outcome.kind = "collision" => Ticks(r.outcome.by) # {}

-----------------------------------------------------------------------------
(* The inductive invariant of RadioMedium_proofs *)

\* A resolution lies in the past of the machine, and of the medium itself
\* unless the transmission was cut; only a cut one can be without airtime.
ResolvedIsOver ==
    \A i \in DOMAIN aired :
        /\ aired[i].start <= aired[i].end
        /\ i \notin truncated => aired[i].start < aired[i].end
        /\ i \in resolved => aired[i].end <= clock
        /\ i \in resolved \ truncated => aired[i].end <= m_now

\* What has been pruned ended before the medium's clock and before the start
\* of everything that is still to be resolved.
PrunedIsHarmless ==
    \A i \in DOMAIN aired \ retained :
        /\ aired[i].end <= m_now
        /\ \A j \in DOMAIN aired \ resolved : aired[i].end <= aired[j].start

\* A reception is of a resolved transmission that was not cut.
ReceivedIsResolved ==
    \A r \in receptions : r.id \in resolved \ truncated /\ r.node \in NodeId

AiredTransmission ==
    [source : NodeId, protocol : {e.protocol : e \in Emission},
     spectrum : {e.spectrum : e \in Emission}, power : Int,
     start : MediumTime, end : MediumTime]

MediumInv ==
    /\ MediumTypeOK
    /\ aired \in Seq(AiredTransmission)
    /\ ResolvedIsOver
    /\ PrunedIsHarmless
    /\ ReceivedIsResolved
    /\ OutcomesMatchHistory
=============================================================================
