-------------------------- MODULE CoexistenceArbiter --------------------------
(***************************************************************************)
(* The single-RF-path arbiter shared by the Wi-Fi, Bluetooth and 802.15.4   *)
(* frontends of one chip (crates/remu-radio/src/coexistence.rs).            *)
(*                                                                          *)
(* The arbiter keeps only the grant that is active now.  What it says about *)
(* the past is its append-only evidence, which is exported with a run; here *)
(* the evidence is `tenure', the interval each grant has held the RF path   *)
(* according to the events recorded so far.  A Denied event changes no      *)
(* interval and leaves no mark.                                             *)
(***************************************************************************)
EXTENDS Integers, FiniteSets

CONSTANTS
    Protocol,       \* RadioProtocol
    Priority,       \* u8 priorities in use
    ArbMaxTime,     \* the last SimTime
    ArbMaxId,       \* u64::MAX: next_id cannot step past it
    NoGrant         \* None

ASSUME ArbiterAssumption ==
    /\ Priority \subseteq Int
    /\ ArbMaxTime \in Nat
    /\ ArbMaxId \in Nat
    /\ NoGrant \notin [id : Nat, protocol : Protocol, end : Nat,
                       priority : Priority, preemptible : BOOLEAN]

VARIABLES
    arb_now,        \* CoexistenceArbiter.now
    next_id,        \* CoexistenceArbiter.next_id
    active,         \* CoexistenceArbiter.active
    tenure          \* CoexistenceArbiter.events, read as intervals per grant

arb_vars == <<arb_now, next_id, active, tenure>>

ArbTime == 0..ArbMaxTime
GrantId == 0..ArbMaxId
ActiveGrant == [id : GrantId, protocol : Protocol, end : ArbTime,
                priority : Priority, preemptible : BOOLEAN]

\* How an interval came to its end, as far as the evidence tells.
Ending == {"as_granted", "preempted", "released", "reset", "power_down"}
Tenure == [protocol : Protocol, start : ArbTime, end : ArbTime,
           priority : Priority, preemptible : BOOLEAN, how : Ending]

ArbInit ==
    /\ arb_now = 0
    /\ next_id = 0
    /\ active = NoGrant
    /\ tenure = << >>

-----------------------------------------------------------------------------
\* The grant advance_to(at) leaves active: its end is exclusive.
Unexpired(at) ==
    IF active # NoGrant /\ active.end <= at THEN NoGrant ELSE active

\* The clock part of every operation: an earlier time is a TimeReversal,
\* which returns before anything is touched.
Reach(at) ==
    /\ at >= arb_now
    /\ arb_now' = at

\* CoexistenceArbiter::advance_to.
ArbAdvance(at) ==
    /\ Reach(at)
    /\ active' = Unexpired(at)
    /\ UNCHANGED <<next_id, tenure>>

\* The evidence names the reason but keeps the requested end.
Closed_KeepsEnd(g, at, how) == [tenure EXCEPT ![g].how = how]

\* The interval of grant g ends at `at' for the reason `how'.
Closed(g, at, how) ==
    [tenure EXCEPT ![g].end = at, ![g].how = how]

\* request, zero duration or an end past the last SimTime: the clock has
\* already advanced, and an expired grant has already been dropped.
RequestInvalid(start, duration) ==
    /\ duration = 0 \/ start + duration > ArbMaxTime
    /\ ArbAdvance(start)

\* Equal priority already preempts.
Wins_OnTie(priority, holder) == priority >= holder.priority /\ holder.preemptible

\* The request takes the RF path from the holder.
Wins(priority, holder) == priority > holder.priority /\ holder.preemptible

\* request, the holder keeps the path: equal priorities retain it.
RequestDenied(start, duration, priority) ==
    /\ duration > 0 /\ start + duration <= ArbMaxTime
    /\ Unexpired(start) # NoGrant
    /\ ~Wins(priority, Unexpired(start))
    /\ ArbAdvance(start)

\* request, the path is free or taken from a preemptible lower priority.
RequestGranted(protocol, start, duration, priority, preemptible) ==
    /\ duration > 0 /\ start + duration <= ArbMaxTime
    /\ Reach(start)
    /\ LET holder == Unexpired(start)
           before == IF holder = NoGrant THEN tenure
                     ELSE Closed(holder.id, start, "preempted")
           end == start + duration
       IN  /\ holder # NoGrant => Wins(priority, holder)
           /\ next_id < ArbMaxId
           /\ next_id' = next_id + 1
           /\ active' = [id |-> next_id, protocol |-> protocol, end |-> end,
                         priority |-> priority, preemptible |-> preemptible]
           /\ tenure' = [g \in DOMAIN tenure \cup {next_id} |->
                           IF g = next_id
                           THEN [protocol |-> protocol, start |-> start,
                                 end |-> end, priority |-> priority,
                                 preemptible |-> preemptible,
                                 how |-> "as_granted"]
                           ELSE before[g]]

\* request, the identifiers are used up: the Preempted event is already in
\* the evidence when the error returns, and the holder stays active.
RequestExhausted(start, duration, priority) ==
    /\ duration > 0 /\ start + duration <= ArbMaxTime
    /\ Reach(start)
    /\ next_id = ArbMaxId
    /\ LET holder == Unexpired(start)
       IN  /\ holder # NoGrant => Wins(priority, holder)
           /\ active' = holder
           /\ tenure' = IF holder = NoGrant THEN tenure
                        ELSE Closed(holder.id, start, "preempted")
    /\ UNCHANGED next_id

ArbRequest(protocol, start, duration, priority, preemptible) ==
    \/ RequestInvalid(start, duration)
    \/ RequestDenied(start, duration, priority)
    \/ RequestGranted(protocol, start, duration, priority, preemptible)
    \/ RequestExhausted(start, duration, priority)

\* The identifier is not compared with the active grant's.
ArbRelease_AnyId(g, at) ==
    /\ Reach(at)
    /\ active' = NoGrant
    /\ tenure' = IF Unexpired(at) # NoGrant /\ g \in DOMAIN tenure
                 THEN Closed(g, at, "released") ELSE tenure
    /\ UNCHANGED next_id

\* CoexistenceArbiter::release: a stale identifier only moves the clock.
ArbRelease(g, at) ==
    /\ Reach(at)
    /\ LET holder == Unexpired(at)
           matches == holder # NoGrant /\ holder.id = g
       IN  /\ active' = IF matches THEN NoGrant ELSE holder
           /\ tenure' = IF matches THEN Closed(g, at, "released") ELSE tenure
    /\ UNCHANGED next_id

\* Ownership is cancelled without evidence of whose it was.
Cancel_Silently(at, how) ==
    /\ Reach(at)
    /\ active' = NoGrant
    /\ UNCHANGED <<next_id, tenure>>

\* reset and power_down cancel whatever is active; identifiers go on.
Cancel(at, how) ==
    /\ Reach(at)
    /\ active' = NoGrant
    /\ tenure' = IF Unexpired(at) = NoGrant THEN tenure
                 ELSE Closed(Unexpired(at).id, at, how)
    /\ UNCHANGED next_id

ArbReset(at) == Cancel(at, "reset")
ArbPowerDown(at) == Cancel(at, "power_down")

ArbNext ==
    \E at \in ArbTime :
        \/ ArbAdvance(at)
        \/ \E p \in Protocol, d \in ArbTime, r \in Priority, b \in BOOLEAN :
               ArbRequest(p, at, d, r, b)
        \/ \E g \in GrantId : ArbRelease(g, at)
        \/ ArbReset(at)
        \/ ArbPowerDown(at)

ArbSpec == ArbInit /\ [][ArbNext]_arb_vars

-----------------------------------------------------------------------------
(* Properties *)

\* Type invariant.
ArbTypeOK ==
    /\ arb_now \in ArbTime
    /\ next_id \in GrantId
    /\ active \in ActiveGrant \cup {NoGrant}
    /\ DOMAIN tenure = 0..(next_id - 1)
    /\ \A g \in DOMAIN tenure : tenure[g] \in Tenure

\* No two grants ever hold the RF path at the same time, across expiry,
\* preemption, release, reset and power-down, and identifiers are in the
\* order of ownership: request may overwrite `active' only because of what
\* the evidence says about the previous holder.
ExclusiveOwnership ==
    \A g, h \in DOMAIN tenure : g < h => tenure[g].end <= tenure[h].start

\* The evidence and the arbiter's answer agree: owner() reports exactly the
\* grant whose interval is still open at the arbiter's clock.  (Once the
\* identifiers run out request records a preemption it does not carry out.)
EvidenceMatchesOwner ==
    next_id < ArbMaxId =>
        \A g \in DOMAIN tenure :
            arb_now < tenure[g].end <=>
                /\ active # NoGrant
                /\ active.id = g
                /\ active.end = tenure[g].end
                /\ active.protocol = tenure[g].protocol
                /\ arb_now < active.end

\* A grant is cut short by another request only if it was preemptible, and
\* then the very next grant starts where it ends, with a higher priority.
PreemptedOnlyByHigher ==
    \A g \in DOMAIN tenure :
        /\ tenure[g].how = "preempted"
        /\ next_id < ArbMaxId
        => /\ tenure[g].preemptible
           /\ g + 1 \in DOMAIN tenure
           /\ tenure[g + 1].start = tenure[g].end
           /\ tenure[g + 1].priority > tenure[g].priority

\* An interval that is over never changes again: a stale release, a reset or
\* a late request rewrites nothing in the evidence.  (Again until the
\* identifiers run out.)
ClosedIsFinal ==
    [][next_id < ArbMaxId =>
          \A g \in DOMAIN tenure :
             tenure[g].end <= arb_now => tenure'[g] = tenure[g]]_arb_vars

-----------------------------------------------------------------------------
(* The inductive invariant of CoexistenceArbiter_proofs *)

\* Every interval but the newest is over, and the newest can be open only
\* while its grant is active with the same end.
OpenIsActive ==
    \A g \in DOMAIN tenure :
        /\ tenure[g].start <= tenure[g].end
        /\ tenure[g].start <= arb_now
        /\ tenure[g].end > arb_now =>
              active # NoGrant /\ active.id = g /\ active.end = tenure[g].end

\* The active grant is the newest one and unexpired; until the identifiers
\* run out its record and its evidence say the same.
ActiveIsNewest ==
    active # NoGrant =>
        /\ active.id \in DOMAIN tenure
        /\ active.id = next_id - 1
        /\ arb_now < active.end
        /\ next_id < ArbMaxId =>
              LET t == tenure[active.id]
              IN  /\ active.end = t.end
                  /\ active.protocol = t.protocol
                  /\ active.priority = t.priority
                  /\ active.preemptible = t.preemptible

ArbInv ==
    /\ ArbTypeOK
    /\ ExclusiveOwnership
    /\ OpenIsActive
    /\ ActiveIsNewest
    /\ PreemptedOnlyByHigher
=============================================================================
