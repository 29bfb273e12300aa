--------------------------- MODULE C6Radio_proofs ---------------------------
(***************************************************************************)
(* The ESP32-C6 radio service for every set of airtimes, priorities and     *)
(* every length of the run: it drives the coexistence arbiter only through  *)
(* the arbiter's own operations, and the inductive invariant C6Inv yields   *)
(* the properties of MCC6Radio.cfg.                                         *)
(*                                                                          *)
(* C6Inv falls into four parts over nearly disjoint variables, so that a    *)
(* phase has to say something only about the parts it touches.              *)
(***************************************************************************)
EXTENDS C6Radio, CoexistenceArbiter_proofs, FiniteSetTheorems

\* The RF path: arbiter, medium and the mapping between them.
RfInv ==
    /\ ArbInv
    /\ now \in ArbTime /\ arb_now <= now
    /\ air \in Seq(AirFrame)
    /\ mapping # None => mapping.grant \in DOMAIN tenure /\ mapping.tx \in DOMAIN air
    /\ FramesMatchTenure
    /\ OwnerOnAir

\* The end of the run.
RunInv ==
    /\ fault \in {"none", "overlap", "domain", "completion"}
    /\ phase = "stopped" <=> fault # "none"

\* The registers of the modem and the peripheral.
RegisterInv ==
    /\ ready \in [Protocol -> BOOLEAN]
    /\ resets \subseteq Protocol \cup {coexist}
    /\ mac_reset \in BOOLEAN /\ receiving \in BOOLEAN /\ awaiting \in BOOLEAN
    /\ tuned \in BOOLEAN /\ seen_ready \in BOOLEAN
    /\ command \in Commands \cup {None}

\* The operations in flight.
OperationInv ==
    /\ activity \in {"idle", "receive", "transmit", "cca", "awaiting_ack"}
    /\ pending_cca = None \/ pending_cca \in Nat
    /\ \A p \in pending_tx : p.tx \in DOMAIN air /\ p.wants_ack \in BOOLEAN
    /\ \A p \in pending_ack : p.tx \in DOMAIN air
    /\ OneOperation

LEMMA C6InvParts == C6Inv <=> RfInv /\ RunInv /\ RegisterInv /\ OperationInv
  BY DEF C6Inv, C6TypeOK, OwnershipNeverContradicted, ArbInv, RfInv, RunInv, RegisterInv,
         OperationInv

-----------------------------------------------------------------------------
(* The RF path *)

\* A step that touches neither the arbiter nor the medium.
LEMMA RfFrame ==
    ASSUME RfInv, UNCHANGED <<arb_vars, air_vars, now>>, fault' = "none" => fault = "none"
    PROVE  RfInv'
  <1>1. ArbInv'
    BY DEF arb_vars, RfInv, ArbInv, ArbTypeOK, ExclusiveOwnership, OpenIsActive,
           ActiveIsNewest, PreemptedOnlyByHigher
  <1>2. QED
    BY <1>1 DEF RfInv, arb_vars, air_vars, FramesMatchTenure, OwnerOnAir, Mapped

\* The frame of the active grant can be cut as long as the grant has not
\* expired: its transmission is unresolved and started in the past.
LEMMA OwnerTruncatable ==
    ASSUME RfInv, fault = "none", active # NoGrant, now < active.end
    PROVE  /\ Mapped(active.id)
           /\ mapping.tx \in DOMAIN air
           /\ air[mapping.tx].grant = active.id
           /\ Truncatable(mapping.tx)
           /\ active.id \in DOMAIN tenure
           /\ active.id \in Nat
           /\ Unexpired(now) = active
  <1>1. /\ Mapped(active.id) /\ mapping.tx \in DOMAIN air
        /\ air[mapping.tx].grant = active.id /\ air[mapping.tx].state = "on_air"
        /\ tenure[active.id].end = active.end
    BY DEF RfInv, OwnerOnAir, Mapped
  <1>2. /\ active.id \in DOMAIN tenure /\ active \in ActiveGrant
        /\ tenure[active.id].start <= arb_now /\ tenure[active.id] \in Tenure
    BY DEF RfInv, ArbInv, ActiveIsNewest, OpenIsActive, ArbTypeOK
  <1>3. /\ air[mapping.tx].start = tenure[active.id].start
        /\ air[mapping.tx].end = active.end
    BY <1>1 DEF RfInv, FramesMatchTenure
  <1>4. /\ tenure[active.id].start \in Int /\ arb_now \in Int /\ now \in Int
        /\ active.end \in Int /\ active.id \in Nat
    BY <1>2, ArbiterAssumption DEF Tenure, ActiveGrant, ArbTime, GrantId, RfInv, ArbInv, ArbTypeOK
  <1>5. now \in air[mapping.tx].start..air[mapping.tx].end
    BY <1>2, <1>3, <1>4 DEF RfInv
  <1>6. Unexpired(now) = active
    BY <1>4 DEF Unexpired
  <1>7. QED
    BY <1>1, <1>2, <1>4, <1>5, <1>6 DEF Truncatable

\* What truncation does to the chip's transmissions.
LEMMA TruncatedAirFacts ==
    ASSUME RfInv, NEW t \in DOMAIN air
    PROVE  /\ TruncatedAir(t) \in Seq(AirFrame)
           /\ DOMAIN TruncatedAir(t) = DOMAIN air /\ Len(TruncatedAir(t)) = Len(air)
           /\ \A u \in DOMAIN air \ {t} : TruncatedAir(t)[u] = air[u]
           /\ TruncatedAir(t)[t].grant = air[t].grant
           /\ TruncatedAir(t)[t].protocol = air[t].protocol
           /\ TruncatedAir(t)[t].start = air[t].start
           /\ TruncatedAir(t)[t].end = now
  <1>1. air[t] \in AirFrame /\ now \in ArbTime /\ air \in Seq(AirFrame)
    BY DEF RfInv
  <1> DEFINE cut == [air[t] EXCEPT !.end = now, !.state = "truncated"]
  <1>2. /\ cut \in AirFrame /\ cut.grant = air[t].grant /\ cut.protocol = air[t].protocol
        /\ cut.start = air[t].start /\ cut.end = now
    BY <1>1 DEF AirFrame
  <1>3. TruncatedAir(t) = [air EXCEPT ![t] = cut]
    BY DEF TruncatedAir
  <1> HIDE DEF cut
  <1>4. QED
    BY <1>1, <1>2, <1>3

\* Cutting the owner's frame when the arbiter closes its interval keeps the
\* frames and the evidence in step.
LEMMA CutMatchesClosed ==
    ASSUME RfInv, NEW tx \in DOMAIN air, NEW T,
           DOMAIN tenure \subseteq DOMAIN T,
           \A g \in DOMAIN tenure \ {air[tx].grant} : T[g] = tenure[g],
           T[air[tx].grant].protocol = tenure[air[tx].grant].protocol,
           T[air[tx].grant].start = tenure[air[tx].grant].start,
           T[air[tx].grant].end = now
    PROVE  \A t \in DOMAIN air :
              LET f == TruncatedAir(tx)[t]
              IN  /\ f.grant = air[t].grant
                  /\ f.grant \in DOMAIN T
                  /\ f.protocol = T[f.grant].protocol
                  /\ f.start = T[f.grant].start
                  /\ f.end = T[f.grant].end
  <1>1. SUFFICES ASSUME NEW t \in DOMAIN air
                 PROVE  LET f == TruncatedAir(tx)[t]
                        IN  /\ f.grant = air[t].grant
                            /\ f.grant \in DOMAIN T
                            /\ f.protocol = T[f.grant].protocol
                            /\ f.start = T[f.grant].start
                            /\ f.end = T[f.grant].end
    OBVIOUS
  <1>2. CASE t = tx
    BY <1>2, TruncatedAirFacts DEF RfInv, FramesMatchTenure
  <1>3. CASE t # tx
    <2>1. TruncatedAir(tx)[t] = air[t] /\ air[t].grant # air[tx].grant
      BY <1>3, TruncatedAirFacts DEF RfInv, FramesMatchTenure
    <2>2. QED
      BY <2>1 DEF RfInv, FramesMatchTenure
  <1>4. QED
    BY <1>2, <1>3

\* The evidence after a granted request.
LEMMA GrantedTenure ==
    ASSUME RfInv, NEW p, NEW d, NEW r, NEW b, RequestGranted(p, now, d, r, b)
    PROVE  /\ next_id \in Nat /\ next_id \notin DOMAIN tenure
           /\ DOMAIN tenure' = DOMAIN tenure \cup {next_id}
           /\ tenure'[next_id].protocol = p
           /\ tenure'[next_id].start = now
           /\ tenure'[next_id].end = now + d
           /\ \A g \in DOMAIN tenure :
                 Unexpired(now) = NoGrant \/ g # active.id => tenure'[g] = tenure[g]
           /\ active.id \in DOMAIN tenure /\ Unexpired(now) # NoGrant =>
                 /\ tenure'[active.id].protocol = tenure[active.id].protocol
                 /\ tenure'[active.id].start = tenure[active.id].start
                 /\ tenure'[active.id].end = now
           /\ active' = [id |-> next_id, protocol |-> p, end |-> now + d, priority |-> r,
                         preemptible |-> b]
  <1>1. /\ next_id \in Nat /\ DOMAIN tenure = 0..(next_id - 1)
        /\ \A g \in DOMAIN tenure : tenure[g] \in Tenure
    BY ArbiterAssumption DEF RfInv, ArbInv, ArbTypeOK, GrantId
  <1>2. next_id \notin DOMAIN tenure
    BY <1>1
  <1> DEFINE new == [protocol |-> p, start |-> now, end |-> now + d, priority |-> r,
                     preemptible |-> b, how |-> "as_granted"]
             before == IF Unexpired(now) = NoGrant THEN tenure
                       ELSE Closed(Unexpired(now).id, now, "preempted")
  <1>3. /\ tenure' = [g \in DOMAIN tenure \cup {next_id} |-> IF g = next_id THEN new ELSE before[g]]
        /\ active' = [id |-> next_id, protocol |-> p, end |-> now + d, priority |-> r,
                      preemptible |-> b]
    BY DEF RequestGranted
  <1>4. /\ DOMAIN tenure' = DOMAIN tenure \cup {next_id} /\ tenure'[next_id] = new
        /\ \A g \in DOMAIN tenure : tenure'[g] = before[g]
    BY <1>2, <1>3
  <1>5. Unexpired(now) # NoGrant => Unexpired(now) = active
    BY DEF Unexpired
  <1>6. \A g \in DOMAIN tenure :
           Unexpired(now) = NoGrant \/ g # active.id => before[g] = tenure[g]
    BY <1>5 DEF Closed
  <1>7. active.id \in DOMAIN tenure /\ Unexpired(now) # NoGrant =>
           /\ before[active.id].protocol = tenure[active.id].protocol
           /\ before[active.id].start = tenure[active.id].start
           /\ before[active.id].end = now
    BY <1>1, <1>5 DEF Closed, Tenure
  <1> HIDE DEF before
  <1>8. QED
    BY <1>1, <1>2, <1>3, <1>4, <1>6, <1>7

\* The checks of Seize cannot fail: a request that preempts finds the
\* holder's transmission mapped and unresolved.
LEMMA SeizeCases ==
    ASSUME RfInv, fault = "none", NEW p, NEW d, NEW r, NEW b, NEW legal,
           Seize(p, d, r, b, legal)
    PROVE  LET holder == Unexpired(now)
               cut == IF holder = NoGrant THEN air ELSE TruncatedAir(mapping.tx)
               frame == [protocol |-> p, grant |-> next_id, start |-> now,
                         end |-> now + d, state |-> "on_air"]
           IN  /\ holder # NoGrant => /\ holder = active /\ active.id \in DOMAIN tenure
                                      /\ mapping.tx \in DOMAIN air
                                      /\ air[mapping.tx].grant = active.id
               /\ \/ /\ fault' = "overlap" /\ air' = cut
                     /\ mapping' \in {mapping, None}
                  \/ /\ fault' = "none" /\ air' = Append(cut, frame)
                     /\ mapping' = [grant |-> next_id, tx |-> Len(air) + 1]
  <1>1. CASE Unexpired(now) = NoGrant
    BY <1>1 DEF Seize
  <1>2. CASE Unexpired(now) # NoGrant
    <2>1. active # NoGrant /\ now < active.end
      <3>1. now \in ArbTime /\ now >= arb_now /\ ArbInv
        BY ArbiterAssumption DEF RfInv, ArbInv, ArbTypeOK, ArbTime
      <3>2. QED
        BY <1>2, <3>1, UnexpiredFacts
    <2>2. /\ Mapped(active.id) /\ mapping.tx \in DOMAIN air /\ Truncatable(mapping.tx)
          /\ air[mapping.tx].grant = active.id /\ active.id \in DOMAIN tenure
          /\ Unexpired(now) = active
      BY <2>1, OwnerTruncatable
    <2>3. QED
      BY <1>2, <2>2 DEF Seize
  <1>3. QED
    BY <1>1, <1>2

LEMMA RfSeize ==
    ASSUME RfInv, fault = "none", NEW p \in Protocol, NEW d \in Airtime, NEW r \in Priority,
           NEW b \in BOOLEAN, NEW legal, Seize(p, d, r, b, legal), now' = now
    PROVE  /\ RfInv' /\ ArbNext
           /\ fault' \in {"none", "overlap"}
           /\ DOMAIN air \subseteq DOMAIN air'
           /\ fault' = "none" => Len(air) + 1 \in DOMAIN air'
  <1> DEFINE holder == Unexpired(now)
             cut == IF holder = NoGrant THEN air ELSE TruncatedAir(mapping.tx)
             frame == [protocol |-> p, grant |-> next_id, start |-> now,
                       end |-> now + d, state |-> "on_air"]
  <1>0. RequestGranted(p, now, d, r, b)
    BY DEF Seize
  <1>1. /\ now \in ArbTime /\ now \in Nat /\ d \in Nat /\ d \in ArbTime
        /\ now + d \in ArbTime /\ arb_now' = now /\ d > 0
    BY <1>0, ArbiterAssumption, C6Assumption DEF RfInv, ArbTime, RequestGranted, Reach
  <1>2. ArbNext
    BY <1>0, <1>1 DEF ArbNext, ArbRequest
  <1>3. ArbInv'
    BY <1>2, ArbStep DEF RfInv
  <1>4. /\ holder # NoGrant => /\ holder = active /\ active.id \in DOMAIN tenure
                               /\ mapping.tx \in DOMAIN air
                               /\ air[mapping.tx].grant = active.id
        /\ \/ /\ fault' = "overlap" /\ air' = cut
              /\ mapping' \in {mapping, None}
           \/ /\ fault' = "none" /\ air' = Append(cut, frame)
              /\ mapping' = [grant |-> next_id, tx |-> Len(air) + 1]
    BY SeizeCases
  <1>5. /\ next_id \in Nat /\ next_id \notin DOMAIN tenure
        /\ DOMAIN tenure' = DOMAIN tenure \cup {next_id}
        /\ tenure'[next_id].protocol = p
        /\ tenure'[next_id].start = now
        /\ tenure'[next_id].end = now + d
        /\ \A g \in DOMAIN tenure :
              holder = NoGrant \/ g # active.id => tenure'[g] = tenure[g]
        /\ active.id \in DOMAIN tenure /\ holder # NoGrant =>
              /\ tenure'[active.id].protocol = tenure[active.id].protocol
              /\ tenure'[active.id].start = tenure[active.id].start
              /\ tenure'[active.id].end = now
        /\ active' = [id |-> next_id, protocol |-> p, end |-> now + d, priority |-> r,
                      preemptible |-> b]
    BY <1>0, GrantedTenure
  <1>6. /\ cut \in Seq(AirFrame) /\ Len(cut) = Len(air) /\ DOMAIN cut = DOMAIN air
        /\ \A t \in DOMAIN air : /\ cut[t].grant = air[t].grant
                                 /\ cut[t].grant \in DOMAIN tenure
                                 /\ cut[t].protocol = tenure'[cut[t].grant].protocol
                                 /\ cut[t].start = tenure'[cut[t].grant].start
                                 /\ cut[t].end = tenure'[cut[t].grant].end
    <2>1. CASE holder = NoGrant
      BY <2>1, <1>5 DEF RfInv, FramesMatchTenure
    <2>2. CASE holder # NoGrant
      <3>1. /\ TruncatedAir(mapping.tx) \in Seq(AirFrame)
            /\ Len(TruncatedAir(mapping.tx)) = Len(air)
            /\ DOMAIN TruncatedAir(mapping.tx) = DOMAIN air
        BY <1>4, <2>2, TruncatedAirFacts
      <3>2. \A t \in DOMAIN air :
              LET f == TruncatedAir(mapping.tx)[t]
              IN  /\ f.grant = air[t].grant
                  /\ f.grant \in DOMAIN tenure'
                  /\ f.protocol = tenure'[f.grant].protocol
                  /\ f.start = tenure'[f.grant].start
                  /\ f.end = tenure'[f.grant].end
        BY <1>4, <1>5, <2>2, CutMatchesClosed
      <3>3. \A t \in DOMAIN air : air[t].grant \in DOMAIN tenure
        BY DEF RfInv, FramesMatchTenure
      <3>4. QED
        BY <2>2, <3>1, <3>2, <3>3
    <2>3. QED
      BY <2>1, <2>2
  <1> HIDE DEF cut
  <1>7. \A t, u \in DOMAIN air : cut[t].grant = cut[u].grant => t = u
    BY <1>6 DEF RfInv, FramesMatchTenure
  <1>8. CASE fault' = "overlap"
    <2>1. air' = cut /\ mapping' \in {mapping, None}
      BY <1>4, <1>8
    <2>2. FramesMatchTenure'
      BY <1>5, <1>6, <1>7, <2>1 DEF FramesMatchTenure
    <2>3. mapping' # None => mapping'.grant \in DOMAIN tenure' /\ mapping'.tx \in DOMAIN air'
      BY <1>5, <1>6, <2>1 DEF RfInv
    <2>4. OwnerOnAir'
      BY <1>8 DEF OwnerOnAir
    <2>5. QED
      BY <1>1, <1>2, <1>3, <1>6, <1>8, <2>1, <2>2, <2>3, <2>4 DEF RfInv
  <1>9. CASE fault' = "none"
    <2>1. air' = Append(cut, frame) /\ mapping' = [grant |-> next_id, tx |-> Len(air) + 1]
      BY <1>4, <1>9
    <2>2. frame \in AirFrame
      <3>1. next_id \in GrantId
        BY DEF RfInv, ArbInv, ArbTypeOK
      <3>2. QED
        BY <1>1, <3>1 DEF AirFrame
    <2>3. /\ frame.protocol = p /\ frame.grant = next_id /\ frame.start = now
          /\ frame.end = now + d /\ frame.state = "on_air"
      OBVIOUS
    <2> HIDE DEF frame
    <2>4. /\ air' \in Seq(AirFrame) /\ Len(air) \in Nat
          /\ DOMAIN air = 1..Len(air) /\ DOMAIN air' = 1..(Len(air) + 1)
          /\ air'[Len(air) + 1] = frame
          /\ \A t \in DOMAIN air : air'[t] = cut[t]
      BY <1>6, <2>1, <2>2 DEF RfInv
    <2>5. \A t \in DOMAIN air' : t \in DOMAIN air \/ t = Len(air) + 1
      BY <2>4
    <2>6. FramesMatchTenure'
      <3>1. ASSUME NEW t \in DOMAIN air'
            PROVE  /\ air'[t].grant \in DOMAIN tenure'
                   /\ air'[t].protocol = tenure'[air'[t].grant].protocol
                   /\ air'[t].start = tenure'[air'[t].grant].start
                   /\ air'[t].end = tenure'[air'[t].grant].end
        <4>1. CASE t \in DOMAIN air
          BY <4>1, <1>5, <1>6, <2>4
        <4>2. CASE t = Len(air) + 1
          BY <4>2, <1>5, <2>3, <2>4
        <4>3. QED
          BY <4>1, <4>2, <2>5
      <3>2. ASSUME NEW t \in DOMAIN air', NEW u \in DOMAIN air', air'[t].grant = air'[u].grant
            PROVE  t = u
        BY <3>2, <1>5, <1>6, <1>7, <2>3, <2>4, <2>5
      <3>3. QED
        BY <3>1, <3>2 DEF FramesMatchTenure
    <2>7. mapping' # None /\ mapping'.grant = next_id /\ mapping'.tx = Len(air) + 1
      BY <1>5, <2>1, <2>4, C6Assumption
    <2>8. OwnerOnAir'
      BY <1>5, <2>3, <2>4, <2>7 DEF OwnerOnAir, Mapped
    <2>9. Len(air) + 1 \in DOMAIN air' /\ DOMAIN air \subseteq DOMAIN air'
      BY <2>4
    <2>10. QED
      BY <1>1, <1>2, <1>3, <1>5, <1>9, <2>4, <2>6, <2>7, <2>8, <2>9 DEF RfInv
  <1>10. QED
    BY <1>4, <1>8, <1>9

\* A clock movement of the arbiter that leaves the medium alone.
LEMMA RfDenied ==
    ASSUME RfInv, fault = "none", NEW d, NEW r, RequestDenied(now, d, r),
           UNCHANGED <<air_vars, fault, now>>
    PROVE  RfInv' /\ ArbNext
  <1>1. ArbAdvance(now) /\ now \in ArbTime
    BY DEF RequestDenied, RfInv
  <1>2. ArbNext
    BY <1>1 DEF ArbNext
  <1>3. ArbInv'
    BY <1>2, ArbStep DEF RfInv
  <1>4. tenure' = tenure /\ arb_now' = now /\ active' \in {active, NoGrant}
    BY <1>1 DEF ArbAdvance, Reach, Unexpired
  <1>5. OwnerOnAir'
    BY <1>4 DEF RfInv, OwnerOnAir, Mapped, air_vars
  <1>6. now <= now
    BY <1>1, ArbiterAssumption DEF ArbTime
  <1>7. QED
    BY <1>2, <1>3, <1>4, <1>5, <1>6 DEF RfInv, FramesMatchTenure, air_vars

\* The medium resolves what has ended, which never includes the frame of a
\* grant the arbiter keeps.
LEMMA RfMedium ==
    ASSUME RfInv, fault = "none", ServiceMedium
    PROVE  RfInv' /\ ArbNext /\ DOMAIN air' = DOMAIN air
  <1> DEFINE done(t) == [air[t] EXCEPT !.state = "done"]
             over(t) == air[t].state = "on_air" /\ air[t].end <= now
  <1>1. /\ ArbAdvance(now) /\ now \in ArbTime /\ fault' = "none"
        /\ air' = [t \in DOMAIN air |-> IF over(t) THEN done(t) ELSE air[t]]
        /\ mapping' = mapping /\ now' = now
    BY DEF ServiceMedium, RfInv
  <1>2. ArbNext
    BY <1>1 DEF ArbNext
  <1>3. ArbInv'
    BY <1>2, ArbStep DEF RfInv
  <1>4. tenure' = tenure /\ arb_now' = now
    BY <1>1 DEF ArbAdvance, Reach
  <1>5. now <= now
    BY <1>1, ArbiterAssumption DEF ArbTime
  <1>6. ASSUME NEW t \in DOMAIN air
        PROVE  /\ air'[t] \in AirFrame
               /\ air'[t].grant = air[t].grant /\ air'[t].protocol = air[t].protocol
               /\ air'[t].start = air[t].start /\ air'[t].end = air[t].end
               /\ ~(air[t].end <= now) => air'[t] = air[t]
    <2>1. air[t] \in AirFrame
      BY DEF RfInv
    <2>2. /\ done(t) \in AirFrame
          /\ done(t).grant = air[t].grant /\ done(t).protocol = air[t].protocol
          /\ done(t).start = air[t].start /\ done(t).end = air[t].end
      BY <2>1 DEF AirFrame
    <2> HIDE DEF done
    <2>3. QED
      BY <1>1, <2>1, <2>2
  <1>7. DOMAIN air' = DOMAIN air /\ air' \in Seq(AirFrame)
    <2>1. DOMAIN air' = DOMAIN air
      BY <1>1
    <2>2. DOMAIN air = 1..Len(air) /\ Len(air) \in Nat
      BY DEF RfInv
    <2>3. air' = [t \in 1..Len(air) |-> air'[t]]
      BY <1>1, <2>2
    <2>4. QED
      BY <1>6, <2>1, <2>2, <2>3
  <1>8. FramesMatchTenure'
    BY <1>4, <1>6, <1>7 DEF RfInv, FramesMatchTenure
  <1>9. OwnerOnAir'
    <2>1. SUFFICES ASSUME active' # NoGrant
                   PROVE  /\ Mapped(active.id)' /\ air'[mapping'.tx].grant = active'.id
                          /\ air'[mapping'.tx].state = "on_air"
                          /\ tenure'[active'.id].end = active'.end
      BY DEF OwnerOnAir
    <2>2. active' = active /\ ~(active.end <= now)
      BY <1>1, <2>1 DEF ArbAdvance, Unexpired
    <2>3. /\ Mapped(active.id) /\ mapping.tx \in DOMAIN air
          /\ air[mapping.tx].grant = active.id /\ air[mapping.tx].state = "on_air"
          /\ tenure[active.id].end = active.end
      BY <2>1, <2>2 DEF RfInv, OwnerOnAir, Mapped
    <2>4. air[mapping.tx].end = active.end
      BY <2>3 DEF RfInv, FramesMatchTenure
    <2>5. air'[mapping.tx] = air[mapping.tx]
      BY <1>6, <2>2, <2>3, <2>4
    <2>6. QED
      BY <1>1, <1>4, <2>2, <2>3, <2>5 DEF Mapped
  <1>10. QED
    BY <1>1, <1>2, <1>3, <1>4, <1>5, <1>7, <1>8, <1>9 DEF RfInv

\* Ownership is cancelled: the arbiter closes the interval of an unexpired
\* grant and the medium cuts its transmission at the same instant.
LEMMA RfCancel ==
    ASSUME RfInv, fault = "none", NEW how \in {"reset", "power_down"}, Cancel(now, how),
           mapping' = None, fault' = "none", now' = now,
           IF active # NoGrant /\ active.end > now
           THEN air' = TruncatedAir(mapping.tx) ELSE air' = air
    PROVE  RfInv' /\ ArbNext /\ DOMAIN air' = DOMAIN air
  <1>1. now \in ArbTime /\ now <= now /\ arb_now' = now /\ active' = NoGrant
    BY ArbiterAssumption DEF RfInv, Cancel, Reach, ArbTime
  <1>2. ArbNext
    BY <1>1 DEF ArbNext, ArbReset, ArbPowerDown
  <1>3. ArbInv'
    BY <1>2, ArbStep DEF RfInv
  <1>4. OwnerOnAir'
    BY <1>1 DEF OwnerOnAir
  <1>5. air' \in Seq(AirFrame) /\ DOMAIN air' = DOMAIN air /\ FramesMatchTenure'
    <2>1. CASE active # NoGrant /\ active.end > now
      <3>1. active.end \in Int /\ now \in Int
        BY <1>1, <2>1, ArbiterAssumption DEF RfInv, ArbInv, ArbTypeOK, ActiveGrant, ArbTime
      <3>2. /\ mapping.tx \in DOMAIN air /\ air[mapping.tx].grant = active.id
            /\ active.id \in DOMAIN tenure /\ Unexpired(now) = active
        BY <2>1, <3>1, OwnerTruncatable
      <3>3. air' = TruncatedAir(mapping.tx)
        BY <2>1
      <3>4. tenure' = Closed(active.id, now, how)
        BY <2>1, <3>2 DEF Cancel
      <3>5. tenure[active.id] \in Tenure
        BY <3>2 DEF RfInv, ArbInv, ArbTypeOK
      <3>6. /\ DOMAIN tenure' = DOMAIN tenure
            /\ \A g \in DOMAIN tenure \ {active.id} : tenure'[g] = tenure[g]
            /\ tenure'[active.id].protocol = tenure[active.id].protocol
            /\ tenure'[active.id].start = tenure[active.id].start
            /\ tenure'[active.id].end = now
        BY <3>2, <3>4, <3>5 DEF Closed, Tenure
      <3>7. \A t \in DOMAIN air :
              LET f == TruncatedAir(mapping.tx)[t]
              IN  /\ f.grant = air[t].grant
                  /\ f.grant \in DOMAIN tenure'
                  /\ f.protocol = tenure'[f.grant].protocol
                  /\ f.start = tenure'[f.grant].start
                  /\ f.end = tenure'[f.grant].end
        BY <3>2, <3>6, CutMatchesClosed
      <3>8. air' \in Seq(AirFrame) /\ DOMAIN air' = DOMAIN air
        BY <3>2, <3>3, TruncatedAirFacts
      <3>9. \A t, u \in DOMAIN air' : air'[t].grant = air'[u].grant => t = u
        BY <3>3, <3>7, <3>8 DEF RfInv, FramesMatchTenure
      <3>10. QED
        BY <3>3, <3>7, <3>8, <3>9 DEF FramesMatchTenure
    <2>2. CASE ~(active # NoGrant /\ active.end > now)
      <3>1. active # NoGrant => active.end \in Int /\ now \in Int
        BY <1>1, ArbiterAssumption DEF RfInv, ArbInv, ArbTypeOK, ActiveGrant, ArbTime
      <3>2. Unexpired(now) = NoGrant
        BY <2>2, <3>1 DEF Unexpired
      <3>3. tenure' = tenure /\ air' = air
        BY <2>2, <3>2 DEF Cancel
      <3>4. QED
        BY <3>3 DEF RfInv, FramesMatchTenure
    <2>3. QED
      BY <2>1, <2>2
  <1>6. QED
    BY <1>1, <1>2, <1>3, <1>4, <1>5 DEF RfInv

\* reset_coexistence never finds the owner's transmission gone.
LEMMA RfReset ==
    ASSUME RfInv, fault = "none", NEW then, ResetCoexistence(then), now' = now
    PROVE  RfInv' /\ ArbNext /\ DOMAIN air' = DOMAIN air /\ fault' = "none" /\ phase' = then
  <1>1. Cancel(now, "reset") /\ mapping' = None
    BY DEF ResetCoexistence, ArbReset
  <1>2. CASE active # NoGrant /\ active.end > now
    <2>1. active.end \in Int /\ now \in Int
      BY <1>2, ArbiterAssumption DEF RfInv, ArbInv, ArbTypeOK, ActiveGrant, ArbTime
    <2>2. Mapped(active.id) /\ Truncatable(mapping.tx)
      BY <1>2, <2>1, OwnerTruncatable
    <2>3. air' = TruncatedAir(mapping.tx) /\ fault' = "none"
      BY <1>2, <2>2 DEF ResetCoexistence, Mapped
    <2>4. QED
      BY <1>1, <1>2, <2>3, RfCancel DEF ResetCoexistence, Then
  <1>3. CASE ~(active # NoGrant /\ active.end > now)
    <2>1. air' = air /\ fault' = "none"
      BY <1>3 DEF ResetCoexistence
    <2>2. QED
      BY <1>1, <1>3, <2>1, RfCancel DEF ResetCoexistence, Then
  <1>4. QED
    BY <1>2, <1>3

\* Neither does power_down_coexistence.
LEMMA RfPower ==
    ASSUME RfInv, fault = "none", ServicePower
    PROVE  /\ RfInv' /\ [ArbNext]_arb_vars /\ DOMAIN air' = DOMAIN air
           /\ fault' = "none" /\ phase' = "domain"
  <1>1. CASE active = NoGrant \/ ready[active.protocol] \/ active.end <= now
    <2>1. UNCHANGED <<arb_vars, air_vars, fault, now>>
      BY <1>1 DEF ServicePower
    <2>2. QED
      BY <2>1, RfFrame DEF ServicePower, Then, air_vars
  <1>2. CASE ~(active = NoGrant \/ ready[active.protocol] \/ active.end <= now)
    <2>1. active.end \in Int /\ now \in Int
      BY <1>2, ArbiterAssumption DEF RfInv, ArbInv, ArbTypeOK, ActiveGrant, ArbTime
    <2>2. /\ active # NoGrant /\ active.end > now
          /\ Mapped(active.id) /\ Truncatable(mapping.tx)
      BY <1>2, <2>1, OwnerTruncatable
    <2>3. /\ Cancel(now, "power_down") /\ air' = TruncatedAir(mapping.tx) /\ mapping' = None
          /\ fault' = "none" /\ now' = now
      BY <1>2, <2>2 DEF ServicePower, ArbPowerDown
    <2>4. QED
      BY <2>2, <2>3, RfCancel DEF ServicePower, Then
  <1>3. QED
    BY <1>1, <1>2

-----------------------------------------------------------------------------
(* Steps *)

C6Parts == RfInv /\ RunInv /\ RegisterInv /\ OperationInv

\* Every step keeps the invariant, and the arbiter sees one of its own
\* operations or nothing.

LEMMA RegisterFrame ==
    ASSUME RegisterInv, UNCHANGED <<modem_vars, mac_vars, tuned, seen_ready>>
    PROVE  RegisterInv'
  BY DEF RegisterInv, modem_vars, mac_vars

LEMMA OperationFrame ==
    ASSUME OperationInv, UNCHANGED <<activity, pending_tx, pending_ack, pending_cca>>,
           DOMAIN air \subseteq DOMAIN air', fault' = "none" => fault = "none"
    PROVE  OperationInv'
  BY DEF OperationInv, OneOperation

LEMMA RunThen ==
    ASSUME NEW q, q # "stopped", Then(q),
           fault' \in {"none", "overlap", "domain", "completion"}
    PROVE  RunInv'
  BY DEF RunInv, Then

LEMMA InstructionStep ==
    ASSUME C6Parts, Instruction
    PROVE  C6Parts' /\ [ArbNext]_arb_vars
  <1>1. /\ fault' = fault /\ fault = "none" /\ phase' = "reset" /\ now' = now + 1
        /\ now < ArbMaxTime
        /\ UNCHANGED arb_vars /\ UNCHANGED <<air_vars, legality_vars, pending_vars>>
    BY DEF Instruction, C6Parts, RunInv
  <1>2. RfInv'
    <2>1. ArbInv'
      BY <1>1 DEF arb_vars, C6Parts, RfInv, ArbInv, ArbTypeOK, ExclusiveOwnership, OpenIsActive,
                  ActiveIsNewest, PreemptedOnlyByHigher
    <2>2. now' \in ArbTime /\ arb_now' <= now'
      BY <1>1, ArbiterAssumption DEF C6Parts, RfInv, ArbInv, ArbTypeOK, ArbTime, arb_vars
    <2>3. QED
      BY <1>1, <2>1, <2>2 DEF C6Parts, RfInv, arb_vars, air_vars, FramesMatchTenure,
                              OwnerOnAir, Mapped
  <1>3. RunInv'
    BY <1>1 DEF RunInv
  <1>4. OperationInv'
    BY <1>1, OperationFrame DEF C6Parts, air_vars, legality_vars, pending_vars
  <1>5. RegisterInv'
    <2>1. tuned' = tuned /\ seen_ready' = seen_ready
      BY <1>1 DEF pending_vars, legality_vars
    <2>2. CASE UNCHANGED <<modem_vars, mac_vars>>
      BY <2>1, <2>2, RegisterFrame DEF C6Parts
    <2>3. ASSUME NEW c \in Commands, Write(c) PROVE RegisterInv'
      BY <2>1, <2>3 DEF C6Parts, RegisterInv, Write, modem_vars
    <2>4. ASSUME NEW D \in SUBSET Protocol, Gate(D) PROVE RegisterInv'
      <3>1. ready' \in [Protocol -> BOOLEAN]
        BY <2>4 DEF Gate, C6Parts, RegisterInv
      <3>2. QED
        BY <2>1, <2>4, <3>1 DEF C6Parts, RegisterInv, Gate, mac_vars
    <2>5. ASSUME NEW D \in SUBSET (Protocol \cup {coexist}), Reset(D) PROVE RegisterInv'
      <3>1. ready' \in [Protocol -> BOOLEAN]
        <4>1. PICK still \in {D \cap {wifi}, {}} :
                 ready' = [p \in Protocol |-> ready[p] /\ (p \in D => p \in still)]
          BY <2>5 DEF Reset
        <4>2. ready \in [Protocol -> BOOLEAN]
          BY DEF C6Parts, RegisterInv
        <4>3. QED
          BY <4>1, <4>2, Zenon
      <3>2. QED
        BY <2>1, <2>5, <3>1 DEF C6Parts, RegisterInv, Reset, mac_vars
    <2>6. CASE MacReset
      BY <2>1, <2>6 DEF C6Parts, RegisterInv, MacReset, mac_vars
    <2>7. QED
      BY <2>2, <2>3, <2>4, <2>5, <2>6 DEF Instruction
  <1>6. QED
    BY <1>1, <1>2, <1>3, <1>4, <1>5 DEF C6Parts

LEMMA SkipStep ==
    ASSUME C6Parts, NEW from, NEW to, from # "stopped", to # "stopped", Skip(from, to)
    PROVE  C6Parts' /\ [ArbNext]_arb_vars
  <1>1. /\ UNCHANGED arb_vars
        /\ UNCHANGED <<now, fault, modem_vars, mac_vars, pending_vars, legality_vars, air_vars>>
        /\ phase = from /\ phase' = to
    BY DEF Skip
  <1>2. RfInv' /\ RegisterInv' /\ OperationInv'
    BY <1>1, RfFrame, RegisterFrame, OperationFrame
       DEF C6Parts, pending_vars, legality_vars, air_vars
  <1>3. RunInv'
    BY <1>1 DEF RunInv, C6Parts
  <1>4. QED
    BY <1>1, <1>2, <1>3 DEF C6Parts

LEMMA ResetsStep ==
    ASSUME C6Parts, ServiceResets
    PROVE  C6Parts' /\ [ArbNext]_arb_vars
  <1>1. /\ fault = "none" /\ phase = "reset"
        /\ UNCHANGED <<now, modem_vars, mac_vars, pending_vars, legality_vars>>
    BY DEF C6Parts, RunInv, ServiceResets
  <1>2. /\ RfInv' /\ [ArbNext]_arb_vars /\ fault' = "none" /\ phase' = "mac_reset"
        /\ DOMAIN air' = DOMAIN air
    <2>1. CASE resets # {}
      BY <1>1, <2>1, RfReset DEF ServiceResets, C6Parts
    <2>2. CASE resets = {}
      BY <1>1, <2>2, RfFrame DEF ServiceResets, C6Parts, air_vars
    <2>3. QED
      BY <2>1, <2>2
  <1>3. RegisterInv' /\ OperationInv'
    BY <1>1, <1>2, RegisterFrame, OperationFrame DEF C6Parts, pending_vars, legality_vars
  <1>4. QED
    BY <1>2, <1>3 DEF C6Parts, RunInv

LEMMA MacResetStep ==
    ASSUME C6Parts, ServiceMacReset
    PROVE  C6Parts' /\ [ArbNext]_arb_vars
  <1>1. /\ fault = "none" /\ phase = "mac_reset" /\ mac_reset' = FALSE
        /\ UNCHANGED <<now, ready, resets, mac_vars, pending_vars, legality_vars>>
    BY DEF C6Parts, RunInv, ServiceMacReset
  <1>2. /\ RfInv' /\ [ArbNext]_arb_vars /\ fault' = "none" /\ phase' = "power"
        /\ DOMAIN air' = DOMAIN air
    <2>1. CASE mac_reset /\ active # NoGrant /\ active.protocol = wifi
      BY <1>1, <2>1, RfReset DEF ServiceMacReset, C6Parts
    <2>2. CASE ~(mac_reset /\ active # NoGrant /\ active.protocol = wifi)
      BY <1>1, <2>2, RfFrame DEF ServiceMacReset, C6Parts, air_vars
    <2>3. QED
      BY <2>1, <2>2
  <1>3. RegisterInv' /\ OperationInv'
    BY <1>1, <1>2, OperationFrame DEF C6Parts, RegisterInv, mac_vars, pending_vars, legality_vars
  <1>4. QED
    BY <1>2, <1>3 DEF C6Parts, RunInv

LEMMA PowerStep ==
    ASSUME C6Parts, ServicePower
    PROVE  C6Parts' /\ [ArbNext]_arb_vars
  <1>1. /\ fault = "none" /\ UNCHANGED <<now, modem_vars, mac_vars, pending_vars, legality_vars>>
    BY DEF C6Parts, RunInv, ServicePower
  <1>2. /\ RfInv' /\ [ArbNext]_arb_vars /\ DOMAIN air' = DOMAIN air
        /\ fault' = "none" /\ phase' = "domain"
    BY <1>1, RfPower DEF C6Parts
  <1>3. RegisterInv' /\ OperationInv'
    BY <1>1, <1>2, RegisterFrame, OperationFrame DEF C6Parts, pending_vars, legality_vars
  <1>4. QED
    BY <1>2, <1>3 DEF C6Parts, RunInv

\* A reset of the domain retires the operations together with the activity.
LEMMA DomainStep ==
    ASSUME C6Parts, ServiceDomain
    PROVE  C6Parts' /\ [ArbNext]_arb_vars
  <1>1. /\ fault = "none" /\ phase = "domain" /\ Then("medium")
        /\ UNCHANGED arb_vars /\ UNCHANGED <<now, ready, mac_reset, mac_vars, air_vars>>
        /\ fault' \in {"none", "domain"}
    BY DEF C6Parts, RunInv, ServiceDomain
  <1>2. RfInv'
    BY <1>1, RfFrame DEF C6Parts
  <1>3. RunInv'
    BY <1>1, RunThen
  <1>4. RegisterInv'
    <2>1. ready[ieee802154] \in BOOLEAN
      BY C6Assumption DEF C6Parts, RegisterInv
    <2>2. seen_ready' \in BOOLEAN /\ tuned' \in BOOLEAN /\ resets' = {}
      BY <2>1 DEF ServiceDomain, C6Parts, RegisterInv
    <2>3. QED
      BY <1>1, <2>2 DEF C6Parts, RegisterInv, mac_vars
  <1>5. OperationInv'
    <2>1. CASE ieee802154 \in resets
      <3>1. /\ pending_tx' = {} /\ pending_ack' = {} /\ pending_cca' = None
            /\ activity' = "idle"
        BY <2>1 DEF ServiceDomain
      <3>2. QED
        BY <3>1 DEF OperationInv, OneOperation
    <2>2. CASE ieee802154 \notin resets
      <3>1. UNCHANGED <<activity, pending_tx, pending_ack, pending_cca>>
        BY <2>2 DEF ServiceDomain
      <3>2. QED
        BY <1>1, <3>1, OperationFrame DEF C6Parts, air_vars
    <2>3. QED
      BY <2>1, <2>2
  <1>6. QED
    BY <1>1, <1>2, <1>3, <1>4, <1>5 DEF C6Parts

LEMMA MediumStep ==
    ASSUME C6Parts, ServiceMedium
    PROVE  C6Parts' /\ [ArbNext]_arb_vars
  <1>1. /\ fault = "none" /\ fault' = fault /\ phase' = "ble"
        /\ UNCHANGED <<now, modem_vars, mac_vars, pending_vars, legality_vars>>
    BY DEF C6Parts, RunInv, ServiceMedium
  <1>2. RfInv' /\ ArbNext /\ DOMAIN air' = DOMAIN air
    BY <1>1, RfMedium DEF C6Parts
  <1>3. RegisterInv' /\ OperationInv'
    BY <1>1, <1>2, RegisterFrame, OperationFrame DEF C6Parts, pending_vars, legality_vars
  <1>4. QED
    BY <1>1, <1>2, <1>3 DEF C6Parts, RunInv

\* A Wi-Fi or Bluetooth frame, granted or denied.
LEMMA EngineStep ==
    ASSUME C6Parts, fault = "none", NEW p \in Protocol, NEW r \in Priority, NEW b \in BOOLEAN,
           EngineFrame(p, r, b), NEW q, q # "stopped", Then(q)
    PROVE  C6Parts' /\ [ArbNext]_arb_vars
  <1>1. UNCHANGED <<now, modem_vars, mac_vars, pending_vars, legality_vars>>
    BY DEF EngineFrame
  <1>2. /\ RfInv' /\ ArbNext /\ DOMAIN air \subseteq DOMAIN air'
        /\ fault' \in {"none", "overlap"}
    <2>1. PICK d \in Airtime :
             \/ Seize(p, d, r, b, TRUE)
             \/ RequestDenied(now, d, r) /\ UNCHANGED <<air_vars, fault>>
      BY DEF EngineFrame
    <2>2. CASE Seize(p, d, r, b, TRUE)
      BY <1>1, <2>2, RfSeize DEF C6Parts
    <2>3. CASE RequestDenied(now, d, r) /\ UNCHANGED <<air_vars, fault>>
      BY <1>1, <2>3, RfDenied DEF C6Parts, air_vars
    <2>4. QED
      BY <2>1, <2>2, <2>3
  <1>3. RegisterInv' /\ OperationInv'
    BY <1>1, <1>2, RegisterFrame, OperationFrame DEF C6Parts, pending_vars, legality_vars
  <1>4. RunInv'
    BY <1>2, RunThen
  <1>5. QED
    BY <1>2, <1>3, <1>4 DEF C6Parts

LEMMA BleStep ==
    ASSUME C6Parts, ServiceBle
    PROVE  C6Parts' /\ [ArbNext]_arb_vars
  <1>1. CASE phase = "ble" /\ EngineFrame(ble, 9, TRUE) /\ Then("ble")
    BY <1>1, EngineStep, C6Assumption DEF C6Parts, RunInv
  <1>2. CASE Skip("ble", "receive")
    BY <1>2, SkipStep
  <1>3. QED
    BY <1>1, <1>2 DEF ServiceBle

LEMMA SubmitPhaseStep ==
    ASSUME C6Parts, ServiceSubmit
    PROVE  C6Parts' /\ [ArbNext]_arb_vars
  <1>1. CASE phase = "submit" /\ EngineFrame(wifi, 8, TRUE) /\ Then("submit")
    BY <1>1, EngineStep, C6Assumption DEF C6Parts, RunInv
  <1>2. CASE phase = "submit" /\ EngineFrame(ble, 9, TRUE) /\ Then("submit")
    BY <1>2, EngineStep, C6Assumption DEF C6Parts, RunInv
  <1>3. CASE Skip("submit", "guest")
    BY <1>3, SkipStep
  <1>4. QED
    BY <1>1, <1>2, <1>3 DEF ServiceSubmit

\* An activity without an operation of its own ends, or the run does.
LEMMA TransitionOperations ==
    ASSUME OperationInv, fault = "none", NEW from \in {"awaiting_ack", "receive"},
           Transition(from, "idle"), UNCHANGED <<pending_vars, air_vars>>
    PROVE  OperationInv' /\ fault' \in {"none", "completion"} /\ seen_ready' = seen_ready
  <1>1. CASE activity = from
    BY <1>1 DEF OperationInv, OneOperation, Transition, pending_vars, air_vars
  <1>2. CASE activity # from
    BY <1>2 DEF OperationInv, OneOperation, Transition, pending_vars, air_vars
  <1>3. QED
    BY <1>1, <1>2

\* The acknowledgement of a received frame.
LEMMA AckStep ==
    ASSUME C6Parts, fault = "none", ReceiveAndAck, now' = now
    PROVE  /\ RfInv' /\ ArbNext /\ OperationInv' /\ fault' \in {"none", "overlap"}
           /\ receiving' = FALSE /\ UNCHANGED <<awaiting, seen_ready, tuned>>
  <1>1. /\ receiving' = FALSE /\ UNCHANGED <<awaiting, seen_ready, tuned>>
        /\ pending_tx' = pending_tx /\ pending_cca' = pending_cca
        /\ activity = "receive" /\ pending_tx = {} /\ pending_ack = {} /\ pending_cca = None
    BY DEF ReceiveAndAck, C6Parts, OperationInv, OneOperation
  <1>2. PICK d \in Airtime, p \in MacPriority :
          \/ /\ Seize(ieee802154, d, p, TRUE, seen_ready)
             /\ activity' = IF fault' = "none" THEN "transmit" ELSE "idle"
             /\ pending_ack' = IF fault' = "none"
                               THEN pending_ack \cup {[tx |-> Len(air) + 1, end |-> now + d]}
                               ELSE pending_ack
          \/ /\ RequestDenied(now, d, p)
             /\ activity' = "idle"
             /\ UNCHANGED <<air_vars, fault, pending_ack>>
    BY DEF ReceiveAndAck
  <1>3. CASE Seize(ieee802154, d, p, TRUE, seen_ready)
             /\ activity' = (IF fault' = "none" THEN "transmit" ELSE "idle")
             /\ pending_ack' = IF fault' = "none"
                               THEN pending_ack \cup {[tx |-> Len(air) + 1, end |-> now + d]}
                               ELSE pending_ack
    <2>1. /\ RfInv' /\ ArbNext /\ fault' \in {"none", "overlap"}
          /\ DOMAIN air \subseteq DOMAIN air'
          /\ fault' = "none" => Len(air) + 1 \in DOMAIN air'
      BY <1>3, RfSeize, C6Assumption DEF C6Parts
    <2>2. OperationInv'
      <3>1. CASE fault' = "none"
        <4>1. /\ activity' = "transmit" /\ pending_tx' = {} /\ pending_cca' = None
              /\ pending_ack' = {[tx |-> Len(air) + 1, end |-> now + d]}
          BY <1>1, <1>3, <3>1
        <4>2. QED
          BY <2>1, <3>1, <4>1 DEF OperationInv, OneOperation
      <3>2. CASE fault' # "none"
        BY <1>1, <1>3, <3>2 DEF OperationInv, OneOperation
      <3>3. QED
        BY <3>1, <3>2
    <2>3. QED
      BY <1>1, <2>1, <2>2
  <1>4. CASE /\ RequestDenied(now, d, p)
             /\ activity' = "idle"
             /\ UNCHANGED <<air_vars, fault, pending_ack>>
    <2>1. RfInv' /\ ArbNext
      BY <1>4, RfDenied DEF C6Parts, air_vars
    <2>2. OperationInv'
      BY <1>1, <1>4 DEF OperationInv, OneOperation
    <2>3. QED
      BY <1>1, <1>4, <2>1, <2>2
  <1>5. QED
    BY <1>2, <1>3, <1>4

LEMMA ReceiveStep ==
    ASSUME C6Parts, ServiceReceive
    PROVE  C6Parts' /\ [ArbNext]_arb_vars
  <1>1. CASE phase = "receive" /\ ready[wifi] /\ EngineFrame(wifi, 15, FALSE) /\ Then("receive")
    BY <1>1, EngineStep, C6Assumption DEF C6Parts, RunInv
  <1>2. CASE phase = "receive" /\ EngineFrame(wifi, 8, TRUE) /\ Then("receive")
    BY <1>2, EngineStep, C6Assumption DEF C6Parts, RunInv
  <1>3. CASE Skip("receive", "cca")
    BY <1>3, SkipStep
  <1>4. ASSUME phase = "receive", ReceiveAck \/ ReceiveFrame \/ ReceiveAndAck \/ ReceiveCollision,
               Then("receive"), UNCHANGED <<now, modem_vars, command>>
        PROVE  C6Parts' /\ [ArbNext]_arb_vars
    <2>1. fault = "none"
      BY <1>4 DEF C6Parts, RunInv
    <2>2. /\ RfInv' /\ [ArbNext]_arb_vars /\ OperationInv'
          /\ fault' \in {"none", "overlap", "completion"}
          /\ receiving' \in BOOLEAN /\ awaiting' \in BOOLEAN
          /\ UNCHANGED <<tuned, seen_ready>>
      <3>1. CASE ReceiveAck
        BY <1>4, <2>1, <3>1, TransitionOperations, RfFrame
           DEF ReceiveAck, C6Parts, pending_vars
      <3>2. CASE ReceiveFrame
        BY <1>4, <2>1, <3>2, TransitionOperations, RfFrame
           DEF ReceiveFrame, C6Parts, pending_vars, RegisterInv
      <3>3. CASE ReceiveAndAck
        BY <1>4, <2>1, <3>3, AckStep DEF C6Parts, RegisterInv
      <3>4. CASE ReceiveCollision
        <4>1. /\ UNCHANGED <<arb_vars, pending_vars, air_vars>>
              /\ receiving' = FALSE /\ awaiting' = FALSE
          BY <3>4 DEF ReceiveCollision
        <4>2. CASE awaiting
          BY <1>4, <2>1, <3>4, <4>1, <4>2, TransitionOperations, RfFrame
             DEF ReceiveCollision, C6Parts, pending_vars
        <4>3. CASE ~awaiting /\ receiving
          BY <1>4, <2>1, <3>4, <4>1, <4>3, TransitionOperations, RfFrame
             DEF ReceiveCollision, C6Parts, pending_vars
        <4>4. CASE ~awaiting /\ ~receiving
          <5>1. UNCHANGED <<legality_vars, fault>>
            BY <3>4, <4>4 DEF ReceiveCollision
          <5>2. QED
            BY <1>4, <2>1, <4>1, <5>1, OperationFrame, RfFrame
               DEF C6Parts, pending_vars, legality_vars, air_vars
        <4>5. QED
          BY <4>2, <4>3, <4>4
      <3>5. QED
        BY <1>4, <3>1, <3>2, <3>3, <3>4
    <2>3. RunInv'
      BY <1>4, <2>2, RunThen
    <2>4. RegisterInv'
      BY <1>4, <2>2 DEF C6Parts, RegisterInv, modem_vars
    <2>5. QED
      BY <2>2, <2>3, <2>4 DEF C6Parts
  <1>5. QED
    BY <1>1, <1>2, <1>3, <1>4 DEF ServiceReceive

\* submit_ieee802154_tx, from a command or at the end of a CCA: a frame goes
\* on the air only from an idle domain, so that it is the one operation.
LEMMA SubmitTxStep ==
    ASSUME C6Parts, fault = "none", now' = now, NEW current, SubmitTx(current),
           pending_ack' = pending_ack,
           \/ current = activity /\ pending_cca' = pending_cca
           \/ current = "idle" /\ activity = "cca" /\ pending_cca' = None
    PROVE  /\ RfInv' /\ [ArbNext]_arb_vars /\ OperationInv'
           /\ fault' \in {"none", "overlap"}
           /\ receiving' \in BOOLEAN /\ awaiting' \in BOOLEAN
  <1>1. receiving \in BOOLEAN /\ awaiting \in BOOLEAN
    BY DEF C6Parts, RegisterInv
  <1>2. /\ activity = "cca" \/ activity = "idle" =>
              pending_tx = {} /\ pending_ack = {}
        /\ activity = "idle" => pending_cca = None
    BY DEF C6Parts, OperationInv, OneOperation
  <1>3. ASSUME activity' = current, pending_tx' = pending_tx, DOMAIN air \subseteq DOMAIN air'
        PROVE  OperationInv'
    BY <1>3 DEF C6Parts, OperationInv, OneOperation
  <1>4. ASSUME receiving' = FALSE, awaiting' \in {FALSE, awaiting}, activity' = current,
               UNCHANGED <<arb_vars, air_vars, fault, pending_tx>>
        PROVE  /\ RfInv' /\ [ArbNext]_arb_vars /\ OperationInv' /\ fault' = "none"
               /\ receiving' \in BOOLEAN /\ awaiting' \in BOOLEAN
    BY <1>1, <1>3, <1>4, RfFrame DEF C6Parts, air_vars
  <1>5. ASSUME NEW d \in Airtime, NEW p \in MacPriority, RequestDenied(now, d, p),
               receiving' = FALSE, awaiting' = FALSE, activity' = current,
               UNCHANGED <<air_vars, fault, pending_tx>>
        PROVE  /\ RfInv' /\ ArbNext /\ OperationInv' /\ fault' = "none"
               /\ receiving' \in BOOLEAN /\ awaiting' \in BOOLEAN
    BY <1>3, <1>5, RfDenied DEF C6Parts, air_vars
  <1>6. ASSUME NEW d \in Airtime, NEW p \in MacPriority,
               Seize(ieee802154, d, p, TRUE, seen_ready /\ current = "idle"),
               activity' = IF fault' = "none" THEN "transmit" ELSE current,
               NEW wants_ack \in BOOLEAN,
               pending_tx' = IF fault' = "none"
                             THEN pending_tx \cup {[tx |-> Len(air) + 1, end |-> now + d,
                                                    wants_ack |-> wants_ack]}
                             ELSE pending_tx,
               UNCHANGED <<receiving, awaiting>>
        PROVE  /\ RfInv' /\ ArbNext /\ OperationInv' /\ fault' \in {"none", "overlap"}
               /\ receiving' \in BOOLEAN /\ awaiting' \in BOOLEAN
    <2>1. /\ RfInv' /\ ArbNext /\ fault' \in {"none", "overlap"}
          /\ DOMAIN air \subseteq DOMAIN air'
          /\ fault' = "none" => Len(air) + 1 \in DOMAIN air'
      BY <1>6, RfSeize, C6Assumption DEF C6Parts
    <2>2. CASE fault' = "none"
      <3>1. current = "idle"
        BY <1>6, <2>2 DEF Seize
      <3>2. /\ pending_tx = {} /\ pending_ack' = {} /\ pending_cca' = None
            /\ activity' = "transmit"
        BY <1>2, <1>6, <2>2, <3>1
      <3>3. pending_tx' = {[tx |-> Len(air) + 1, end |-> now + d, wants_ack |-> wants_ack]}
        BY <1>6, <2>2, <3>2
      <3>4. OperationInv'
        BY <2>1, <2>2, <3>2, <3>3 DEF OperationInv, OneOperation
      <3>5. QED
        BY <1>1, <1>6, <2>1, <3>4
    <2>3. CASE fault' # "none"
      BY <1>1, <1>3, <1>6, <2>1, <2>3
    <2>4. QED
      BY <2>2, <2>3
  <1>7. QED
    BY <1>4, <1>5, <1>6 DEF SubmitTx

LEMMA CcaStep ==
    ASSUME C6Parts, ServiceCca
    PROVE  C6Parts' /\ [ArbNext]_arb_vars
  <1>1. /\ fault = "none" /\ Then("acks")
        /\ UNCHANGED <<now, modem_vars, command, seen_ready, pending_ack, tuned>>
    BY DEF ServiceCca, C6Parts, RunInv
  <1>2. /\ RfInv' /\ [ArbNext]_arb_vars /\ OperationInv'
        /\ fault' \in {"none", "overlap", "completion"}
        /\ receiving' \in BOOLEAN /\ awaiting' \in BOOLEAN
    <2>0. receiving \in BOOLEAN /\ awaiting \in BOOLEAN /\ ready[ieee802154] \in BOOLEAN
      BY C6Assumption DEF C6Parts, RegisterInv
    <2>1. CASE pending_cca = None \/ pending_cca > now
      <3>1. UNCHANGED <<arb_vars, air_vars, fault, activity, receiving, awaiting, pending_tx,
                        pending_cca>>
        BY <2>1 DEF ServiceCca
      <3>2. QED
        BY <1>1, <2>0, <3>1, RfFrame, OperationFrame DEF C6Parts, air_vars
    <2>2. CASE ~(pending_cca = None \/ pending_cca > now) /\ activity # "cca"
      BY <2>2, <1>1 DEF C6Parts, OperationInv, OneOperation
    <2>3. CASE ~(pending_cca = None \/ pending_cca > now) /\ activity = "cca"
      <3>1. /\ pending_cca' = None
            /\ \/ /\ activity' = "idle"
                  /\ receiving' = FALSE
                  /\ awaiting' = (awaiting /\ ready[ieee802154])
                  /\ UNCHANGED <<arb_vars, air_vars, fault, pending_tx>>
               \/ SubmitTx("idle")
        BY <2>3 DEF ServiceCca
      <3>2. CASE /\ activity' = "idle" /\ receiving' = FALSE
                 /\ awaiting' = (awaiting /\ ready[ieee802154])
                 /\ UNCHANGED <<arb_vars, air_vars, fault, pending_tx>>
        <4>1. OperationInv'
          BY <1>1, <2>3, <3>1, <3>2 DEF C6Parts, OperationInv, OneOperation, air_vars
        <4>2. RfInv' /\ [ArbNext]_arb_vars
          BY <1>1, <3>2, RfFrame DEF C6Parts
        <4>3. QED
          BY <1>1, <2>0, <3>2, <4>1, <4>2
      <3>3. CASE SubmitTx("idle")
        BY <1>1, <2>3, <3>1, <3>3, SubmitTxStep
      <3>4. QED
        BY <3>1, <3>2, <3>3
    <2>4. QED
      BY <2>1, <2>2, <2>3
  <1>3. RunInv'
    BY <1>1, <1>2, RunThen
  <1>4. RegisterInv'
    BY <1>1, <1>2 DEF C6Parts, RegisterInv, modem_vars
  <1>5. QED
    BY <1>2, <1>3, <1>4 DEF C6Parts

\* Completion of the one operation in flight.
LEMMA AcksStep ==
    ASSUME C6Parts, ServiceAcks
    PROVE  C6Parts' /\ [ArbNext]_arb_vars
  <1>1. /\ fault = "none" /\ Then("sent") /\ UNCHANGED arb_vars
        /\ UNCHANGED <<now, modem_vars, mac_vars, air_vars, pending_tx, pending_cca, tuned>>
    BY DEF ServiceAcks, C6Parts, RunInv
  <1>2. /\ OperationInv' /\ fault' \in {"none", "completion"} /\ seen_ready' = seen_ready
    <2>1. CASE Due(pending_ack) = {}
      <3>1. UNCHANGED <<legality_vars, fault, pending_ack>>
        BY <2>1 DEF ServiceAcks
      <3>2. QED
        BY <1>1, <3>1, OperationFrame DEF C6Parts, legality_vars, air_vars
    <2>2. CASE Due(pending_ack) # {}
      <3>1. Transition("transmit", "idle") /\ pending_ack' = pending_ack \ Due(pending_ack)
        BY <2>2 DEF ServiceAcks
      <3>2. /\ pending_ack # {} /\ activity = "transmit" /\ pending_tx = {}
            /\ \E p : pending_ack = {p}
        BY <1>1, <2>2 DEF Due, C6Parts, OperationInv, OneOperation
      <3>3. pending_ack' = {}
        BY <2>2, <3>1, <3>2 DEF Due
      <3>4. /\ activity' = "idle" /\ fault' = "none" /\ seen_ready' = seen_ready
        BY <1>1, <3>1, <3>2 DEF Transition
      <3>5. QED
        BY <1>1, <3>2, <3>3, <3>4 DEF C6Parts, OperationInv, OneOperation
    <2>3. QED
      BY <2>1, <2>2
  <1>3. RfInv'
    BY <1>1, RfFrame DEF C6Parts
  <1>4. RunInv'
    BY <1>1, <1>2, RunThen
  <1>5. RegisterInv'
    BY <1>1, <1>2, RegisterFrame DEF C6Parts
  <1>6. QED
    BY <1>1, <1>2, <1>3, <1>4, <1>5 DEF C6Parts

LEMMA SentStep ==
    ASSUME C6Parts, ServiceSent
    PROVE  C6Parts' /\ [ArbNext]_arb_vars
  <1>1. /\ fault = "none" /\ Then("command") /\ UNCHANGED arb_vars
        /\ UNCHANGED <<now, modem_vars, command, air_vars, pending_ack, pending_cca>>
    BY DEF ServiceSent, C6Parts, RunInv
  <1>2. /\ OperationInv' /\ fault' \in {"none", "completion"} /\ seen_ready' = seen_ready
        /\ tuned' \in BOOLEAN /\ receiving' \in BOOLEAN /\ awaiting' \in BOOLEAN
    <2>1. CASE Due(pending_tx) = {}
      <3>1. UNCHANGED <<legality_vars, fault, pending_tx, tuned, receiving, awaiting>>
        BY <2>1 DEF ServiceSent
      <3>2. QED
        BY <1>1, <3>1, OperationFrame DEF C6Parts, RegisterInv, legality_vars, air_vars
    <2>2. CASE Due(pending_tx) # {}
      <3>1. PICK p \in Due(pending_tx) :
              /\ Transition("transmit", IF p.wants_ack THEN "awaiting_ack" ELSE "idle")
              /\ pending_tx' = pending_tx \ Due(pending_tx)
              /\ tuned' = (tuned \/ p.wants_ack)
              /\ receiving' = (receiving \/ p.wants_ack)
              /\ awaiting' = (awaiting \/ p.wants_ack)
        BY <2>2 DEF ServiceSent
      <3>2. /\ p \in pending_tx /\ activity = "transmit" /\ pending_ack = {}
            /\ \E q : pending_tx = {q}
        BY <1>1 DEF Due, C6Parts, OperationInv, OneOperation
      <3>3. pending_tx' = {}
        BY <3>1, <3>2
      <3>4. /\ activity' \in {"awaiting_ack", "idle"} /\ fault' = "none"
            /\ seen_ready' = seen_ready
        BY <1>1, <3>1, <3>2 DEF Transition
      <3>5. tuned' \in BOOLEAN /\ receiving' \in BOOLEAN /\ awaiting' \in BOOLEAN
        BY <3>1
      <3>6. OperationInv'
        BY <1>1, <3>2, <3>3, <3>4 DEF C6Parts, OperationInv, OneOperation
      <3>7. QED
        BY <3>4, <3>5, <3>6
    <2>3. QED
      BY <2>1, <2>2
  <1>3. RfInv'
    BY <1>1, RfFrame DEF C6Parts
  <1>4. RunInv'
    BY <1>1, <1>2, RunThen
  <1>5. RegisterInv'
    BY <1>1, <1>2 DEF C6Parts, RegisterInv, modem_vars
  <1>6. QED
    BY <1>1, <1>2, <1>3, <1>4, <1>5 DEF C6Parts

\* What a command may change apart from the RF path.
LEMMA CommandStep ==
    ASSUME C6Parts, ServiceCommand
    PROVE  C6Parts' /\ [ArbNext]_arb_vars
  <1>1. /\ fault = "none" /\ Then("submit") /\ command' = None
        /\ UNCHANGED <<now, modem_vars, seen_ready>>
    BY DEF ServiceCommand, C6Parts, RunInv
  <1>2. receiving \in BOOLEAN /\ awaiting \in BOOLEAN /\ tuned \in BOOLEAN
    BY DEF C6Parts, RegisterInv
  <1> DEFINE Done == /\ RfInv' /\ [ArbNext]_arb_vars /\ OperationInv'
                     /\ fault' \in {"none", "overlap", "domain"}
                     /\ receiving' \in BOOLEAN /\ awaiting' \in BOOLEAN /\ tuned' \in BOOLEAN
  <1>3. ASSUME UNCHANGED <<arb_vars, air_vars>>,
               UNCHANGED <<fault, activity, pending_tx, pending_ack, pending_cca>>
        PROVE  RfInv' /\ [ArbNext]_arb_vars /\ OperationInv'
    BY <1>1, <1>3, RfFrame, OperationFrame DEF C6Parts, air_vars
  <1>4. ASSUME UNCHANGED <<arb_vars, air_vars, fault, activity, receiving, awaiting, pending_vars>>
        PROVE  Done
    BY <1>1, <1>2, <1>3, <1>4 DEF pending_vars
  <1>5. ASSUME CommandTx PROVE Done
    <2>1. CASE ready[ieee802154]
      <3>1. SubmitTx(activity) /\ tuned' = FALSE /\ UNCHANGED <<pending_ack, pending_cca>>
        BY <1>5, <2>1 DEF CommandTx
      <3>2. QED
        BY <1>1, <3>1, SubmitTxStep
    <2>2. CASE ~ready[ieee802154]
      BY <1>1, <1>3, <1>5, <2>2 DEF CommandTx, Abort
    <2>3. QED
      BY <2>1, <2>2
  <1>6. ASSUME CommandCcaTx PROVE Done
    <2>1. CASE ready[ieee802154]
      <3>1. /\ Begin("cca") /\ tuned' = FALSE /\ UNCHANGED <<receiving, awaiting>>
            /\ pending_cca' \in IF fault' = "none" THEN {now + d : d \in Airtime} ELSE {pending_cca}
            /\ UNCHANGED <<arb_vars, air_vars, pending_tx, pending_ack>>
        BY <1>6, <2>1 DEF CommandCcaTx
      <3>2. fault' \in {"none", "overlap", "domain"}
        BY <1>1, <3>1 DEF Begin
      <3>3. RfInv'
        BY <1>1, <3>1, RfFrame DEF C6Parts
      <3>4. CASE fault' = "none"
        <4>1. activity = "idle" /\ activity' = "cca"
          BY <3>1, <3>4 DEF Begin
        <4>2. pending_cca' \in Nat /\ pending_cca' # None
          <5>1. now \in Nat /\ \A d \in Airtime : now + d \in Nat
            BY ArbiterAssumption, C6Assumption DEF C6Parts, RfInv, ArbTime
          <5>2. PICK d \in Airtime : pending_cca' = now + d
            BY <3>1, <3>4
          <5>3. QED
            BY <5>1, <5>2, C6Assumption
        <4>3. OperationInv'
          BY <1>1, <3>1, <4>1, <4>2 DEF C6Parts, OperationInv, OneOperation, air_vars
        <4>4. QED
          BY <1>2, <3>1, <3>2, <3>3, <4>3
      <3>5. CASE fault' # "none"
        <4>1. OperationInv'
          <5>1. activity' = activity \/ activity' = "cca"
            BY <3>1 DEF Begin
          <5>2. pending_cca' = pending_cca
            BY <3>1, <3>5
          <5>3. QED
            BY <3>1, <3>5, <5>1, <5>2 DEF C6Parts, OperationInv, OneOperation, air_vars
        <4>2. QED
          BY <1>2, <3>1, <3>2, <3>3, <4>1
      <3>6. QED
        BY <3>4, <3>5
    <2>2. CASE ~ready[ieee802154]
      BY <1>1, <1>3, <1>6, <2>2 DEF CommandCcaTx, Abort
    <2>3. QED
      BY <2>1, <2>2
  <1>7. ASSUME CommandEd PROVE Done
    <2>1. CASE ready[ieee802154]
      <3>1. /\ Begin("idle") /\ UNCHANGED <<receiving, awaiting>>
            /\ UNCHANGED <<arb_vars, air_vars, pending_vars>>
        BY <1>7, <2>1 DEF CommandEd
      <3>2. fault' \in {"none", "overlap", "domain"} /\ activity' = activity
        BY <1>1, <3>1 DEF Begin
      <3>3. QED
        BY <1>1, <1>2, <3>1, <3>2, RfFrame, OperationFrame DEF C6Parts, pending_vars, air_vars
    <2>2. CASE ~ready[ieee802154]
      BY <1>1, <1>2, <1>3, <1>7, <2>2 DEF CommandEd, Abort, pending_vars
    <2>3. QED
      BY <2>1, <2>2
  <1>8. ASSUME CommandStop PROVE Done
    <2>1. /\ activity' = "idle" /\ pending_cca' = None /\ pending_tx' = {} /\ pending_ack' = {}
          /\ tuned' = FALSE /\ UNCHANGED <<arb_vars, air_vars, fault>>
          /\ receiving' \in BOOLEAN /\ awaiting' \in BOOLEAN
      BY <1>2, <1>8 DEF CommandStop, Abort
    <2>2. OperationInv'
      BY <2>1 DEF OperationInv, OneOperation
    <2>3. QED
      BY <1>1, <2>1, <2>2, RfFrame DEF C6Parts
  <1>9. ASSUME CommandRx PROVE Done
    <2>1. CASE ready[ieee802154]
      <3>1. /\ Begin("receive") /\ UNCHANGED <<receiving, awaiting>> /\ tuned' \in BOOLEAN
            /\ UNCHANGED <<arb_vars, air_vars, pending_tx, pending_ack, pending_cca>>
        BY <1>2, <1>9, <2>1 DEF CommandRx
      <3>2. fault' \in {"none", "overlap", "domain"}
        BY <1>1, <3>1 DEF Begin
      <3>3. OperationInv'
        BY <1>1, <3>1 DEF Begin, C6Parts, OperationInv, OneOperation, air_vars
      <3>4. QED
        BY <1>1, <1>2, <3>1, <3>2, <3>3, RfFrame DEF C6Parts
    <2>2. CASE ~ready[ieee802154]
      BY <1>1, <1>2, <1>3, <1>9, <2>2 DEF CommandRx, Abort
    <2>3. QED
      BY <2>1, <2>2
  <1>10. Done
    BY <1>4, <1>5, <1>6, <1>7, <1>8, <1>9 DEF ServiceCommand
  <1>11. RunInv'
    BY <1>1, <1>10, RunThen
  <1>12. RegisterInv'
    BY <1>1, <1>10 DEF C6Parts, RegisterInv, modem_vars
  <1>13. QED
    BY <1>10, <1>11, <1>12 DEF C6Parts

-----------------------------------------------------------------------------
(* The service as a whole *)

LEMMA C6InitParts == C6Init => C6Parts
  <1> SUFFICES ASSUME C6Init PROVE C6Parts
    OBVIOUS
  <1>1. ArbInv
    BY ArbiterAssumption
       DEF C6Init, ArbInit, ArbInv, ArbTypeOK, ExclusiveOwnership, OpenIsActive, ActiveIsNewest,
           PreemptedOnlyByHigher, ArbTime, GrantId
  <1>2. air \in Seq(AirFrame) /\ DOMAIN air = {}
    BY DEF C6Init
  <1>3. now \in ArbTime /\ arb_now <= now
    BY ArbiterAssumption DEF C6Init, ArbInit, ArbTime
  <1>4. RfInv
    BY <1>1, <1>2, <1>3 DEF RfInv, C6Init, ArbInit, FramesMatchTenure, OwnerOnAir
  <1>5. RunInv /\ RegisterInv /\ OperationInv
    BY DEF C6Init, RunInv, RegisterInv, OperationInv, OneOperation
  <1>6. QED
    BY <1>4, <1>5 DEF C6Parts

LEMMA ServiceStep ==
    ASSUME C6Parts, Service
    PROVE  C6Parts' /\ [ArbNext]_arb_vars
  BY ResetsStep, MacResetStep, PowerStep, DomainStep, MediumStep, BleStep, ReceiveStep, CcaStep,
     AcksStep, SentStep, CommandStep, SubmitPhaseStep DEF Service

LEMMA C6StepParts == C6Parts /\ [C6Next]_c6_vars => C6Parts' /\ [ArbNext]_arb_vars
  <1> SUFFICES ASSUME C6Parts, [C6Next]_c6_vars PROVE C6Parts' /\ [ArbNext]_arb_vars
    OBVIOUS
  <1>1. CASE Instruction
    BY <1>1, InstructionStep
  <1>2. CASE Service
    BY <1>2, ServiceStep
  <1>3. CASE UNCHANGED c6_vars
    <2>1. /\ UNCHANGED arb_vars /\ UNCHANGED <<now, phase, fault>>
          /\ UNCHANGED <<modem_vars, mac_vars, pending_vars, legality_vars, air_vars>>
      BY <1>3 DEF c6_vars
    <2>2. RfInv' /\ RegisterInv' /\ OperationInv'
      BY <2>1, RfFrame, RegisterFrame, OperationFrame
         DEF C6Parts, pending_vars, legality_vars, air_vars
    <2>3. RunInv'
      BY <2>1 DEF C6Parts, RunInv
    <2>4. QED
      BY <2>1, <2>2, <2>3 DEF C6Parts
  <1>4. QED
    BY <1>1, <1>2, <1>3 DEF C6Next

\* The radio service keeps its invariant: arbiter, medium and mapping agree
\* on who owns the RF path, and the operations in flight are those of the
\* activity, in every phase until the run stops.
THEOREM C6Invariance == C6Spec => []C6Inv
  <1>1. C6Parts <=> C6Inv
    BY C6InvParts DEF C6Parts
  <1>2. C6Spec => []C6Parts
    BY C6InitParts, C6StepParts, PTL DEF C6Spec
  <1>3. QED
    BY <1>1, <1>2, PTL

\* Composition: whatever the guest and the three protocol engines do, the
\* service drives the arbiter by the arbiter's own operations, so that every
\* property proved of ArbSpec (CoexistenceArbiter_proofs) holds on the chip.
THEOREM C6ImplementsArbiter == C6Spec => ArbSpec
  <1>1. C6Init => ArbInit
    BY DEF C6Init
  <1>2. C6Spec => []C6Parts
    BY C6InitParts, C6StepParts, PTL DEF C6Spec
  <1>3. QED
    BY <1>1, <1>2, C6StepParts, PTL DEF C6Spec, ArbSpec

-----------------------------------------------------------------------------
(* The properties of the run *)

\* Type correctness of the radio service; the run stops exactly at the first
\* error.
THEOREM C6Types == C6Spec => []C6TypeOK
  <1>1. C6Inv => C6TypeOK
    BY DEF C6Inv
  <1>2. QED
    BY <1>1, C6Invariance, PTL

\* The consistency checks of apply_coexistence_preemption, reset_coexistence
\* and power_down_coexistence never fire.
THEOREM C6Ownership == C6Spec => []OwnershipNeverContradicted
  <1>1. C6Inv => OwnershipNeverContradicted
    BY DEF C6Inv
  <1>2. QED
    BY <1>1, C6Invariance, PTL

\* Every transmission of the chip occupies the interval of its grant.
THEOREM C6Airtime == C6Spec => []AirtimeMatchesTenure
  <1>1. C6Inv => AirtimeMatchesTenure
    BY DEF C6Inv, FramesMatchTenure, AirtimeMatchesTenure
  <1>2. QED
    BY <1>1, C6Invariance, PTL

\* One transmitter: no two transmissions of the chip are on the air at the
\* same instant, whichever protocols they belong to.
THEOREM C6FramesDisjoint ==
    C6Spec => [](\A t, u \in DOMAIN air :
                    \/ t = u
                    \/ air[t].end <= air[u].start
                    \/ air[u].end <= air[t].start)
  <1> DEFINE Disjoint == \A t, u \in DOMAIN air : \/ t = u
                                                  \/ air[t].end <= air[u].start
                                                  \/ air[u].end <= air[t].start
  <1>1. ASSUME C6Inv PROVE Disjoint
    <2>1. SUFFICES ASSUME NEW t \in DOMAIN air, NEW u \in DOMAIN air, t # u
                   PROVE  air[t].end <= air[u].start \/ air[u].end <= air[t].start
      OBVIOUS
    <2> DEFINE g == air[t].grant  h == air[u].grant
    <2>2. /\ g \in DOMAIN tenure /\ h \in DOMAIN tenure /\ g # h
          /\ air[t].start = tenure[g].start /\ air[t].end = tenure[g].end
          /\ air[u].start = tenure[h].start /\ air[u].end = tenure[h].end
      BY <1>1, <2>1 DEF C6Inv, FramesMatchTenure
    <2> HIDE DEF g, h
    <2>3. g \in Int /\ h \in Int
      BY <1>1, <2>2, ArbiterAssumption DEF C6Inv, ArbInv, ArbTypeOK, GrantId
    <2>4. g < h \/ h < g
      BY <2>2, <2>3
    <2>5. QED
      BY <1>1, <2>2, <2>4 DEF C6Inv, ArbInv, ExclusiveOwnership
  <1>2. QED
    BY <1>1, C6Invariance, PTL

\* The machine's operations and the validator's activity agree between two
\* services.
THEOREM C6Operations == C6Spec => []OperationsMatchActivity
  <1>1. ASSUME C6Inv PROVE OperationsMatchActivity
    <2>1. SUFFICES ASSUME phase = "guest"
                   PROVE  /\ Cardinality(pending_tx) + Cardinality(pending_ack) =
                                IF activity = "transmit" THEN 1 ELSE 0
                          /\ pending_cca # None <=> activity = "cca"
      BY DEF OperationsMatchActivity
    <2>2. fault = "none"
      BY <1>1, <2>1 DEF C6Inv, C6TypeOK
    <2>3. Cardinality({}) = 0 /\ \A p : Cardinality({p}) = 1
      BY FS_EmptySet, FS_Singleton
    <2>4. CASE activity = "transmit"
      <3>1. \E p : \/ pending_tx = {p} /\ pending_ack = {}
                   \/ pending_tx = {} /\ pending_ack = {p}
        BY <1>1, <2>2, <2>4 DEF C6Inv, OneOperation
      <3>2. Cardinality(pending_tx) + Cardinality(pending_ack) = 1
        <4>1. \/ Cardinality(pending_tx) = 1 /\ Cardinality(pending_ack) = 0
              \/ Cardinality(pending_tx) = 0 /\ Cardinality(pending_ack) = 1
          BY <2>3, <3>1
        <4>2. QED
          BY <4>1
      <3>3. QED
        BY <1>1, <2>2, <2>4, <3>2 DEF C6Inv, OneOperation
    <2>5. CASE activity # "transmit"
      <3>1. pending_tx = {} /\ pending_ack = {}
        BY <1>1, <2>2, <2>5 DEF C6Inv, OneOperation
      <3>2. Cardinality(pending_tx) + Cardinality(pending_ack) = 0
        BY <2>3, <3>1
      <3>3. QED
        BY <1>1, <2>2, <2>5, <3>2 DEF C6Inv, OneOperation
    <2>6. QED
      BY <2>4, <2>5
  <1>2. QED
    BY <1>1, C6Invariance, PTL
=============================================================================
