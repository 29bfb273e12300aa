---------------------- MODULE CoexistenceArbiter_proofs ----------------------
(***************************************************************************)
(* Exclusive ownership of the RF path for every set of protocols, every     *)
(* priority order, every timeline and every number of grants.               *)
(***************************************************************************)
EXTENDS CoexistenceArbiter, TLAPS

\* What advance_to leaves active is the old grant, and only while unexpired.
LEMMA UnexpiredFacts ==
    ASSUME ArbInv, NEW at \in ArbTime, at >= arb_now
    PROVE  /\ Unexpired(at) \in ActiveGrant \cup {NoGrant}
           /\ Unexpired(at) # NoGrant => Unexpired(at) = active /\ at < active.end
           /\ Unexpired(at) = NoGrant => active = NoGrant \/ active.end <= at
  BY ArbiterAssumption DEF Unexpired, ArbInv, ArbTypeOK, ActiveGrant, ArbTime

\* Moving the clock, with the expiry that goes with it, keeps the invariant.
LEMMA AdvanceStep ==
    ASSUME ArbInv, NEW at \in ArbTime, ArbAdvance(at)
    PROVE  ArbInv'
  <1>1. ArbTypeOK'
    BY UnexpiredFacts DEF ArbAdvance, Reach, ArbInv, ArbTypeOK
  <1>2. ExclusiveOwnership' /\ PreemptedOnlyByHigher'
    BY DEF ArbAdvance, ArbInv, ExclusiveOwnership, PreemptedOnlyByHigher
  <1>3. OpenIsActive'
    <2>1. SUFFICES ASSUME NEW g \in DOMAIN tenure
                   PROVE  /\ tenure[g].start <= tenure[g].end
                          /\ tenure[g].start <= at
                          /\ tenure[g].end > at =>
                                /\ active' # NoGrant /\ active'.id = g
                                /\ active'.end = tenure[g].end
      BY DEF ArbAdvance, Reach, OpenIsActive
    <2>2. tenure[g].start \in Nat /\ tenure[g].end \in Nat /\ arb_now \in Nat /\ at \in Nat
      BY ArbiterAssumption DEF ArbInv, ArbTypeOK, Tenure, ArbTime
    <2>3. tenure[g].end > at => tenure[g].end > arb_now
      BY <2>2 DEF ArbAdvance, Reach
    <2>4. QED
      BY <2>2, <2>3, UnexpiredFacts DEF ArbAdvance, Reach, ArbInv, OpenIsActive
  <1>4. ActiveIsNewest'
    BY UnexpiredFacts DEF ArbAdvance, Reach, ArbInv, ActiveIsNewest
  <1>5. QED
    BY <1>1, <1>2, <1>3, <1>4 DEF ArbInv

\* Ending the open interval at `at', with the grant dropped or (only once
\* the identifiers are used up) kept, keeps the invariant.
LEMMA CloseStep ==
    ASSUME ArbInv, NEW at \in ArbTime, Reach(at), NEW how \in Ending,
           Unexpired(at) # NoGrant,
           tenure' = Closed(active.id, at, how),
           UNCHANGED next_id,
           \/ active' = NoGrant /\ how # "preempted"
           \/ active' = active /\ next_id = ArbMaxId
    PROVE  ArbInv'
  <1> DEFINE k == active.id
  <1>0. /\ active # NoGrant /\ active \in ActiveGrant /\ at < active.end
        /\ k \in DOMAIN tenure /\ k = next_id - 1 /\ tenure[k] \in Tenure
        /\ next_id \in Nat /\ arb_now \in Nat /\ at \in Nat /\ arb_now <= at
    BY UnexpiredFacts, ArbiterAssumption
    DEF Reach, ArbInv, ArbTypeOK, ActiveIsNewest, GrantId, ArbTime
  <1>1. /\ DOMAIN tenure' = DOMAIN tenure
        /\ \A g \in DOMAIN tenure : g # k => tenure'[g] = tenure[g]
        /\ tenure'[k] = [tenure[k] EXCEPT !.end = at, !.how = how]
    BY <1>0 DEF Closed, Tenure
  <1>2. /\ tenure'[k] \in Tenure /\ tenure'[k].start = tenure[k].start
        /\ tenure'[k].end = at /\ tenure'[k].how = how
    BY <1>0, <1>1 DEF Tenure, ArbTime
  <1>3. ArbTypeOK'
    <2>1. \A g \in DOMAIN tenure' : tenure'[g] \in Tenure
      BY <1>1, <1>2 DEF ArbInv, ArbTypeOK
    <2>2. QED
      BY <2>1, <1>0, <1>1 DEF ArbInv, ArbTypeOK, Reach
  <1>4. ExclusiveOwnership'
    \* k is the last grant, so its end is compared with no later start.
    <2>1. SUFFICES ASSUME NEW g \in DOMAIN tenure, NEW h \in DOMAIN tenure, g < h
                   PROVE  tenure'[g].end <= tenure'[h].start
      BY <1>1 DEF ExclusiveOwnership
    <2>2. g # k
      BY <1>0, <2>1 DEF ArbInv, ArbTypeOK
    <2>3. QED
      BY <1>1, <1>2, <2>1, <2>2 DEF ArbInv, ExclusiveOwnership
  <1>5. OpenIsActive'
    <2>1. SUFFICES ASSUME NEW g \in DOMAIN tenure
                   PROVE  /\ tenure'[g].start <= tenure'[g].end
                          /\ tenure'[g].start <= at
                          /\ ~(tenure'[g].end > at)
      BY <1>1 DEF OpenIsActive, Reach
    <2>2. /\ tenure[g].start \in Nat /\ tenure[g].end \in Nat
          /\ tenure[g].start <= arb_now /\ tenure[g].start <= tenure[g].end
          /\ g # k => ~(tenure[g].end > arb_now)
      BY ArbiterAssumption DEF ArbInv, ArbTypeOK, Tenure, ArbTime, OpenIsActive
    <2>3. QED
      BY <1>0, <1>1, <1>2, <2>2
  <1>6. ActiveIsNewest'
    BY <1>0, <1>1 DEF ArbInv, ActiveIsNewest, Reach
  <1>7. PreemptedOnlyByHigher'
    <2>1. SUFFICES ASSUME NEW g \in DOMAIN tenure, tenure'[g].how = "preempted",
                          next_id < ArbMaxId
                   PROVE  /\ tenure'[g].preemptible
                          /\ g + 1 \in DOMAIN tenure
                          /\ tenure'[g + 1].start = tenure'[g].end
                          /\ tenure'[g + 1].priority > tenure'[g].priority
      BY <1>1 DEF PreemptedOnlyByHigher
    <2>2. how # "preempted"
      BY <2>1, ArbiterAssumption, <1>0
    <2>3. g # k
      BY <1>2, <2>1, <2>2
    <2>4. tenure'[k].priority = tenure[k].priority
      BY <1>0, <1>1 DEF Tenure
    <2>5. /\ tenure[g].preemptible /\ g + 1 \in DOMAIN tenure
          /\ tenure[g + 1].start = tenure[g].end
          /\ tenure[g + 1].priority > tenure[g].priority
      BY <1>1, <2>1, <2>3 DEF ArbInv, PreemptedOnlyByHigher
    <2>6. CASE g + 1 = k
      BY <1>1, <1>2, <2>3, <2>4, <2>5, <2>6
    <2>7. CASE g + 1 # k
      BY <1>1, <2>3, <2>5, <2>7
    <2>8. QED
      BY <2>6, <2>7
  <1>8. QED
    BY <1>3, <1>4, <1>5, <1>6, <1>7 DEF ArbInv

\* A granted request starts after every earlier interval, the preempted one
\* included, which now ends where the new one starts.
LEMMA GrantStep ==
    ASSUME ArbInv, NEW p \in Protocol, NEW at \in ArbTime, NEW d \in ArbTime,
           NEW r \in Priority, NEW b \in BOOLEAN,
           RequestGranted(p, at, d, r, b)
    PROVE  ArbInv'
  <1> DEFINE n == next_id
             holder == Unexpired(at)
             taken == [protocol |-> p, start |-> at, end |-> at + d, priority |-> r,
                       preemptible |-> b, how |-> "as_granted"]
             cut(g) == holder # NoGrant /\ g = active.id
  <1>0. /\ n \in Nat /\ ArbMaxId \in Nat /\ n < ArbMaxId /\ next_id' = n + 1
        /\ arb_now \in Nat /\ at \in Nat /\ arb_now <= at /\ arb_now' = at
        /\ d \in Nat /\ d > 0 /\ at + d \in ArbTime
        /\ DOMAIN tenure = 0..(n - 1) /\ n \notin DOMAIN tenure
        /\ \A g \in DOMAIN tenure : g \in Nat /\ g < n
    BY ArbiterAssumption
    DEF RequestGranted, Reach, ArbInv, ArbTypeOK, ArbTime, GrantId
  <1>1. /\ taken \in Tenure
        /\ active' = [id |-> n, protocol |-> p, end |-> at + d, priority |-> r,
                      preemptible |-> b]
        /\ active' \in ActiveGrant
    <2>1. active' = [id |-> n, protocol |-> p, end |-> at + d, priority |-> r,
                     preemptible |-> b]
      BY DEF RequestGranted
    <2>2. QED
      BY <1>0, <2>1 DEF Tenure, Ending, ActiveGrant, GrantId
  <1>2. holder # NoGrant =>
          /\ holder = active /\ active \in ActiveGrant /\ at < active.end
          /\ active.id \in DOMAIN tenure /\ active.id = n - 1
          /\ active.preemptible = tenure[active.id].preemptible
          /\ active.priority = tenure[active.id].priority
          /\ r > active.priority /\ active.preemptible
    BY <1>0, UnexpiredFacts, ArbiterAssumption
    DEF RequestGranted, Wins, ArbInv, ArbTypeOK, ActiveIsNewest
  <1>3. /\ DOMAIN tenure' = DOMAIN tenure \cup {n}
        /\ tenure'[n] = taken
        /\ \A g \in DOMAIN tenure : IF cut(g)
               THEN tenure'[g] = [tenure[g] EXCEPT !.end = at, !.how = "preempted"]
               ELSE tenure'[g] = tenure[g]
    <2>1. CASE holder = NoGrant
      BY <1>0, <2>1 DEF RequestGranted
    <2>2. CASE holder # NoGrant
      BY <1>0, <1>2, <2>2 DEF RequestGranted, Closed
    <2>3. QED
      BY <2>1, <2>2
  <1> HIDE DEF cut, taken
  <1>d. DOMAIN tenure' = DOMAIN tenure \cup {n}
    BY <1>3
  <1>n. tenure'[n] = taken
    BY <1>3
  <1>s. \A g \in DOMAIN tenure : ~cut(g) => tenure'[g] = tenure[g]
    BY <1>3
  <1>4. \A g \in DOMAIN tenure :
          /\ tenure'[g] \in Tenure
          /\ tenure'[g].start = tenure[g].start
          /\ tenure'[g].end <= at /\ tenure'[g].start <= at
          /\ tenure'[g].start <= tenure'[g].end
          /\ tenure'[g].priority = tenure[g].priority
          /\ tenure'[g].preemptible = tenure[g].preemptible
    <2>1. TAKE g \in DOMAIN tenure
    <2>2. /\ tenure[g] \in Tenure /\ tenure[g].start \in Nat /\ tenure[g].end \in Nat
          /\ tenure[g].start <= arb_now /\ tenure[g].start <= tenure[g].end
      BY ArbiterAssumption DEF ArbInv, ArbTypeOK, Tenure, ArbTime, OpenIsActive
    <2>3. CASE cut(g)
      <3>1. tenure'[g] = [tenure[g] EXCEPT !.end = at, !.how = "preempted"]
        BY <1>3, <2>3
      <3>2. /\ tenure'[g] \in Tenure /\ tenure'[g].end = at
            /\ tenure'[g].start = tenure[g].start
            /\ tenure'[g].priority = tenure[g].priority
            /\ tenure'[g].preemptible = tenure[g].preemptible
        BY <2>2, <3>1 DEF Tenure, Ending
      <3>3. QED
        BY <1>0, <2>2, <2>3, <3>2
    <2>4. CASE ~cut(g)
      <3>1. tenure'[g] = tenure[g]
        BY <1>3, <2>4
      <3>2. ~(tenure[g].end > at)
        <4>1. SUFFICES ASSUME tenure[g].end > at PROVE FALSE
          OBVIOUS
        <4>2. tenure[g].end > arb_now
          BY <4>1, <1>0, <2>2
        <4>3. active # NoGrant /\ active.id = g /\ active.end = tenure[g].end
          BY <4>2 DEF ArbInv, OpenIsActive
        <4>4. holder = NoGrant
          BY <4>3, <2>4 DEF cut
        <4>5. active.end <= at
          BY <4>3, <4>4, UnexpiredFacts, <1>0
        <4>6. QED
          BY <4>1, <4>3, <4>5, <1>0, <2>2
      <3>3. QED
        BY <3>1, <3>2, <2>2, <1>0
    <2>5. QED
      BY <2>3, <2>4
  <1>5. ArbTypeOK'
    <2>1. DOMAIN tenure' = 0..(next_id' - 1)
      <3>1. 0..(n - 1) \cup {n} = 0..n /\ (n + 1) - 1 = n
        BY <1>0
      <3>2. QED
        BY <1>0, <1>3, <3>1
    <2>2. \A g \in DOMAIN tenure' : tenure'[g] \in Tenure
      BY <1>1, <1>3, <1>4
    <2>3. next_id' \in GrantId
      BY <1>0 DEF GrantId
    <2>4. QED
      BY <1>0, <1>1, <2>1, <2>2, <2>3 DEF ArbTypeOK
  <1>6. ExclusiveOwnership'
    <2>1. SUFFICES ASSUME NEW g \in DOMAIN tenure', NEW h \in DOMAIN tenure', g < h
                   PROVE  tenure'[g].end <= tenure'[h].start
      BY DEF ExclusiveOwnership
    <2>2. g # n
      <3>1. h \in Nat /\ h <= n
        BY <1>0, <1>d
      <3>2. QED
        BY <3>1, <2>1, <1>0
    <2>3. g \in DOMAIN tenure
      BY <2>2, <1>d
    <2>4. CASE h = n
      <3>1. tenure'[h].start = at
        BY <1>n, <2>4 DEF taken
      <3>2. QED
        BY <1>4, <2>3, <3>1
    <2>5. CASE h \in DOMAIN tenure
      \* A later grant h exists, so g is not the preempted holder.
      <3>1. g \in Nat /\ h \in Nat /\ h < n
        BY <1>0, <2>3, <2>5
      <3>2. ~cut(g)
        BY <1>0, <1>2, <2>1, <3>1 DEF cut
      <3>3. tenure[g].end <= tenure[h].start
        BY <2>1, <2>3, <2>5 DEF ArbInv, ExclusiveOwnership
      <3>4. tenure'[h].start = tenure[h].start /\ tenure'[g] = tenure[g]
        BY <1>4, <1>s, <2>3, <2>5, <3>2
      <3>5. QED
        BY <3>3, <3>4
    <2>6. QED
      BY <2>4, <2>5, <1>d
  <1>7. OpenIsActive'
    <2>1. SUFFICES ASSUME NEW g \in DOMAIN tenure'
                   PROVE  /\ tenure'[g].start <= tenure'[g].end
                          /\ tenure'[g].start <= at
                          /\ tenure'[g].end > at =>
                                /\ active' # NoGrant /\ active'.id = g
                                /\ active'.end = tenure'[g].end
      BY <1>0 DEF OpenIsActive
    <2>2. CASE g \in DOMAIN tenure
      <3>1. /\ tenure'[g] \in Tenure /\ tenure'[g].start <= tenure'[g].end
            /\ tenure'[g].start <= at /\ tenure'[g].end <= at
        BY <1>4, <2>2
      <3>2. tenure'[g].end \in Nat
        BY <3>1, ArbiterAssumption DEF Tenure, ArbTime
      <3>3. QED
        BY <3>1, <3>2, <1>0
    <2>3. CASE g = n
      <3>1. active' # NoGrant
        BY <1>1, ArbiterAssumption DEF ActiveGrant, GrantId, ArbTime
      <3>2. tenure'[g].start = at /\ tenure'[g].end = at + d
        BY <1>n, <2>3 DEF taken
      <3>3. QED
        BY <1>0, <1>1, <2>3, <3>1, <3>2
    <2>4. QED
      BY <2>2, <2>3, <1>d
  <1>8. ActiveIsNewest'
    <2>1. n \in DOMAIN tenure' /\ next_id' - 1 = n /\ at < at + d
      BY <1>0, <1>d
    <2>2. QED
      BY <1>0, <1>1, <1>n, <2>1 DEF ActiveIsNewest, taken
  <1>9. PreemptedOnlyByHigher'
    <2>1. SUFFICES ASSUME NEW g \in DOMAIN tenure', tenure'[g].how = "preempted"
                   PROVE  /\ tenure'[g].preemptible
                          /\ g + 1 \in DOMAIN tenure'
                          /\ tenure'[g + 1].start = tenure'[g].end
                          /\ tenure'[g + 1].priority > tenure'[g].priority
      BY DEF PreemptedOnlyByHigher
    <2>2. g \in DOMAIN tenure
      BY <1>d, <1>n, <2>1 DEF taken
    <2>3. CASE cut(g)
      <3>1. tenure'[g].end = at
        <4>1. tenure'[g] = [tenure[g] EXCEPT !.end = at, !.how = "preempted"]
          BY <1>3, <2>2, <2>3
        <4>2. tenure[g] \in Tenure
          BY <2>2 DEF ArbInv, ArbTypeOK
        <4>3. QED
          BY <4>1, <4>2 DEF Tenure
      <3>2. /\ g + 1 = n /\ tenure[g].preemptible /\ r > tenure[g].priority
        BY <1>0, <1>2, <2>3 DEF cut
      <3>3. /\ tenure'[g].preemptible = tenure[g].preemptible
            /\ tenure'[g].priority = tenure[g].priority
        BY <1>4, <2>2
      <3>4. tenure'[n].start = at /\ tenure'[n].priority = r
        BY <1>n DEF taken
      <3>5. QED
        BY <1>d, <3>1, <3>2, <3>3, <3>4
    <2>4. CASE ~cut(g)
      <3>1. tenure'[g] = tenure[g]
        BY <1>s, <2>2, <2>4
      <3>2. /\ tenure[g].preemptible /\ g + 1 \in DOMAIN tenure
            /\ tenure[g + 1].start = tenure[g].end
            /\ tenure[g + 1].priority > tenure[g].priority
        BY <1>0, <2>1, <2>2, <3>1 DEF ArbInv, PreemptedOnlyByHigher
      <3>3. /\ tenure'[g + 1].start = tenure[g + 1].start
            /\ tenure'[g + 1].priority = tenure[g + 1].priority
        BY <1>4, <3>2
      <3>4. QED
        BY <1>d, <3>1, <3>2, <3>3
    <2>5. QED
      BY <2>3, <2>4
  <1>10. QED
    BY <1>5, <1>6, <1>7, <1>8, <1>9 DEF ArbInv

-----------------------------------------------------------------------------
(* Theorems *)

\* Every operation preserves the invariant.
LEMMA ArbStep ==
    ASSUME ArbInv, ArbNext
    PROVE  ArbInv'
  <1>1. PICK at \in ArbTime :
          \/ ArbAdvance(at)
          \/ \E p \in Protocol, d \in ArbTime, r \in Priority, b \in BOOLEAN :
                 ArbRequest(p, at, d, r, b)
          \/ \E g \in GrantId : ArbRelease(g, at)
          \/ ArbReset(at)
          \/ ArbPowerDown(at)
    BY DEF ArbNext
  \* The three steps that end nothing are clock steps.
  <1>2. ASSUME Reach(at), active' = Unexpired(at), UNCHANGED <<next_id, tenure>>
        PROVE  ArbInv'
    BY <1>2, AdvanceStep DEF ArbAdvance
  <1>3. ASSUME NEW how \in Ending \ {"preempted"}, Cancel(at, how) PROVE ArbInv'
    <2>1. CASE Unexpired(at) = NoGrant
      BY <1>2, <1>3, <2>1 DEF Cancel
    <2>2. CASE Unexpired(at) # NoGrant
      <3>1. Unexpired(at) = active /\ Reach(at)
        BY <1>3, <2>2, UnexpiredFacts DEF Cancel, Reach
      <3>2. QED
        BY <1>3, <2>2, <3>1, CloseStep DEF Cancel
    <2>3. QED
      BY <2>1, <2>2
  <1>4. CASE ArbAdvance(at)
    BY <1>4, AdvanceStep
  <1>5. CASE ArbReset(at) \/ ArbPowerDown(at)
    BY <1>3, <1>5 DEF ArbReset, ArbPowerDown, Ending
  <1>6. ASSUME NEW g \in GrantId, ArbRelease(g, at) PROVE ArbInv'
    <2>1. CASE Unexpired(at) # NoGrant /\ Unexpired(at).id = g
      <3>1. Unexpired(at) = active /\ Reach(at)
        BY <1>6, <2>1, UnexpiredFacts DEF ArbRelease, Reach
      <3>2. QED
        BY <1>6, <2>1, <3>1, CloseStep DEF ArbRelease, Ending
    <2>2. CASE ~(Unexpired(at) # NoGrant /\ Unexpired(at).id = g)
      BY <1>2, <1>6, <2>2 DEF ArbRelease
    <2>3. QED
      BY <2>1, <2>2
  <1>7. ASSUME NEW p \in Protocol, NEW d \in ArbTime, NEW r \in Priority,
               NEW b \in BOOLEAN, ArbRequest(p, at, d, r, b)
        PROVE  ArbInv'
    <2>1. CASE RequestInvalid(at, d) \/ RequestDenied(at, d, r)
      BY <2>1, AdvanceStep DEF RequestInvalid, RequestDenied
    <2>2. CASE RequestGranted(p, at, d, r, b)
      BY <2>2, GrantStep
    <2>3. CASE RequestExhausted(at, d, r)
      <3>1. CASE Unexpired(at) = NoGrant
        BY <1>2, <2>3, <3>1 DEF RequestExhausted
      <3>2. CASE Unexpired(at) # NoGrant
        <4>1. Unexpired(at) = active /\ Reach(at)
          BY <2>3, <3>2, UnexpiredFacts DEF RequestExhausted, Reach
        <4>2. QED
          BY <2>3, <3>2, <4>1, CloseStep DEF RequestExhausted, Ending
      <3>3. QED
        BY <3>1, <3>2
    <2>4. QED
      BY <1>7, <2>1, <2>2, <2>3 DEF ArbRequest
  <1>8. QED
    BY <1>1, <1>4, <1>5, <1>6, <1>7

\* The invariant holds in every reachable state.
THEOREM ArbiterInvariance == ArbSpec => []ArbInv
  <1>1. ArbInit => ArbInv
    BY ArbiterAssumption
    DEF ArbInit, ArbInv, ArbTypeOK, ExclusiveOwnership, OpenIsActive, ActiveIsNewest,
        PreemptedOnlyByHigher, ArbTime, GrantId
  <1>2. ArbInv /\ UNCHANGED arb_vars => ArbInv'
    BY DEF arb_vars, ArbInv, ArbTypeOK, ExclusiveOwnership, OpenIsActive,
           ActiveIsNewest, PreemptedOnlyByHigher
  <1>3. ArbInv /\ [ArbNext]_arb_vars => ArbInv'
    BY <1>2, ArbStep
  <1>4. QED
    BY <1>1, <1>3, PTL DEF ArbSpec

\* The types of the arbiter and of its evidence.
THEOREM ArbiterTypes == ArbSpec => []ArbTypeOK
  BY ArbiterInvariance, PTL DEF ArbInv

\* No two grants hold the RF path at the same time, whatever sequence of
\* requests, expiries, releases, resets and power-downs the chip makes.
THEOREM ArbiterExclusive == ArbSpec => []ExclusiveOwnership
  BY ArbiterInvariance, PTL DEF ArbInv

\* A grant is preempted only if it was preemptible, by the next grant, at the
\* instant that one starts, and only by a higher priority.
THEOREM ArbiterPreemption == ArbSpec => []PreemptedOnlyByHigher
  BY ArbiterInvariance, PTL DEF ArbInv

\* owner() names exactly the grant the evidence leaves open.
THEOREM ArbiterEvidence == ArbSpec => []EvidenceMatchesOwner
  <1>1. ArbInv => EvidenceMatchesOwner
    BY DEF ArbInv, OpenIsActive, ActiveIsNewest, EvidenceMatchesOwner
  <1>2. QED
    BY <1>1, ArbiterInvariance, PTL

\* What is over in the evidence stays as it is: only the interval of the
\* unexpired active grant is ever rewritten, and that interval is open.
THEOREM ArbiterClosedIsFinal == ArbSpec => ClosedIsFinal
  <1> DEFINE Kept == \A g \in DOMAIN tenure :
                        tenure[g].end <= arb_now => tenure'[g] = tenure[g]
  <1>1. ASSUME ArbInv, next_id < ArbMaxId, ArbNext PROVE Kept
    <2>1. PICK at \in ArbTime :
            \/ ArbAdvance(at)
            \/ \E p \in Protocol, d \in ArbTime, r \in Priority, b \in BOOLEAN :
                   ArbRequest(p, at, d, r, b)
            \/ \E g \in GrantId : ArbRelease(g, at)
            \/ ArbReset(at)
            \/ ArbPowerDown(at)
      BY <1>1 DEF ArbNext
    <2>2. SUFFICES ASSUME NEW g \in DOMAIN tenure, tenure[g].end <= arb_now
                   PROVE  tenure'[g] = tenure[g]
      OBVIOUS
    <2>3. tenure[g].end \in Nat /\ arb_now \in Nat /\ g # next_id
      BY <1>1, ArbiterAssumption DEF ArbInv, ArbTypeOK, Tenure, ArbTime, GrantId
    <2>4. at >= arb_now
      BY <2>1 DEF ArbAdvance, ArbRequest, RequestInvalid, RequestDenied, RequestGranted,
                  RequestExhausted, ArbRelease, ArbReset, ArbPowerDown, Cancel, Reach
    \* The holder's interval is open, so it is not g's.
    <2>5. ASSUME Unexpired(at) # NoGrant
          PROVE  Unexpired(at).id # g
      <3>1. Unexpired(at) = active /\ active # NoGrant
        BY <1>1, <2>4, <2>5, UnexpiredFacts
      <3>2. active \in ActiveGrant /\ active.end \in Nat /\ arb_now < active.end
        BY <1>1, <3>1, ArbiterAssumption
        DEF ArbInv, ArbTypeOK, ActiveIsNewest, ActiveGrant, ArbTime
      <3>3. active.end = tenure[active.id].end
        BY <1>1, <3>1 DEF ArbInv, ActiveIsNewest
      <3>4. QED
        BY <2>2, <2>3, <3>1, <3>2, <3>3
    <2>6. \A how, h : h # g => Closed(h, at, how)[g] = tenure[g]
      BY DEF Closed
    <2>7. ASSUME NEW p \in Protocol, NEW d \in ArbTime, NEW r \in Priority,
                 NEW b \in BOOLEAN, ArbRequest(p, at, d, r, b)
          PROVE  tenure'[g] = tenure[g]
      <3>1. CASE RequestInvalid(at, d) \/ RequestDenied(at, d, r)
        BY <3>1 DEF RequestInvalid, RequestDenied, ArbAdvance
      <3>2. CASE RequestGranted(p, at, d, r, b)
        <4>1. CASE Unexpired(at) = NoGrant
          BY <2>3, <3>2, <4>1 DEF RequestGranted
        <4>2. CASE Unexpired(at) # NoGrant
          <5>1. tenure'[g] = Closed(Unexpired(at).id, at, "preempted")[g]
            BY <2>3, <3>2, <4>2 DEF RequestGranted
          <5>2. QED
            BY <5>1, <2>5, <2>6, <4>2
        <4>3. QED
          BY <4>1, <4>2
      <3>3. CASE RequestExhausted(at, d, r)
        BY <1>1, <3>3, ArbiterAssumption DEF RequestExhausted, ArbInv, ArbTypeOK, GrantId
      <3>4. QED
        BY <2>7, <3>1, <3>2, <3>3 DEF ArbRequest
    <2>8. ASSUME NEW h \in GrantId, ArbRelease(h, at) PROVE tenure'[g] = tenure[g]
      BY <2>5, <2>6, <2>8 DEF ArbRelease
    <2>9. ASSUME NEW how, Cancel(at, how) PROVE tenure'[g] = tenure[g]
      BY <2>5, <2>6, <2>9 DEF Cancel
    <2>10. QED
      BY <2>1, <2>7, <2>8, <2>9 DEF ArbAdvance, ArbReset, ArbPowerDown
  <1>2. ArbInv /\ [ArbNext]_arb_vars => [next_id < ArbMaxId => Kept]_arb_vars
    BY <1>1
  <1>3. QED
    BY <1>2, ArbiterInvariance, PTL DEF ArbSpec, ClosedIsFinal
=============================================================================
