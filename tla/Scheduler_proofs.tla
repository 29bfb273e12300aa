-------------------------- MODULE Scheduler_proofs --------------------------
(***************************************************************************)
(* The scheduler for every timeline and every number of events: the         *)
(* inductive invariant SchedulerInv, the safety properties that follow from *)
(* it, and the refinement of Timeline.                                      *)
(***************************************************************************)
EXTENDS Scheduler, TLAPS

\* Before is a strict total order on events with distinct identifiers.
LEMMA BeforeOrder ==
    ASSUME NEW e \in ScheduledEvent, NEW f \in ScheduledEvent, NEW g \in ScheduledEvent
    PROVE  /\ ~Before(e, e)
           /\ Before(e, f) /\ Before(f, g) => Before(e, g)
           /\ e.seq # f.seq => Before(e, f) \/ Before(f, e)
  BY BoundsAssumption DEF Before, ScheduledEvent, SimTime, EventId

\* Purging the head removes no live entry and no mark of an entry that stays.
LEMMA PurgeKeepsLive ==
    ASSUME SchedulerInv, NEW taken, taken \subseteq Live, Purge(taken)
    PROVE  /\ Live' = Live \ taken
           /\ heap' \subseteq heap
           /\ cancelled' \subseteq cancelled
           /\ \A e \in heap' : e.seq \in cancelled <=> e.seq \in cancelled'
  <1>1. \A e \in heap' : e.seq \in cancelled <=> e.seq \in cancelled'
    BY DEF SchedulerInv, UniqueIds, Purge, Skipped, Ids
  <1>2. \A e \in Live : e \notin Skipped
    BY DEF Skipped
  <1>3. QED
    BY <1>1, <1>2 DEF Purge, Live

\* Once the head e is popped, every entry that remains comes after it.
LEMMA HeadIsFirst ==
    ASSUME SchedulerInv, NEW e \in heap, IsHead(e), Purge({e}), NEW f \in heap'
    PROVE  Before(e, f)
  <1>0. f \in heap /\ f # e /\ f \notin Skipped /\ e \in Live
    BY DEF Purge, IsHead
  <1>1. CASE f \in Live
    BY <1>0, <1>1 DEF IsHead
  <1>2. CASE f \notin Live
    <2>1. PICK g \in Live : ~Before(f, g)
      BY <1>0, <1>2 DEF Skipped
    <2>2. /\ g \in heap /\ g # f
          /\ e \in ScheduledEvent /\ f \in ScheduledEvent /\ g \in ScheduledEvent
      BY <1>0, <1>2 DEF Live, SchedulerInv, TypeOK
    <2>3. g.seq # f.seq
      BY <2>2, <1>0 DEF SchedulerInv, UniqueIds
    <2>4. Before(g, f)
      BY <2>1, <2>2, <2>3, BeforeOrder
    <2>5. e = g \/ Before(e, g)
      BY DEF IsHead
    <2>6. QED
      BY <2>2, <2>4, <2>5, BeforeOrder
  <1>3. QED
    BY <1>1, <1>2

-----------------------------------------------------------------------------
(* The inductive invariant *)

\* The invariant speaks of the queue, the clock and the histories only; any
\* step that leaves those alone preserves it.
LEMMA FrameStep ==
    ASSUME SchedulerInv,
           UNCHANGED <<heap, cancelled, next_sequence, handed_out, revoked>>,
           now' \in SimTime, now' >= now, dispatched' \in Nat, in_dispatch' \in BOOLEAN
    PROVE  SchedulerInv'
  <1>1. TypeOK' /\ Fresh' /\ UniqueIds' /\ MarkedIffRevoked'
    BY DEF SchedulerInv, TypeOK, Fresh, UniqueIds, MarkedIffRevoked
  <1>2. DispatchOrder' /\ RevokedNeverDispatched' /\ NothingLost'
    BY DEF SchedulerInv, DispatchOrder, RevokedNeverDispatched, NothingLost, Before,
           Live, HandedOut, Ids
  <1>3. QueuedAfterHandedOut'
    <2>1. SUFFICES ASSUME NEW i \in DOMAIN handed_out
                   PROVE  /\ handed_out[i].at <= now'
                          /\ \A e \in heap : Before(handed_out[i], e)
      BY DEF QueuedAfterHandedOut, Before
    <2>2. handed_out[i] \in ScheduledEvent /\ handed_out[i].at <= now
      BY DEF SchedulerInv, TypeOK, QueuedAfterHandedOut
    <2>3. handed_out[i].at <= now'
      BY <2>2, BoundsAssumption DEF SchedulerInv, TypeOK, ScheduledEvent, SimTime
    <2>4. QED
      BY <2>3 DEF SchedulerInv, QueuedAfterHandedOut
  <1>4. QED
    BY <1>1, <1>2, <1>3 DEF SchedulerInv

\* Scheduling: the new entry has a fresh identifier and is not in the past,
\* so it comes after everything handed out.
LEMMA PushStep ==
    ASSUME SchedulerInv, NEW at \in SimTime, ~(at < now), Push(at),
           UNCHANGED <<now, dispatched, in_dispatch, handed_out, revoked>>
    PROVE  SchedulerInv'
  <1> DEFINE n == [at |-> at, seq |-> next_sequence]
  <1>0. /\ n \in ScheduledEvent /\ n.at = at /\ n.seq = next_sequence
        /\ heap' = heap \cup {n} /\ next_sequence' = next_sequence + 1
        /\ cancelled' = cancelled /\ next_sequence \in Nat
        /\ next_sequence' \in EventId
    BY BoundsAssumption DEF Push, SchedulerInv, TypeOK, ScheduledEvent, EventId
  <1>1. TypeOK'
    BY <1>0 DEF SchedulerInv, TypeOK
  <1>2. Fresh'
    <2>1. \A e \in heap : e.seq \in Nat
      BY BoundsAssumption DEF SchedulerInv, TypeOK, EventId, ScheduledEvent
    <2>2. \A i \in DOMAIN handed_out : handed_out[i].seq \in Nat
      <3>1. \A i \in DOMAIN handed_out : handed_out[i] \in ScheduledEvent
        BY DEF SchedulerInv, TypeOK
      <3>2. QED
        BY <3>1, BoundsAssumption DEF EventId, ScheduledEvent
    <2>3. \A id \in cancelled \cup revoked : id \in Nat
      BY BoundsAssumption DEF SchedulerInv, TypeOK, EventId
    <2>4. QED
      BY <1>0, <2>1, <2>2, <2>3 DEF SchedulerInv, Fresh
  <1>3. UniqueIds'
    BY <1>0, BoundsAssumption DEF SchedulerInv, UniqueIds, Fresh
  <1>4. MarkedIffRevoked'
    BY <1>0 DEF SchedulerInv, MarkedIffRevoked, Fresh
  <1>5. QueuedAfterHandedOut'
    <2>1. \A i \in DOMAIN handed_out : Before(handed_out[i], n)
      <3>1. TAKE i \in DOMAIN handed_out
      <3>2. handed_out[i] \in ScheduledEvent
        BY DEF SchedulerInv, TypeOK
      <3>3. handed_out[i].at <= now /\ handed_out[i].seq < next_sequence
        BY DEF SchedulerInv, QueuedAfterHandedOut, Fresh
      <3>4. QED
        BY <1>0, <3>2, <3>3, BoundsAssumption
           DEF Before, ScheduledEvent, SimTime, EventId, SchedulerInv, TypeOK
    <2>2. QED
      BY <1>0, <2>1 DEF SchedulerInv, QueuedAfterHandedOut, Before
  <1>6. Live' = Live \cup {n}
    BY <1>0 DEF Live, SchedulerInv, Fresh
  <1>7. DispatchOrder' /\ RevokedNeverDispatched'
    BY DEF SchedulerInv, DispatchOrder, RevokedNeverDispatched, Before, HandedOut, Ids
  <1>8. NothingLost'
    <2>1. Ids(Live') = Ids(Live) \cup {next_sequence}
      BY <1>0, <1>6 DEF Ids
    <2>2. Ids(HandedOut)' = Ids(HandedOut)
      BY DEF Ids, HandedOut
    <2>3. next_sequence \notin Ids(HandedOut) /\ next_sequence \notin revoked
      BY <1>0 DEF SchedulerInv, Fresh, Ids, HandedOut
    <2>4. 0..(next_sequence' - 1) = 0..(next_sequence - 1) \cup {next_sequence}
      BY <1>0
    <2>5. Ids(Live)' = Ids(Live')
      BY DEF Ids
    <2>6. QED
      BY <2>1, <2>2, <2>3, <2>4, <2>5 DEF SchedulerInv, NothingLost
  <1>9. QED
    BY <1>1, <1>2, <1>3, <1>4, <1>5, <1>7, <1>8 DEF SchedulerInv

\* Cancelling: the event leaves the live ones and joins the revoked ones if
\* it is queued; a mark for an event that has left changes neither.
LEMMA CancelStep ==
    ASSUME SchedulerInv, NEW id \in EventId, cancel(id)
    PROVE  SchedulerInv'
  <1>0. /\ cancelled' = cancelled \cup {id} /\ id < next_sequence
        /\ revoked' = revoked \cup ({id} \cap Ids(heap))
        /\ UNCHANGED <<now, heap, next_sequence, dispatched, in_dispatch, handed_out>>
    BY DEF cancel
  <1>1. TypeOK' /\ Fresh' /\ UniqueIds' /\ MarkedIffRevoked'
    BY <1>0 DEF SchedulerInv, TypeOK, Fresh, UniqueIds, MarkedIffRevoked, Ids
  <1>2. DispatchOrder' /\ QueuedAfterHandedOut'
    BY <1>0 DEF SchedulerInv, DispatchOrder, QueuedAfterHandedOut, Before
  <1>3. Ids(HandedOut)' = Ids(HandedOut) /\ Ids(HandedOut) \cap Ids(heap) = {}
    BY <1>0 DEF SchedulerInv, UniqueIds, Ids, HandedOut
  <1>4. RevokedNeverDispatched'
    BY <1>0, <1>3 DEF SchedulerInv, RevokedNeverDispatched
  <1>5. Ids(Live)' = Ids(Live) \ {id}
    BY <1>0 DEF Ids, Live
  <1>6. Ids(Live) \subseteq Ids(heap)
    BY DEF Ids, Live
  <1>7. NothingLost'
    <2>1. id \in 0..(next_sequence - 1)
      BY <1>0, BoundsAssumption DEF SchedulerInv, TypeOK, EventId
    <2>2. id \in Ids(heap) \/ id \notin Ids(Live)
      BY <1>6
    <2>3. QED
      BY <1>0, <1>3, <1>5, <2>1, <2>2 DEF SchedulerInv, NothingLost
  <1>8. QED
    BY <1>1, <1>2, <1>4, <1>7 DEF SchedulerInv

\* Purging without popping: only cancelled entries disappear.
LEMMA PurgeStep ==
    ASSUME SchedulerInv, Purge({}), now' \in SimTime, now' >= now, in_dispatch' \in BOOLEAN,
           UNCHANGED <<next_sequence, dispatched, handed_out, revoked>>
    PROVE  SchedulerInv'
  <1>0. /\ Live' = Live /\ heap' \subseteq heap /\ cancelled' \subseteq cancelled
        /\ \A e \in heap' : e.seq \in cancelled <=> e.seq \in cancelled'
    BY PurgeKeepsLive, Live \ {} = Live
  <1>1. TypeOK' /\ Fresh' /\ UniqueIds' /\ MarkedIffRevoked'
    BY <1>0 DEF SchedulerInv, TypeOK, Fresh, UniqueIds, MarkedIffRevoked
  <1>2. DispatchOrder' /\ RevokedNeverDispatched'
    BY DEF SchedulerInv, DispatchOrder, RevokedNeverDispatched, Before, HandedOut, Ids
  <1>3. QueuedAfterHandedOut'
    <2>1. SUFFICES ASSUME NEW i \in DOMAIN handed_out
                   PROVE  /\ handed_out[i].at <= now'
                          /\ \A e \in heap' : Before(handed_out[i], e)
      BY DEF QueuedAfterHandedOut, Before
    <2>2. handed_out[i] \in ScheduledEvent /\ handed_out[i].at <= now
      BY DEF SchedulerInv, TypeOK, QueuedAfterHandedOut
    <2>3. handed_out[i].at <= now'
      BY <2>2, BoundsAssumption DEF SchedulerInv, TypeOK, ScheduledEvent, SimTime
    <2>4. QED
      BY <1>0, <2>3 DEF SchedulerInv, QueuedAfterHandedOut
  <1>4. NothingLost'
    BY <1>0 DEF SchedulerInv, NothingLost, HandedOut, Ids
  <1>5. QED
    BY <1>1, <1>2, <1>3, <1>4 DEF SchedulerInv

\* Popping: the head is live, comes after everything handed out before it
\* and in front of everything left.
LEMMA TakeStep ==
    ASSUME SchedulerInv, NEW e \in heap, TakeDue(e), in_dispatch' \in BOOLEAN
    PROVE  SchedulerInv'
  <1>0. /\ IsHead(e) /\ Purge({e}) /\ e \in Live /\ e.at <= now
        /\ handed_out' = Append(handed_out, e) /\ dispatched' = dispatched + 1
        /\ UNCHANGED <<now, next_sequence, revoked>>
        /\ e \in ScheduledEvent /\ handed_out \in Seq(ScheduledEvent)
        /\ e.seq < next_sequence
    BY DEF TakeDue, IsHead, SchedulerInv, TypeOK, Fresh
  <1>1. /\ Live' = Live \ {e} /\ heap' \subseteq heap /\ cancelled' \subseteq cancelled
        /\ \A f \in heap' : f.seq \in cancelled <=> f.seq \in cancelled'
    BY <1>0, PurgeKeepsLive
  <1>2. /\ DOMAIN handed_out' = 1..(Len(handed_out) + 1)
        /\ DOMAIN handed_out = 1..Len(handed_out) /\ Len(handed_out) \in Nat
        /\ \A i \in 1..Len(handed_out) : handed_out'[i] = handed_out[i]
        /\ handed_out'[Len(handed_out) + 1] = e
    BY <1>0
  <1>3. \A i \in DOMAIN handed_out' : handed_out'[i] = e \/
            (i \in DOMAIN handed_out /\ handed_out'[i] = handed_out[i])
    BY <1>2
  <1>4. e \notin heap' /\ e.seq \notin revoked
    BY <1>0 DEF Purge, SchedulerInv, MarkedIffRevoked, Live
  <1>5. TypeOK'
    BY <1>0, <1>1 DEF SchedulerInv, TypeOK
  <1>6. Fresh'
    BY <1>0, <1>1, <1>3 DEF SchedulerInv, Fresh
  <1>7. UniqueIds'
    BY <1>0, <1>1, <1>3, <1>4 DEF SchedulerInv, UniqueIds
  <1>8. MarkedIffRevoked'
    BY <1>0, <1>1 DEF SchedulerInv, MarkedIffRevoked
  <1>9. QueuedAfterHandedOut'
    <2>1. \A f \in heap' : Before(e, f)
      BY <1>0, HeadIsFirst
    <2>2. QED
      BY <1>0, <1>1, <1>3, <2>1 DEF SchedulerInv, QueuedAfterHandedOut, Before
  <1>10. DispatchOrder'
    <2>1. \A i \in DOMAIN handed_out : Before(handed_out[i], e)
      BY DEF SchedulerInv, QueuedAfterHandedOut
    <2>2. SUFFICES ASSUME NEW i \in DOMAIN handed_out', NEW j \in DOMAIN handed_out', i < j
                   PROVE  Before(handed_out'[i], handed_out'[j])
      BY DEF DispatchOrder, Before
    <2>3. i \in DOMAIN handed_out
      BY <1>2, <2>2
    <2>4. CASE j \in DOMAIN handed_out
      BY <1>2, <2>2, <2>3, <2>4 DEF SchedulerInv, DispatchOrder
    <2>5. CASE j = Len(handed_out) + 1
      BY <1>2, <2>1, <2>3, <2>5
    <2>6. QED
      BY <1>2, <2>4, <2>5
  <1>11. Ids(HandedOut)' = Ids(HandedOut) \cup {e.seq}
    <2>1. HandedOut' = HandedOut \cup {e}
      BY <1>2 DEF HandedOut
    <2>2. QED
      BY <2>1 DEF Ids
  <1>12. RevokedNeverDispatched'
    BY <1>0, <1>4, <1>11 DEF SchedulerInv, RevokedNeverDispatched
  <1>13. Ids(Live)' = Ids(Live) \ {e.seq} /\ e.seq \in Ids(Live)
    BY <1>0, <1>1 DEF Ids, Live, SchedulerInv, UniqueIds
  <1>14. NothingLost'
    BY <1>0, <1>11, <1>13 DEF SchedulerInv, NothingLost
  <1>15. QED
    BY <1>5, <1>6, <1>7, <1>8, <1>9, <1>10, <1>12, <1>14 DEF SchedulerInv

-----------------------------------------------------------------------------
(* Every step, and the theorems *)

LEMMA InitInv == Init => SchedulerInv
  <1>1. SUFFICES ASSUME Init PROVE SchedulerInv
    OBVIOUS
  <1>2. /\ now = 0 /\ heap = {} /\ cancelled = {} /\ next_sequence = 0 /\ dispatched = 0
        /\ in_dispatch = FALSE /\ handed_out = << >> /\ revoked = {}
    BY <1>1 DEF Init
  <1>3. HandedOut = {} /\ Live = {}
    BY <1>2 DEF HandedOut, Live
  <1>4. TypeOK
    <2>1. 0 \in SimTime /\ 0 \in EventId
      BY BoundsAssumption DEF SimTime, EventId
    <2>2. << >> \in Seq(ScheduledEvent)
      OBVIOUS
    <2>3. QED
      BY <1>2, <2>1, <2>2 DEF TypeOK
  <1>5. NothingLost /\ RevokedNeverDispatched
    BY <1>2, <1>3 DEF NothingLost, RevokedNeverDispatched, Ids
  <1>6. QED
    BY <1>2, <1>4, <1>5 DEF SchedulerInv, Fresh, UniqueIds, QueuedAfterHandedOut,
       MarkedIffRevoked, DispatchOrder

\* Every operation of the scheduler preserves the invariant.
LEMMA NextInv == SchedulerInv /\ [Next]_vars => SchedulerInv'
  <1>0. SUFFICES ASSUME SchedulerInv, [Next]_vars PROVE SchedulerInv'
    OBVIOUS
  <1>t. now \in SimTime /\ now \in Nat /\ now >= now /\ dispatched \in Nat
        /\ in_dispatch \in BOOLEAN
    BY <1>0, BoundsAssumption DEF SchedulerInv, TypeOK, SimTime
  <1>1. ASSUME NEW t \in SimTime, schedule_at(t) PROVE SchedulerInv'
    BY <1>0, <1>1, PushStep DEF schedule_at
  <1>2. ASSUME NEW t \in SimTime, schedule_after(t) PROVE SchedulerInv'
    <2>1. now + t \in SimTime /\ ~(now + t < now)
      BY <1>t, <1>2, BoundsAssumption DEF schedule_after, SimTime
    <2>2. QED
      BY <1>0, <1>2, <2>1, PushStep DEF schedule_after
  <1>3. ASSUME NEW t \in SimTime, advance_to(t) PROVE SchedulerInv'
    <2>1. t >= now
      BY <1>t, <1>3, BoundsAssumption DEF advance_to, SimTime
    <2>2. QED
      BY <1>0, <1>t, <1>3, <2>1, FrameStep DEF advance_to
  <1>4. ASSUME NEW id \in EventId, cancel(id) PROVE SchedulerInv'
    BY <1>0, <1>4, CancelStep
  <1>5. CASE next_wakeup
    BY <1>0, <1>t, <1>5, PurgeStep DEF next_wakeup
  <1>6. CASE advance_to_next
    <2>1. now' \in SimTime /\ now' >= now
      <3>1. CASE now' = now
        BY <1>t, <3>1
      <3>2. ASSUME NEW e \in Live, now' = IF e.at < now THEN now ELSE e.at
            PROVE  now' \in SimTime /\ now' >= now
        <4>1. e.at \in SimTime
          BY <1>0 DEF SchedulerInv, TypeOK, Live, ScheduledEvent
        <4>2. QED
          BY <1>t, <3>2, <4>1, BoundsAssumption DEF SimTime
      <3>3. QED
        BY <1>6, <3>1, <3>2 DEF advance_to_next
    <2>2. QED
      BY <1>0, <1>t, <1>6, <2>1, PurgeStep DEF advance_to_next
  <1>7. CASE pop_due
    <2>1. CASE \E e \in heap : TakeDue(e)
      BY <1>0, <1>t, <1>7, <2>1, TakeStep DEF pop_due
    <2>2. CASE NoneDue
      BY <1>0, <1>t, <1>7, <2>2, PurgeStep DEF pop_due, NoneDue
    <2>3. QED
      BY <1>7, <2>1, <2>2 DEF pop_due
  <1>8. CASE dispatch_due
    BY <1>0, <1>t, <1>8, FrameStep DEF dispatch_due
  <1>9. CASE dispatch_callback
    BY <1>0, <1>9, TakeStep DEF dispatch_callback
  <1>10. CASE dispatch_return
    BY <1>0, <1>t, <1>10, PurgeStep DEF dispatch_return, NoneDue
  <1>11. CASE UNCHANGED vars
    BY <1>0, <1>t, <1>11, FrameStep DEF vars
  <1>12. QED
    BY <1>0, <1>1, <1>2, <1>3, <1>4, <1>5, <1>6, <1>7, <1>8, <1>9, <1>10, <1>11 DEF Next

\* SchedulerInv holds in every reachable state of the scheduler.
THEOREM SchedulerInvariance == Spec => []SchedulerInv
  BY InitInv, NextInv, PTL DEF Spec

\* The types of the scheduler's state.
THEOREM SchedulerTypes == Spec => []TypeOK
  <1>1. SchedulerInv => TypeOK
    BY DEF SchedulerInv
  <1>2. QED
    BY <1>1, SchedulerInvariance, PTL

\* pop_due and dispatch_due hand events out in (time, insertion) order for
\* every history of scheduling, cancelling and advancing.
THEOREM SchedulerDispatchOrder == Spec => []DispatchOrder
  <1>1. SchedulerInv => DispatchOrder
    BY DEF SchedulerInv
  <1>2. QED
    BY <1>1, SchedulerInvariance, PTL

\* Lazy cancellation loses no event, duplicates none and revives none.
THEOREM SchedulerEveryEventOnce == Spec => []EveryEventOnce
  <1>1. SchedulerInv => EveryEventOnce
    BY DEF SchedulerInv, EveryEventOnce
  <1>2. QED
    BY <1>1, SchedulerInvariance, PTL

-----------------------------------------------------------------------------
(* Refinement of the abstract timeline *)

\* Popping the head is the abstract dispatch of the first pending event.
LEMMA TakeImplements ==
    ASSUME SchedulerInv, NEW e \in heap, TakeDue(e)
    PROVE  Abstract!TLNext
  <1>1. e \in Live /\ Live' = Live \ {e}
    BY PurgeKeepsLive DEF TakeDue, IsHead
  <1>2. Abstract!IsFirst(e, Live)
    BY DEF TakeDue, IsHead, Abstract!IsFirst, Abstract!Before, Before
  <1>3. Abstract!TLDispatch(e)
    BY <1>1, <1>2 DEF TakeDue, Abstract!TLDispatch
  <1>4. QED
    BY <1>1, <1>3 DEF Abstract!TLNext

\* Purging is a stuttering step, or an advance when the clock moves with it.
LEMMA PurgeImplements ==
    ASSUME SchedulerInv, Purge({}), now' \in SimTime, now' >= now,
           UNCHANGED <<next_sequence, handed_out>>
    PROVE  [Abstract!TLNext]_(Abstract!tlvars)
  <1>1. Live' = Live
    BY PurgeKeepsLive, Live \ {} = Live
  <1>2. CASE now' = now
    BY <1>1, <1>2 DEF Abstract!tlvars
  <1>3. CASE now' # now
    <2>1. now' > now
      BY <1>3, BoundsAssumption DEF SchedulerInv, TypeOK, SimTime
    <2>2. Abstract!TLAdvance(now')
      BY <1>1, <2>1 DEF Abstract!TLAdvance
    <2>3. QED
      BY <2>2 DEF Abstract!TLNext, Abstract!SimTime, SimTime
  <1>4. QED
    BY <1>2, <1>3

\* Scheduling adds exactly the new event to the pending ones.
LEMMA PushImplements ==
    ASSUME SchedulerInv, NEW at \in SimTime, ~(at < now), Push(at),
           UNCHANGED <<now, handed_out>>
    PROVE  Abstract!TLNext
  <1>1. Live' = Live \cup {[at |-> at, seq |-> next_sequence]}
    <2>1. next_sequence \notin cancelled
      BY BoundsAssumption DEF SchedulerInv, Fresh, TypeOK, EventId
    <2>2. QED
      BY <2>1 DEF Push, Live
  <1>2. at >= now
    BY BoundsAssumption DEF SchedulerInv, TypeOK, SimTime
  <1>3. Abstract!TLSchedule(at)
    BY <1>1, <1>2 DEF Push, Abstract!TLSchedule
  <1>4. QED
    BY <1>3 DEF Abstract!TLNext, Abstract!SimTime, SimTime

\* Cancelling a live event removes it from the pending ones at once; any
\* other identifier changes nothing the timeline can see.
LEMMA CancelImplements ==
    ASSUME SchedulerInv, NEW id \in EventId, cancel(id)
    PROVE  [Abstract!TLNext]_(Abstract!tlvars)
  <1>1. CASE \E e \in Live : e.seq = id
    <2>1. PICK e \in Live : e.seq = id
      BY <1>1
    <2>2. Live' = Live \ {e}
      BY <2>1 DEF cancel, Live, SchedulerInv, UniqueIds
    <2>3. Abstract!TLCancel(e)
      BY <2>1, <2>2 DEF cancel, Abstract!TLCancel
    <2>4. QED
      BY <2>3 DEF Abstract!TLNext
  <1>2. CASE ~\E e \in Live : e.seq = id
    <2>1. Live' = Live
      BY <1>2 DEF cancel, Live
    <2>2. QED
      BY <2>1 DEF cancel, Abstract!tlvars
  <1>3. QED
    BY <1>1, <1>2

\* Every step of the scheduler is a step of the timeline or a stutter.
LEMMA NextImplements ==
    ASSUME SchedulerInv, [Next]_vars
    PROVE  [Abstract!TLNext]_(Abstract!tlvars)
  <1>t. now \in SimTime /\ now \in Nat /\ now >= now
    BY BoundsAssumption DEF SchedulerInv, TypeOK, SimTime
  <1>1. ASSUME NEW t \in SimTime, schedule_at(t) PROVE Abstract!TLNext
    BY <1>1, PushImplements DEF schedule_at
  <1>2. ASSUME NEW t \in SimTime, schedule_after(t) PROVE Abstract!TLNext
    <2>1. now + t \in SimTime /\ ~(now + t < now)
      BY <1>t, <1>2, BoundsAssumption DEF schedule_after, SimTime
    <2>2. QED
      BY <1>2, <2>1, PushImplements DEF schedule_after
  <1>3. ASSUME NEW t \in SimTime, advance_to(t)
        PROVE  [Abstract!TLNext]_(Abstract!tlvars)
    <2>1. Live' = Live
      BY <1>3 DEF advance_to, Live
    <2>2. CASE t = now
      BY <1>3, <2>1, <2>2 DEF advance_to, Abstract!tlvars
    <2>3. CASE t # now
      <3>1. t > now
        BY <1>t, <1>3, <2>3, BoundsAssumption DEF advance_to, SimTime
      <3>2. Abstract!TLAdvance(t)
        BY <1>3, <2>1, <3>1 DEF advance_to, Abstract!TLAdvance
      <3>3. QED
        BY <3>2 DEF Abstract!TLNext, Abstract!SimTime, SimTime
    <2>4. QED
      BY <2>2, <2>3
  <1>4. ASSUME NEW id \in EventId, cancel(id)
        PROVE  [Abstract!TLNext]_(Abstract!tlvars)
    BY <1>4, CancelImplements
  <1>5. CASE next_wakeup
    BY <1>t, <1>5, PurgeImplements DEF next_wakeup
  <1>6. CASE advance_to_next
    <2>1. now' \in SimTime /\ now' >= now
      <3>1. CASE now' = now
        BY <1>t, <3>1
      <3>2. ASSUME NEW e \in Live, now' = IF e.at < now THEN now ELSE e.at
            PROVE  now' \in SimTime /\ now' >= now
        <4>1. e.at \in SimTime
          BY DEF SchedulerInv, TypeOK, Live, ScheduledEvent
        <4>2. QED
          BY <1>t, <3>2, <4>1, BoundsAssumption DEF SimTime
      <3>3. QED
        BY <1>6, <3>1, <3>2 DEF advance_to_next
    <2>2. QED
      BY <1>6, <2>1, PurgeImplements DEF advance_to_next
  <1>7. CASE pop_due
    <2>1. CASE \E e \in heap : TakeDue(e)
      BY <2>1, TakeImplements
    <2>2. CASE NoneDue
      BY <1>t, <2>2, PurgeImplements DEF NoneDue
    <2>3. QED
      BY <1>7, <2>1, <2>2 DEF pop_due
  <1>8. CASE dispatch_due
    BY <1>8 DEF dispatch_due, Abstract!tlvars, Live
  <1>9. CASE dispatch_callback
    BY <1>9, TakeImplements DEF dispatch_callback
  <1>10. CASE dispatch_return
    BY <1>t, <1>10, PurgeImplements DEF dispatch_return, NoneDue
  <1>11. CASE UNCHANGED vars
    BY <1>11 DEF vars, Abstract!tlvars, Live
  <1>12. QED
    BY <1>1, <1>2, <1>3, <1>4, <1>5, <1>6, <1>7, <1>8, <1>9, <1>10, <1>11 DEF Next

\* The scheduler with its lazy cancellation implements the abstract timeline
\* of docs/adr/0001-determinism.md for every timeline length.
THEOREM SchedulerRefinement == Spec => ImplementsTimeline
  <1>1. Init => Abstract!TLInit
    BY DEF Init, Abstract!TLInit, Live
  <1>2. SchedulerInv /\ [Next]_vars => [Abstract!TLNext]_(Abstract!tlvars)
    BY NextImplements
  <1>3. QED
    BY <1>1, <1>2, SchedulerInvariance, PTL DEF Spec, ImplementsTimeline, Abstract!TLSpec
=============================================================================
