------------------------------ MODULE Scheduler ------------------------------
(***************************************************************************)
(* The deterministic event queue and the scheduler built on it              *)
(* (crates/remu-core/src/event.rs and scheduler.rs).                        *)
(*                                                                          *)
(* EventQueue keeps a heap of scheduled events ordered by timestamp and     *)
(* insertion sequence.  Cancelling only records the identifier in a set;    *)
(* the heap entry stays until it reaches the head, where next_time and pop  *)
(* remove it together with its mark.  Scheduler adds the clock: nothing is  *)
(* scheduled behind it, and only events at or before it are handed out.     *)
(*                                                                          *)
(* The payload is opaque to this code and is left out: an event is its      *)
(* timestamp and its sequence number, which is also its EventId.            *)
(***************************************************************************)
EXTENDS Naturals, Sequences, FiniteSets

CONSTANTS
    MaxTime,        \* u64::MAX ticks, the last SimTime
    MaxSequence     \* u64::MAX, the value next_sequence cannot step past

ASSUME BoundsAssumption == MaxTime \in Nat /\ MaxSequence \in Nat

VARIABLES
    now,            \* Scheduler.now
    heap,           \* EventQueue.heap; sequences are unique, so a set
    cancelled,      \* EventQueue.cancelled
    next_sequence,  \* EventQueue.next_sequence
    dispatched,     \* Scheduler.dispatched
    in_dispatch,    \* control is inside the loop of Scheduler::dispatch_due
    \* history, for the properties only
    handed_out,     \* the events pop_due returned, in order
    revoked         \* the identifiers cancelled while the event was queued

vars == <<now, heap, cancelled, next_sequence, dispatched, in_dispatch,
          handed_out, revoked>>

SimTime == 0..MaxTime
EventId == 0..MaxSequence
ScheduledEvent == [at : SimTime, seq : EventId]

-----------------------------------------------------------------------------
(* EventQueue *)

\* Ord for ScheduledEvent, un-reversed: e is popped before f.
Before(e, f) == \/ e.at < f.at
                \/ e.at = f.at /\ e.seq < f.seq

\* The entries of the heap that no cancellation mark names.
Live == {e \in heap : e.seq \notin cancelled}

\* The cancelled entries in front of every live one: what next_time removes
\* from the head of the heap before it can report a timestamp.
Skipped == {e \in heap \ Live : \A f \in Live : Before(e, f)}

Ids(S) == {e.seq : e \in S}

\* e is the head of the heap once the skipped entries are gone.
IsHead(e) == e \in Live /\ \A f \in Live \ {e} : Before(e, f)

\* The purge forgets the marks before the entry leaves the heap.
Purge_MarksOnly(taken) ==
    /\ heap' = heap \ taken
    /\ cancelled' = cancelled \ Ids(Skipped)

\* EventQueue::next_time: drops the skipped entries and their marks, and
\* with `taken' the events that the caller goes on to pop.
Purge(taken) ==
    /\ heap' = (heap \ Skipped) \ taken
    /\ cancelled' = cancelled \ Ids(Skipped)

\* EventQueue::schedule_at.  The counter cannot step past its last value.
Push(at) ==
    /\ next_sequence < MaxSequence
    /\ heap' = heap \cup {[at |-> at, seq |-> next_sequence]}
    /\ next_sequence' = next_sequence + 1
    /\ UNCHANGED cancelled

-----------------------------------------------------------------------------
(* Scheduler.  dispatch_due holds the scheduler exclusively (&mut self)     *)
(* while it calls back, so no other operation starts before it returns.     *)

Init ==
    /\ now = 0
    /\ heap = {}
    /\ cancelled = {}
    /\ next_sequence = 0
    /\ dispatched = 0
    /\ in_dispatch = FALSE
    /\ handed_out = << >>
    /\ revoked = {}

\* schedule_at without its Rewind check.
schedule_at_Past(at) ==
    /\ ~in_dispatch
    /\ Push(at)
    /\ UNCHANGED <<now, dispatched, in_dispatch, handed_out, revoked>>

\* Scheduler::schedule_at: a timestamp behind the clock is a Rewind error.
schedule_at(at) ==
    /\ ~in_dispatch
    /\ ~(at < now)
    /\ Push(at)
    /\ UNCHANGED <<now, dispatched, in_dispatch, handed_out, revoked>>

\* Scheduler::schedule_after: the addition is checked, overflow is an error.
schedule_after(delay) ==
    /\ ~in_dispatch
    /\ now + delay <= MaxTime
    /\ Push(now + delay)
    /\ UNCHANGED <<now, dispatched, in_dispatch, handed_out, revoked>>

\* Scheduler::cancel, of any identifier schedule_at has returned.
cancel(id) ==
    /\ ~in_dispatch
    /\ id < next_sequence
    /\ cancelled' = cancelled \cup {id}
    /\ revoked' = revoked \cup ({id} \cap Ids(heap))
    /\ UNCHANGED <<now, heap, next_sequence, dispatched, in_dispatch, handed_out>>

\* Scheduler::advance_to: time cannot move backwards.
advance_to(at) ==
    /\ ~in_dispatch
    /\ ~(at < now)
    /\ now' = at
    /\ UNCHANGED <<heap, cancelled, next_sequence, dispatched, in_dispatch,
                   handed_out, revoked>>

\* Scheduler::next_wakeup: asking for the next timestamp changes the queue.
next_wakeup ==
    /\ ~in_dispatch
    /\ Purge({})
    /\ UNCHANGED <<now, next_sequence, dispatched, in_dispatch, handed_out, revoked>>

\* Scheduler::advance_to_next: next_wakeup, then the clock follows; a head
\* behind the clock makes advance_to fail after the purge.
advance_to_next ==
    /\ ~in_dispatch
    /\ Purge({})
    /\ \/ Live = {} /\ now' = now
       \/ \E e \in Live : IsHead(e) /\ now' = IF e.at < now THEN now ELSE e.at
    /\ UNCHANGED <<next_sequence, dispatched, in_dispatch, handed_out, revoked>>

\* pop_due hands out the head before it is due, as a plain pop would.
TakeDue_Early(e) ==
    /\ IsHead(e)
    /\ Purge({e})
    /\ dispatched' = dispatched + 1
    /\ handed_out' = Append(handed_out, e)
    /\ UNCHANGED <<now, next_sequence, revoked>>

\* The body of Scheduler::pop_due when an event is due.  The count saturates
\* at u64::MAX, which next_sequence reaches no later.
TakeDue(e) ==
    /\ IsHead(e)
    /\ e.at <= now
    /\ Purge({e})
    /\ dispatched' = dispatched + 1
    /\ handed_out' = Append(handed_out, e)
    /\ UNCHANGED <<now, next_sequence, revoked>>

\* The body of Scheduler::pop_due when none is: next_wakeup's purge remains.
NoneDue ==
    /\ \A e \in Live : ~(e.at <= now)
    /\ Purge({})
    /\ UNCHANGED <<now, next_sequence, dispatched, handed_out, revoked>>

pop_due ==
    /\ ~in_dispatch
    /\ (\E e \in heap : TakeDue(e)) \/ NoneDue
    /\ UNCHANGED in_dispatch

\* Scheduler::dispatch_due: it pops while events are due and hands each one to
\* the callback, whose error ends the call and leaves the rest queued.
dispatch_due ==
    /\ ~in_dispatch
    /\ in_dispatch' = TRUE
    /\ UNCHANGED <<now, heap, cancelled, next_sequence, dispatched,
                   handed_out, revoked>>

dispatch_callback ==
    /\ in_dispatch
    /\ \E e \in heap : TakeDue(e)
    /\ in_dispatch' \in BOOLEAN    \* Ok goes round the loop, Err returns

dispatch_return ==
    /\ in_dispatch
    /\ NoneDue
    /\ in_dispatch' = FALSE

Next ==
    \/ \E t \in SimTime : schedule_at(t) \/ schedule_after(t) \/ advance_to(t)
    \/ \E id \in EventId : cancel(id)
    \/ next_wakeup
    \/ advance_to_next
    \/ pop_due
    \/ dispatch_due \/ dispatch_callback \/ dispatch_return

Spec == Init /\ [][Next]_vars

-----------------------------------------------------------------------------
(* Properties *)

HandedOut == {handed_out[i] : i \in DOMAIN handed_out}

\* Every variable has its type; the sequence counter is ahead of every
\* identifier in use.
TypeOK ==
    /\ now \in SimTime
    /\ heap \subseteq ScheduledEvent
    /\ cancelled \subseteq EventId
    /\ next_sequence \in EventId
    /\ dispatched \in Nat
    /\ in_dispatch \in BOOLEAN
    /\ handed_out \in Seq(ScheduledEvent)
    /\ revoked \subseteq EventId

\* Events leave the scheduler in timestamp order, and in insertion order at
\* equal timestamps, over the whole life of the scheduler and however
\* scheduling, cancelling and advancing are interleaved with the pops.
DispatchOrder ==
    \A i, j \in DOMAIN handed_out : i < j => Before(handed_out[i], handed_out[j])

RevokedNeverDispatched == Ids(HandedOut) \cap revoked = {}
NothingLost ==
    /\ 0..(next_sequence - 1) = Ids(HandedOut) \cup revoked \cup Ids(Live)
    /\ Ids(HandedOut) \cap Ids(Live) = {}
    /\ revoked \cap Ids(Live) = {}

\* No event is lost, duplicated or cancelled by the mark of another one, and one
\* cancelled while it was queued is never handed out although its heap entry
\* stays until it reaches the head: every identifier issued is in exactly one
\* of three places.
EveryEventOnce == NothingLost /\ RevokedNeverDispatched

\* The strengthening the proofs need: identifiers are unique and older than
\* the counter, whatever is still queued comes after whatever has left, and a
\* queued event is marked exactly when it was cancelled.
Fresh == /\ \A e \in heap : e.seq < next_sequence
         /\ \A id \in cancelled \cup revoked : id < next_sequence
         /\ \A i \in DOMAIN handed_out : handed_out[i].seq < next_sequence
UniqueIds == /\ \A e, f \in heap : e.seq = f.seq => e = f
             /\ \A e \in heap : \A i \in DOMAIN handed_out : handed_out[i].seq # e.seq
QueuedAfterHandedOut ==
    \A i \in DOMAIN handed_out :
        /\ handed_out[i].at <= now
        /\ \A e \in heap : Before(handed_out[i], e)
MarkedIffRevoked == \A e \in heap : e.seq \in cancelled <=> e.seq \in revoked

SchedulerInv ==
    /\ TypeOK /\ Fresh /\ UniqueIds /\ QueuedAfterHandedOut /\ MarkedIffRevoked
    /\ DispatchOrder /\ RevokedNeverDispatched /\ NothingLost

\* The scheduler implements the timeline of the determinism ADR: the pending
\* events are the unmarked heap entries, so lazy removal is invisible.
Abstract == INSTANCE Timeline WITH pending <- Live, history <- handed_out,
                                   issued <- next_sequence
ImplementsTimeline == Abstract!TLSpec

=============================================================================
