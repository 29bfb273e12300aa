------------------------------ MODULE Timeline ------------------------------
(***************************************************************************)
(* What the event scheduler of remu-core promises to the machines that use  *)
(* it, without any of its data structures: docs/adr/0001-determinism.md     *)
(* says that events are ordered by simulation time and insertion sequence.  *)
(* The state is the clock, the set of events that are still to happen and   *)
(* the history of those that have happened.  A cancelled event leaves the   *)
(* set at once: laziness is an implementation matter.                       *)
(***************************************************************************)
EXTENDS Naturals, Sequences

CONSTANTS
    MaxTime,        \* the last representable simulation time (u64::MAX)
    MaxSequence     \* the last insertion sequence (u64::MAX)

VARIABLES
    now,            \* the current simulation time
    pending,        \* the events that are scheduled and not cancelled
    history,        \* the events dispatched so far, in order
    issued          \* how many events have been scheduled

tlvars == <<now, pending, history, issued>>

SimTime == 0..MaxTime
Event == [at : SimTime, seq : 0..MaxSequence]

\* The total order of ScheduledEvent: time first, insertion sequence second.
Before(e, f) == \/ e.at < f.at
                \/ e.at = f.at /\ e.seq < f.seq

\* e is the event of the set S that comes first.
IsFirst(e, S) == e \in S /\ \A f \in S \ {e} : Before(e, f)

TLInit == /\ now = 0
          /\ pending = {}
          /\ history = << >>
          /\ issued = 0

\* An event is scheduled for the present or the future, never for the past.
TLSchedule(at) ==
    /\ at >= now
    /\ issued < MaxSequence
    /\ pending' = pending \cup {[at |-> at, seq |-> issued]}
    /\ issued' = issued + 1
    /\ UNCHANGED <<now, history>>

TLCancel(e) ==
    /\ e \in pending
    /\ pending' = pending \ {e}
    /\ UNCHANGED <<now, history, issued>>

TLAdvance(t) ==
    /\ t > now
    /\ now' = t
    /\ UNCHANGED <<pending, history, issued>>

\* The first pending event happens, once its time has come.
TLDispatch(e) ==
    /\ IsFirst(e, pending)
    /\ e.at <= now
    /\ pending' = pending \ {e}
    /\ history' = Append(history, e)
    /\ UNCHANGED <<now, issued>>

TLNext == \/ \E t \in SimTime : TLSchedule(t) \/ TLAdvance(t)
          \/ \E e \in pending : TLCancel(e) \/ TLDispatch(e)

TLSpec == TLInit /\ [][TLNext]_tlvars
=============================================================================
