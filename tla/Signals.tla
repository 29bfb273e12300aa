------------------------------- MODULE Signals -------------------------------
(***************************************************************************)
(* Four-state nets and the signal hub (crates/remu-signals/src/lib.rs,      *)
(* crates/remu-devices/src/signals.rs and gpio.rs).                         *)
(*                                                                          *)
(* A board is a record: `net` gives every signal the value of each of its   *)
(* drivers, `values` is the registry's current value of each signal, and    *)
(* `changes` the queue of transitions that no consumer has drained yet.  A   *)
(* driver that was never connected and one that drives high impedance are   *)
(* not told apart, because resolution does not tell them apart.             *)
(***************************************************************************)
EXTENDS Naturals, Sequences

Logic == {"0", "1", "Z", "X"}

StrongDriver == {"external", "sio", "pio"}
WeakDriver == {"pull"}
Driver == StrongDriver \cup WeakDriver

\* What a set of driven values amounts to: an unknown driver, or two known ones
\* that disagree, make the net unknown.
Resolve(driven) ==
    CASE "X" \in driven \/ {"0", "1"} \subseteq driven -> "X"
      [] "X" \notin driven /\ driven \cap {"0", "1"} = {"0"} -> "0"
      [] "X" \notin driven /\ driven \cap {"0", "1"} = {"1"} -> "1"
      [] OTHER -> "Z"

\* DigitalNet::resolve_drivers: pulls count only when no strong driver is active.
Resolved(net) ==
    LET strong == Resolve({net[d] : d \in StrongDriver})
    IN IF strong = "Z" THEN Resolve({net[d] : d \in WeakDriver}) ELSE strong

\* SignalHub::set: only a real transition is queued.
HubSet(board, signal, value, at) ==
    IF board.values[signal] = value
    THEN board
    ELSE [board EXCEPT
            !.values[signal] = value,
            !.changes = Append(@, [at |-> at, signal |-> signal,
                                   previous |-> board.values[signal], value |-> value])]

\* One driver of one net changes, and the resolved value goes to the hub.
Drive(board, signal, driver, value, at) ==
    LET driven == [board EXCEPT !.net[signal][driver] = value]
    IN HubSet(driven, signal, Resolved(driven.net[signal]), at)

Released(signals) ==
    [net |-> [s \in signals |-> [d \in Driver |-> "Z"]],
     values |-> [s \in signals |-> "Z"],
     changes |-> << >>]

(***************************************************************************)
(* Signal stops (crates/remu-machines/src/lib.rs).                          *)
(***************************************************************************)
Triggers(stop, change) ==
    /\ stop.signal = change.signal
    /\ CASE stop.edge = "change" -> change.previous # change.value
         [] stop.edge = "rising" -> change.previous # "1" /\ change.value = "1"
         [] stop.edge = "falling" -> change.previous # "0" /\ change.value = "0"

=============================================================================
