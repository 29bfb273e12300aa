---------------------------- MODULE PicoMulticore ----------------------------
(***************************************************************************)
(* Two-core firmware on the shared SIO block: the Pico SDK calls that the   *)
(* repository supplies to the upstream multicore example                    *)
(* (corpus/vendor/pico-multicore/compat.c), run by both cores of the        *)
(* RP2040/RP2350 machine.                                                   *)
(*                                                                          *)
(* Core 0 launches core 1 and then both run a program, a sequence of calls: *)
(* multicore_fifo_push_blocking, multicore_fifo_pop_blocking, a read of     *)
(* FIFO_RD that nothing precedes, a write of FIFO_ST, and a division under  *)
(* a spinlock.  Every action is one register access of one core.  The       *)
(* machine gives the cores one instruction each in turn and a call makes    *)
(* several instructions between two accesses, so that                       *)
(* accesses of the cores interleave freely, and neither core is starved.    *)
(***************************************************************************)
EXTENDS RpSio

CONSTANTS
    Programs,       \* the pairs of programs offered, one program per core
    Operand,        \* what the programs divide
    DivLock,        \* the lock that guards the divider
    Vector, Stack, Entry    \* what core 1 is launched with

ASSUME LaunchWordsAssumption == {Vector, Stack, Entry} \subseteq Word
ASSUME DivLockAssumption == DivLock \in Lock
ASSUME OperandAssumption == Operand \subseteq Word

Call == [op : {"push"}, word : Word] \cup [op : {"pop", "read", "clear", "divide"}]

ASSUME ProgramsAssumption == Programs \subseteq [Core -> Seq(Call)]

VARIABLES
    at,             \* per core, where it is inside a call
    calls,          \* per core, the calls still to make, the current one first
    index,          \* multicore_launch_core1: the word being sent
    cpu1,           \* core 1: held in the boot ROM, or what it was started with
    operation,      \* per core, the operands of its division
    \* history, for the properties only
    drained,        \* the words that multicore_launch_core1 threw away
    pushed,         \* per core, the words its program pushed
    popped,         \* per core, the words its program popped
    cleared,        \* per core, its program has cleared its sticky bits
    results         \* the divisions made: operands and what was read back

pico_vars == <<sio_vars, at, calls, index, cpu1, operation,
               drained, pushed, popped, cleared, results>>

\* multicore_launch_core1: the words of `sequence'.
LaunchWords == <<0, 0, 1, Vector, Stack, Entry>>

Label == {"launch", "ack", "lastack", "next", "take",
          "dividend", "divisor", "quotient", "remainder", "release"}
Operation == [n : Word, d : Word, signed : BOOLEAN, q : Word]
Result == [n : Word, d : Word, signed : BOOLEAN, q : Word, r : Word]

\* Where a core holds the lock of the divider.
Guarded == {"dividend", "divisor", "quotient", "remainder", "release"}

\* Types of the two cores and of the block.
PicoTypeOK ==
    /\ SioTypes
    /\ at \in [Core -> Label]
    /\ calls \in [Core -> Seq(Call)]
    /\ index \in 1..6
    /\ cpu1 \in Launch \cup {NoLaunch}
    /\ operation \in [Core -> Operation]
    /\ drained \in Seq(Word)
    /\ pushed \in [Core -> Seq(Word)]
    /\ popped \in [Core -> Seq(Word)]
    /\ cleared \in [Core -> BOOLEAN]
    /\ results \in SUBSET Result

PicoInit ==
    /\ SioInit
    /\ calls \in Programs
    /\ at = [core \in Core |-> IF core = 0 THEN "launch" ELSE "next"]
    /\ index = 1
    /\ cpu1 = NoLaunch
    /\ operation = [core \in Core |-> [n |-> 0, d |-> 0, signed |-> FALSE, q |-> 0]]
    /\ drained = << >>
    /\ pushed = [core \in Core |-> << >>]
    /\ popped = [core \in Core |-> << >>]
    /\ cleared = [core \in Core |-> FALSE]
    /\ results = {}

\* The machine steps core 1 once it has taken the launch.
Running(core) == core = 0 \/ cpu1 # NoLaunch

Calling(core, op) ==
    /\ Running(core)
    /\ at[core] = "next"
    /\ calls[core] # << >>
    /\ Head(calls[core]).op = op

Goto(core, label) == at' = [at EXCEPT ![core] = label]
Return(core) ==
    /\ Goto(core, "next")
    /\ calls' = [calls EXCEPT ![core] = Tail(@)]

-----------------------------------------------------------------------------
(* multicore_launch_core1 *)

LaunchWrite ==
    /\ at[0] = "launch"
    /\ FifoWrite(0, LaunchWords[index])
    /\ Goto(0, "ack")
    /\ UNCHANGED <<calls, index, cpu1, operation, drained, pushed, popped, cleared, results,
                   spinlocks, divider>>

LaunchAck ==
    /\ at[0] = "ack"
    /\ FifoRead(0)
    /\ drained' = Append(drained, ReadValue(0))
    /\ \/ index < 6 /\ index' = index + 1 /\ Goto(0, "launch")
       \/ index = 6 /\ UNCHANGED index /\ Goto(0, "lastack")
    /\ UNCHANGED <<calls, cpu1, operation, pushed, popped, cleared, results, spinlocks, divider>>

LaunchLastAck ==
    /\ at[0] = "lastack"
    /\ FifoRead(0)
    /\ drained' = Append(drained, ReadValue(0))
    /\ Goto(0, "next")
    /\ UNCHANGED <<calls, index, cpu1, operation, pushed, popped, cleared, results,
                   spinlocks, divider>>

\* The machine's loop after an instruction of core 0.  A run that stops between
\* the write and this point takes the launch when it is resumed.
StartCore1 ==
    /\ TakeCore1Launch
    /\ cpu1' = pendingLaunch
    /\ UNCHANGED <<at, calls, index, operation, drained, pushed, popped, cleared, results,
                   spinlocks, divider>>

-----------------------------------------------------------------------------
(* The calls of a program *)

\* multicore_fifo_push_blocking: one write, whatever FIFO_ST says.
Push(core) ==
    /\ Calling(core, "push")
    /\ FifoWrite(core, Head(calls[core]).word)
    /\ pushed' = [pushed EXCEPT ![core] = Append(@, Head(calls[core]).word)]
    /\ Return(core)
    /\ UNCHANGED <<index, cpu1, operation, drained, popped, cleared, results, spinlocks, divider>>

\* multicore_fifo_pop_blocking: the poll that finds the FIFO valid.
PopPoll(core) ==
    /\ Calling(core, "pop")
    /\ Valid(core)
    /\ Goto(core, "take")
    /\ UNCHANGED <<sio_vars, calls, index, cpu1, operation, drained, pushed, popped, cleared,
                   results>>

PopTake(core) ==
    /\ at[core] = "take"
    /\ FifoRead(core)
    /\ popped' = [popped EXCEPT ![core] = Append(@, ReadValue(core))]
    /\ Return(core)
    /\ UNCHANGED <<index, cpu1, operation, drained, pushed, cleared, results, spinlocks, divider>>

\* A read of FIFO_RD without a look at FIFO_ST.
ReadUnpolled(core) ==
    /\ Calling(core, "read")
    /\ FifoRead(core)
    /\ popped' = [popped EXCEPT ![core] = IF Valid(core) THEN Append(@, ReadValue(core)) ELSE @]
    /\ Return(core)
    /\ UNCHANGED <<index, cpu1, operation, drained, pushed, cleared, results, spinlocks, divider>>

ClearErrors(core) ==
    /\ Calling(core, "clear")
    /\ FifoClear(core, {"WOF", "ROE"})
    /\ cleared' = [cleared EXCEPT ![core] = TRUE]
    /\ Return(core)
    /\ UNCHANGED <<index, cpu1, operation, drained, pushed, popped, results, spinlocks, divider>>

\* A division: the read of the lock that takes it, the operands, the results,
\* and the write that gives the lock back.
AcquireLock(core) ==
    /\ Calling(core, "divide")
    /\ SpinAcquire(DivLock)
    /\ \E n, d \in Operand, signed \in BOOLEAN :
          operation' = [operation EXCEPT ![core] = [n |-> n, d |-> d, signed |-> signed, q |-> 0]]
    /\ Goto(core, "dividend")
    /\ UNCHANGED <<fifo_vars, divider, calls, index, cpu1, drained, pushed, popped, cleared, results>>

GiveDividend(core) ==
    /\ at[core] = "dividend"
    /\ WriteDividend(operation[core].n)
    /\ Goto(core, "divisor")
    /\ UNCHANGED <<fifo_vars, spinlocks, calls, index, cpu1, operation, drained, pushed, popped,
                   cleared, results>>

GiveDivisor(core) ==
    /\ at[core] = "divisor"
    /\ WriteDivisor(operation[core].d, operation[core].signed)
    /\ Goto(core, "quotient")
    /\ UNCHANGED <<fifo_vars, spinlocks, calls, index, cpu1, operation, drained, pushed, popped,
                   cleared, results>>

\* The results are read back in two accesses.
ReadQuotient(core) ==
    /\ at[core] = "quotient"
    /\ operation' = [operation EXCEPT ![core].q = divider.quotient]
    /\ Goto(core, "remainder")
    /\ UNCHANGED <<sio_vars, calls, index, cpu1, drained, pushed, popped, cleared, results>>

ReadRemainder(core) ==
    /\ at[core] = "remainder"
    /\ results' = results \cup
          {[n |-> operation[core].n, d |-> operation[core].d, signed |-> operation[core].signed,
            q |-> operation[core].q, r |-> divider.remainder]}
    /\ Goto(core, "release")
    /\ UNCHANGED <<sio_vars, calls, index, cpu1, operation, drained, pushed, popped, cleared>>

ReleaseLock(core) ==
    /\ at[core] = "release"
    /\ SpinRelease(DivLock)
    /\ Return(core)
    /\ UNCHANGED <<fifo_vars, divider, index, cpu1, operation, drained, pushed, popped, cleared,
                   results>>

Core0Access == LaunchWrite \/ LaunchAck \/ LaunchLastAck
Access(core) ==
    \/ Push(core) \/ PopPoll(core) \/ PopTake(core) \/ ReadUnpolled(core)
    \/ ClearErrors(core)
    \/ AcquireLock(core) \/ GiveDividend(core) \/ GiveDivisor(core)
    \/ ReadQuotient(core) \/ ReadRemainder(core) \/ ReleaseLock(core)

PicoNext ==
    \/ Core0Access
    \/ StartCore1
    \/ \E core \in Core : Access(core)

\* The loop of the machine steps both cores in turn and looks for a launch in
\* every pass; a core that waits polls.
PicoFairness ==
    /\ WF_pico_vars(Core0Access)
    /\ WF_pico_vars(StartCore1)
    /\ \A core \in Core : WF_pico_vars(Access(core))

PicoSpec == PicoInit /\ [][PicoNext]_pico_vars /\ PicoFairness

-----------------------------------------------------------------------------
(* Properties *)

LaunchReturned == at[0] \notin {"launch", "ack", "lastack"}

\* multicore_launch_core1 reads FIFO_RD seven times without looking at FIFO_ST,
\* and core 1 may push its first words before the last two of these reads.  The
\* reads nevertheless throw away exactly the ready word and the six echoes,
\* never a word of core 1, and find no FIFO empty; and core 1 is started with
\* the words of this call.
LaunchHandshake ==
    /\ \E length \in 0..7 : drained = SubSeq(<<0>> \o LaunchWords, 1, length)
    /\ LaunchReturned => Len(drained) = 7
    /\ LaunchReturned \/ "ROE" \notin fifoError[0]
    /\ cpu1 # NoLaunch => cpu1 = [vector |-> Vector, stack |-> Stack, entry |-> Entry]

\* multicore_fifo_push_blocking does not block: it writes even when the FIFO is
\* full.  A core whose WOF bit is clear, and that never cleared it, has lost
\* nothing: what the other popped and what is still on its way is what was
\* pushed, in order.
ExchangeFaithful ==
    \A core \in Core :
        LaunchReturned /\ "WOF" \notin fifoError[Other(core)] /\ ~cleared[Other(core)]
            => popped[core] \o inbound[core] = pushed[Other(core)]

\* No FIFO holds more than its depth.  Before the launch a write of core 0 is
\* admitted by the FIFO to core 1 but stored in its own, so that the device
\* alone does not ensure this: the library's read after every write does.
FifoWithinDepth == \A core \in Core : Len(inbound[core]) <= Depth

\* The divider is one for both cores.  A core that divides under the spinlock
\* reads back the result of its own operands, also for a zero divisor and for
\* the quotient that does not fit; a remainder is smaller than its divisor and
\* has the sign of its dividend.
LockedDivisionExact ==
    \A x \in results :
        /\ (x.q * x.d + x.r) % Modulus = x.n
        /\ x.d # 0 /\ ~x.signed => x.r < x.d
        /\ x.d # 0 /\ x.signed =>
              /\ Magnitude(Signed(x.r)) < Magnitude(Signed(x.d))
              /\ x.r # 0 => (Signed(x.r) < 0) = (Signed(x.n) < 0)

Finished(core) == at[core] = "next" /\ calls[core] = << >>

\* Two programs of which each pops as many words as the other pushes both end,
\* unless a word was pushed into a full FIFO or read without a poll.
ExchangeCompletes ==
    <>(\/ \A core \in Core : Finished(core)
       \/ \E core \in Core : fifoError[core] # {} \/ cleared[core])
=============================================================================
