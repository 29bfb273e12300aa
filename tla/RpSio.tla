-------------------------------- MODULE RpSio --------------------------------
(***************************************************************************)
(* The part of the RP2040/RP2350 single-cycle I/O block that the two cores  *)
(* share (crates/remu-devices/src/arm.rs, RpSioGpio): the two inter-core    *)
(* FIFOs with their sticky errors, the core-1 launch protocol of the boot   *)
(* ROM, the spinlocks and the integer divider.                              *)
(*                                                                          *)
(* An operator here is one register access by one core: the machine selects *)
(* the core before it steps it, so that the argument `core' stands for      *)
(* RpSioMulticoreState.selected_core.  A word is a number below Modulus,    *)
(* which is 2^32 in the code; the GPIO registers of the block are modelled  *)
(* in Signals and ArmRun.                                                   *)
(***************************************************************************)
EXTENDS Integers, Sequences

CONSTANTS
    Depth,          \* words a FIFO holds: 8 in the code
    Modulus,        \* 2 to the width of a word
    Lock,           \* the spinlocks: 32 in the code
    NoLaunch        \* None of Option<RpCoreLaunch>

ASSUME DepthAssumption == Depth \in Nat /\ Depth >= 2
ASSUME ModulusAssumption == Modulus \in Nat /\ Modulus >= 2 /\ Modulus % 2 = 0

VARIABLES
    inbound,            \* per core, the words on their way to it
    fifoError,          \* per core, its sticky WOF and ROE bits
    launchSequence,     \* the last words core 0 wrote to the boot ROM
    pendingLaunch,      \* a launch the machine has not taken yet
    core1Launched,      \* core 1 has left the launch protocol
    spinlocks,          \* the locks that are free
    divider             \* dividend, quotient, remainder

fifo_vars == <<inbound, fifoError, launchSequence, pendingLaunch, core1Launched>>
sio_vars == <<fifo_vars, spinlocks, divider>>

Core == {0, 1}
Other(core) == 1 - core
Word == 0..(Modulus - 1)
Launch == [vector : Word, stack : Word, entry : Word]

SioTypes ==
    /\ inbound \in [Core -> Seq(Word)]
    /\ fifoError \in [Core -> SUBSET {"WOF", "ROE"}]
    /\ launchSequence \in Seq(Word)
    /\ pendingLaunch \in Launch \cup {NoLaunch}
    /\ core1Launched \in BOOLEAN
    /\ spinlocks \in SUBSET Lock
    /\ divider \in [dividend : Word, quotient : Word, remainder : Word]

SioInit_NotReady ==
    /\ inbound = [core \in Core |-> << >>]
    /\ fifoError = [core \in Core |-> {}]
    /\ launchSequence = << >>
    /\ pendingLaunch = NoLaunch
    /\ core1Launched = FALSE
    /\ spinlocks = Lock
    /\ divider = [dividend |-> 0, quotient |-> 0, remainder |-> 0]

\* The boot ROM of core 1 has already sent its ready word.
SioInit ==
    /\ inbound = [core \in Core |-> IF core = 0 THEN <<0>> ELSE << >>]
    /\ fifoError = [core \in Core |-> {}]
    /\ launchSequence = << >>
    /\ pendingLaunch = NoLaunch
    /\ core1Launched = FALSE
    /\ spinlocks = Lock
    /\ divider = [dividend |-> 0, quotient |-> 0, remainder |-> 0]

-----------------------------------------------------------------------------
(* FIFO_ST, FIFO_RD and FIFO_WR *)

\* Bit 0 of FIFO_ST.
Valid(core) == inbound[core] # << >>

\* What FIFO_RD returns: the oldest word, or zero from an empty FIFO.
ReadValue(core) == IF Valid(core) THEN Head(inbound[core]) ELSE 0

FifoRead(core) ==
    /\ \/ /\ Valid(core)
          /\ inbound' = [inbound EXCEPT ![core] = Tail(@)]
          /\ UNCHANGED fifoError
       \/ /\ ~Valid(core)
          /\ fifoError' = [fifoError EXCEPT ![core] = @ \cup {"ROE"}]
          /\ UNCHANGED inbound
    /\ UNCHANGED <<launchSequence, pendingLaunch, core1Launched>>

\* The launch protocol keeps the last six words.
Slide(sequence, word) ==
    IF Len(sequence) = 6 THEN Append(Tail(sequence), word) ELSE Append(sequence, word)

IsLaunch(sequence) == Len(sequence) = 6 /\ SubSeq(sequence, 1, 3) = <<0, 0, 1>>

\* A write of core 0 while core 1 is in its boot ROM: the ROM echoes the word
\* and starts core 1 when the last six words are a launch.  The space asked for
\* is that of the FIFO to core 1, the space used is that of core 0's own.
WriteToRom(word) ==
    LET window == Slide(launchSequence, word)
    IN  /\ inbound' = [inbound EXCEPT ![0] = Append(@, word)]
        /\ \/ /\ IsLaunch(window)
              /\ pendingLaunch' = [vector |-> window[4], stack |-> window[5], entry |-> window[6]]
              /\ core1Launched' = TRUE
              /\ launchSequence' = << >>
           \/ /\ ~IsLaunch(window)
              /\ launchSequence' = window
              /\ UNCHANGED <<pendingLaunch, core1Launched>>
        /\ UNCHANGED fifoError

WriteOverflow_Silent(core) ==
    UNCHANGED <<inbound, fifoError, launchSequence, pendingLaunch, core1Launched>>

WriteOverflow(core) ==
    /\ fifoError' = [fifoError EXCEPT ![core] = @ \cup {"WOF"}]
    /\ UNCHANGED <<inbound, launchSequence, pendingLaunch, core1Launched>>

WriteToCore(core, word) ==
    /\ inbound' = [inbound EXCEPT ![Other(core)] = Append(@, word)]
    /\ UNCHANGED <<fifoError, launchSequence, pendingLaunch, core1Launched>>

\* A write asks for space in the FIFO to the other core.
HasRoom_OneMore(core) == Len(inbound[Other(core)]) <= Depth
HasRoom(core) == Len(inbound[Other(core)]) < Depth

FifoWrite(core, word) ==
    \/ /\ ~HasRoom(core)
       /\ WriteOverflow(core)
    \/ /\ HasRoom(core)
       /\ core = 0 /\ ~core1Launched
       /\ WriteToRom(word)
    \/ /\ HasRoom(core)
       /\ core = 1 \/ core1Launched
       /\ WriteToCore(core, word)

\* A write of FIFO_ST: WOF and ROE are cleared by writing one.
FifoClear(core, bits) ==
    /\ fifoError' = [fifoError EXCEPT ![core] = @ \ bits]
    /\ UNCHANGED <<inbound, launchSequence, pendingLaunch, core1Launched>>

\* RpSioHandle::take_core1_launch.
TakeCore1Launch ==
    /\ pendingLaunch # NoLaunch
    /\ pendingLaunch' = NoLaunch
    /\ UNCHANGED <<inbound, fifoError, launchSequence, core1Launched>>

-----------------------------------------------------------------------------
(* Spinlocks and divider *)

SpinAcquire_Peeks(lock) == lock \in spinlocks /\ UNCHANGED spinlocks

\* A read that finds the lock free takes it and returns its mask; one that does
\* not returns zero and changes nothing.
SpinAcquire(lock) ==
    /\ lock \in spinlocks
    /\ spinlocks' = spinlocks \ {lock}

\* A write of any value by any core.
SpinRelease_Ignored(lock) == UNCHANGED spinlocks
SpinRelease(lock) == spinlocks' = spinlocks \cup {lock}

\* A word read as a signed number, and back.
Signed(word) == IF 2 * word >= Modulus THEN word - Modulus ELSE word
Unsigned(number) == number % Modulus

Magnitude(number) == IF number < 0 THEN -number ELSE number

\* Rust's division of i32: towards zero, the sign of the remainder follows the
\* dividend, and the one quotient that does not fit wraps.
TowardsZero(n, d) ==
    LET size == Magnitude(n) \div Magnitude(d)
    IN  IF (n < 0) = (d < 0) THEN size ELSE -size

\* A write of DIV_UDIVISOR or DIV_SDIVISOR with the dividend written before.
Quotient(n, d, signed) ==
    CASE d = 0 /\ signed /\ Signed(n) < 0 -> 1
      [] d = 0 /\ ~(signed /\ Signed(n) < 0) -> Modulus - 1
      [] d # 0 /\ signed -> Unsigned(TowardsZero(Signed(n), Signed(d)))
      [] d # 0 /\ ~signed -> n \div d

Remainder(n, d, signed) ==
    CASE d = 0 -> n
      [] d # 0 /\ signed ->
            Unsigned(Signed(n) - Signed(d) * TowardsZero(Signed(n), Signed(d)))
      [] d # 0 /\ ~signed -> n % d

WriteDividend(n) == divider' = [divider EXCEPT !.dividend = n]

WriteDivisor(d, signed) ==
    divider' = [divider EXCEPT !.quotient = Quotient(divider.dividend, d, signed),
                               !.remainder = Remainder(divider.dividend, d, signed)]
=============================================================================
