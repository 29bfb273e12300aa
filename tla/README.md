# Renvo Emulator in TLA+

A verification project for the Renvo Emulator (`remu`), the deterministic
microcontroller emulator under `src/crates/`. It models the parts whose
correctness depends on the order of events rather than on one computation, checks
them with TLC on small instances and proves the most important results with TLAPS.

```
tlc -workers 2 -config MCScheduler.cfg MCScheduler      # any run of the table below
tlapm Scheduler_proofs.tla                              # any *_proofs module
```

`PROJECT.json` has the machine-readable side: components, runs, the source lines of
every definition, the hazards and the mutant that each property catches.

## 1. The system

The emulator is a Rust workspace. One host thread runs one machine; there is no
parallelism on the host. What makes it hard is the concurrency it *simulates*: two
cores, DMA, PIO programs, radio peers, timers and a debugger all act on one timeline,
and a run has to be reproducible to the bit (`docs/adr/0001-determinism.md`).

| Component (crate) | State | Operations | What makes it correct |
|---|---|---|---|
| Event queue, scheduler (`remu-core`) | heap, cancel marks, clock | schedule, cancel, advance, pop, dispatch | total order (time, insertion); nothing lost, nothing resurrected |
| Run limits, run control (`remu-core`, `remu-machines`) | limits, sorted stimuli, digest | apply stimuli, look at limits, record signals | every run ends; stimuli in order; the trace is faithful |
| Address space (`remu-bus`) | region list, region caches, watchpoints, guard, last device access | map, read, write, fetch, fast variants, set and take watchpoints | caches and fast paths are invisible; no watched access is missed |
| Nets, signal hub (`remu-signals`, `remu-devices`) | drivers per net, values, queue of changes | connect, set, drain | only real transitions, each told once, in time order |
| RF medium (`remu-radio`) | transmissions, receivers, clock | transmit, truncate, tune, advance, sense | pruning and polling change no outcome |
| Coexistence arbiter (`remu-radio`) | active grant, evidence | request, release, reset, power down | one owner at a time; evidence agrees with `owner()` |
| Legality validator (`remu-radio`) | activity per domain | begin, transition, complete | speaks only about illegal firmware |
| Machines (`remu-machines`) | CPUs, peripherals, clock | the run loop, radio service, boot ROM services | the order of the phases of one pass |
| Peripherals (`remu-devices`) | registers, FIFOs, DMA channels | read, write, tick | no lost request, no stale status |
| CPUs (`remu-cpu-*`) | registers | step | instruction semantics |
| SIO multicore block (`remu-devices/src/arm.rs`) | two FIFOs, sticky bits, launch window, spinlocks, divider | FIFO_ST/RD/WR, spinlock read and write, divider writes | no word lost without a sticky bit; one owner of a lock |
| Pico multicore library (`corpus/vendor/pico-multicore/compat.c`) | none of its own | launch core 1, push, pop | the launch drains what the boot ROM sent, and nothing else |
| ESP32-C6 native Wi-Fi MAC (`remu-devices`, `remu-machines/src/riscv`) | one queue, one ring, pending transmission, acknowledgements, key | kick, complete, deadline, acknowledge, receive | one completion per kick; one interrupt per received frame |
| Station firmware (`qualification/radio/c6-rf-probe`) | driver, open and WPA2 state machines | poll loop, UART commands, transmit, receive | every frame handed on once; the exchange ends |
| Front ends (`remu-gdb`, `-cli`, `-web`, `-starlark`, `-image`, `-corpus`, `-casegen`) | sessions | parse, drive a machine | bounded runs, stops, memory access |

How they interact. A machine's loop calls the bus through a CPU step; the bus routes
to memory or a device and leaves two one-slot notes for the loop, the watchpoint hit
and the last device access. Devices push pin changes to the signal hub, which the loop
drains into the digest and the trace sink, and where it looks for signal stops. The
radio service of a machine runs after each instruction: it asks the arbiter for the RF
path, submits to the medium, remembers which transmission belongs to which grant, and
reports every activity to the legality validator. A debugger or a host works between
two runs, on the same bus and the same hub.

Where it is hard: one-slot notes shared by several writers (watchpoint hit, last
device access, dirty flag of the pads); early breaks of a loop that leave work for the
next run; lazy removal (cancelled events, pruned transmissions, cached regions); a
grant, an airtime, an operation and an activity that four components keep and several
causes may end in one pass; two cores under one limit. In the guest software that the
repository owns: the launch reads the FIFO without polling while core 1 may already be
writing to it; both cores share one divider; a transmission may be ended by its
acknowledgement, by a deadline or by a refused grant while the driver polls two bits; the
driver clears the receive event and arms the descriptor in two accesses, and no layer
retries.

## 2. Modules

| Module | Models | Built on |
|---|---|---|
| `Timeline` | what the scheduler promises: clock, pending set, history | |
| `Scheduler` | `remu-core/src/event.rs`, `scheduler.rs` | implements `Timeline` |
| `CoexistenceArbiter` | `remu-radio/src/coexistence.rs` | |
| `RadioMedium` | `remu-radio/src/medium.rs` | |
| `C6Radio` | the ESP32-C6 radio service with peripheral, modem and validator | extends `CoexistenceArbiter` |
| `AddressSpace` | `remu-bus/src/lib.rs` | |
| `Signals` | nets, hub, signal stops as operators | |
| `ArmRun` | the RP2040/RP2350 run loop, run control, pads, core 1, debugger | extends `Signals` |
| `RpSio` | FIFOs, launch protocol, spinlocks and divider of the SIO block, one operator per register access | |
| `PicoMulticore` | the Pico library and programs of both cores | extends `RpSio` |
| `C6WifiMac` | the native Wi-Fi MAC, its service in the machine, the scripted access points | |
| `C6Station` | the `c6-rf-probe` firmware: main loop, driver, station, WPA2 | extends `C6WifiMac` |
| `*_proofs` | theorems about the module of that name; `C6Radio_proofs` extends `CoexistenceArbiter_proofs` | |
| `MC*` | instances for TLC | |

State and actions follow the code by name. What may not be obvious:

- **Scheduler.** The binary heap is a set, because sequence numbers are unique and only
  the head matters. `Purge` is the loop that drops cancelled heads in `next_time` and
  `pop`. `dispatch_due` is three actions: between two callbacks the loop body may
  schedule and cancel, and a callback may fail. `u64::MAX` is `MaxTime` and
  `MaxSequence`, so that `checked_add` failing is a reachable case.
- **CoexistenceArbiter.** The append-only event log is kept as `tenure`, the interval
  each grant held according to the log. `RequestExhausted` is a request that preempts
  and then finds no identifier left: the victim is logged as preempted and stays active.
- **RadioMedium.** `clock` is the machine's time and runs ahead of `m_now`, the medium's
  own clock, which moves only when polled. `aired` is the complete history, `retained`
  what the code still holds: the properties compare the two. Path losses are constant,
  the seeded loss sample is a constant set of discarded pairs.
- **C6Radio.** One action per phase of `service_radio`, in its order, after one guest
  instruction that may write a command, gate clocks or reset domains. Whether a frame is
  well formed, wants an acknowledgement or finds the channel busy is a free choice in the
  phase that looks at it. `fault` is the first diagnosis, which ends the run.
  `C6LegalSpec` restricts firmware to start operations on an idle peripheral only.
- **AddressSpace.** `SlowAccess` is the ordinary way through guard, region, device and
  reporting, `FastAccess` the way that skips reporting and must decline when somebody
  watches. Contents of memory are left out, except the byte order of both ways
  (`SlowBytes`, `FastBytes`, over the place values `Weight`). `first_watched` and `recent_device` are history variables.
- **ArmRun.** A pass of the loop is `Top` (core 0 selected, stimuli, exit code, limits,
  first refresh), `Dma`, `Service` (watchdog, breakpoint, PIO, second refresh, host
  input), `Core0`, and `Launch`/`Core1Breakpoint`/`Core1`; every `break` of the loop is a
  disjunct that calls `Stop`, in the order in which the code looks. A boot ROM call of core 0
  goes straight to `Top`. What an instruction does to the machine is one `Access`.
  The loops over pins, stimuli and recorded changes are left folds (`SelectEach`, `DriveEach`,
  `Replay`), in the order of the code. `matched` and `given` are history variables.
- **RpSio, PicoMulticore.** The machine selects a core before it steps it, so a register
  access is an operator with the core as its argument, and an action of `PicoMulticore` is
  one access of one core. The accesses of the cores interleave freely: between two
  accesses a call executes a number of instructions that depends on the compiler. A
  program is a sequence of calls; `MCPrograms` has those that overflow, underflow, clear,
  exchange and divide. `drained`, `pushed`, `popped`, `cleared` and `results` are history
  variables. Words are numbers below `Modulus`, and the divider keeps that width.
- **C6WifiMac, C6Station.** Time is not a number: a deadline, an acknowledgement and an
  arrival are actions of the machine that may come at any point between two accesses of the
  firmware. A frame is its sender and kind. `air` is the sequence of frames on their way to
  the chip. `at` says where the firmware is, with one label for each access that
  the MAC could come between. `interference` collects what went wrong from outside (a loss,
  no descriptor, a refused grant, an oversized frame, a host command), `unread` counts
  frames written to memory and not copied, `reached` the milestones that the firmware
  prints. The access points (`remu-radio`'s virtual peers) answer as their code does.

## 3. Runs

The type invariants are proved for every instance. Those of `RadioMedium`, `C6Radio` and
`ArmRun` are part of their runs as well; the others are not repeated there.

| Run | Instance | What it shows |
|---|---|---|
| `scheduler` | 3 instants, 3 events | dispatch order, nothing lost or revived under lazy cancellation, refinement of `Timeline` |
| `coexistence` | 2 protocols (symmetric), 2 priorities, 3 instants, 3 grants | exclusive ownership, evidence equals `owner()`, preemption only by higher priority, closed evidence is final |
| `medium` | chip and peer, 2 protocols sharing a bin, 3 transmissions, 4 instants | outcomes and sensing from the pruned history equal those of the full history; truncated frames reach nobody |
| `c6_radio` | 3 protocols, airtimes 1 and 2, priorities on either side of the Bluetooth one, 5 instants, 3 grants | airtime equals tenure, ownership checks never fire, operations agree with the legality activity |
| `address_space` | 7 addresses, widths 1 and 2, 6 candidate regions of which 3 are mapped | disjoint sorted regions, invisible caches and fast paths, the two notes for the machine right, byte orders agree |
| `arm_run` | one run, 3 instructions or 3 ticks, one pin on both banks, shuffled stimuli, stops on two signals | signal stops, pads and stimuli current although refresh is skipped, breakpoints on both cores, every run that begins ends |
| `arm_resume` | two runs of one instruction, debugger and host in between | the trace is faithful, and what a run leaves behind is handled by the next one |
| `pico_multicore` | FIFOs of 3 words, words modulo 8, four pairs of programs | launch drains the ready word and the echoes only, exchange in order and without silent loss, FIFO depth, exact division under the lock, matched programs end |
| `c6_station` | one loss, one foreign frame, two UART commands | one completion per kick, no hard error, each frame copied once, only an oversized frame leaves the receiver deaf and otherwise it is armed again and again, the awaited answer never vanishes without a cause, an undisturbed exchange reaches CCMP |

Three runs show a disagreement between what the repository says and what its code does.
In each TLC finds the violation:

- `medium_zero_airtime`: "A zero-airtime truncation ... cannot interfere with or reach a
  receiver." (`medium.rs:295`). The overlap test of half-open intervals is true for an
  empty interval strictly inside another one, so a frame can collide with a transmission
  that was never on the air.
- `c6_rearm_race`: the validator is documented to speak only about states "that genuine
  firmware never configures" (`legality.rs:183`). Writing `RX_START` sets the receiving bit
  at once, while the activity begins in the command phase, after received frames were
  completed. Firmware that re-arms the receiver in the instruction during which the next
  frame ends is diagnosed.
- `arm_budget`: `RunLimits::instructions` is the "Maximum number of interpreted instructions
  or CPU actions." (`run.rs:7`). The loop looks at it once a pass, before core 0, and then
  steps core 1 as well (`machine_run.rs:311`), which counts in the same statistics. A run of
  one instruction that launches core 1 executes two. The bound that the code does keep,
  one instruction more and only with core 1 running, is the theorem `BudgetCorrect`.

Two more disagreements were met and have no run of their own. A second `cancel` of an
event whose cancelled entry was purged returns true (`event.rs:125` says false). And
`c6_mac_tx_frame` returns `C6_MAC_OK` for a unicast frame that nobody acknowledged: a deadline
completes the queue with the same two bits as an acknowledgement, only the status in its
completion register differs (`DeadlineOutcome`), and the driver does not read it. The contract
has "a TX response timeout" among the driver's results and says that "A missing event is
never converted into success" (`docs/custom-radio-driver-contract.md:118-119`, `:129`), and the
register contract that "no response becomes a bounded timeout" (`mmio-contract.json:248`).
In the model this is the state `at = "release" /\ mac.status = "ack_timeout"`, from which
`TxRelease` goes on as after a success. `OneCompletionPerKick` is about the completion and
leaves the result code open.

**Why the bounds are enough.** Scheduler: three events are a cancelled one behind or
before a live one plus one scheduled later; three instants give past, present and future
and an overflowing delay. Arbiter: three grants give one preempted, expired or cancelled,
its successor, and exhaustion. Medium: with three transmissions one can be resolved and
pruned while another that overlaps it is unresolved and a third is submitted. C6: the
third grant is the one that meets the leftovers of a preempted and a reset one. Bus:
three regions are a cached one and a neighbour inserted on either side of it. ArmRun:
three instructions launch core 1, step it and step core 0 again; one pin is enough
because pins do not interact, and it is on both banks so that both get changes from one
stimulus. Pico: a FIFO of three words still has room for the ready word and an echo, and is
overrun by four pushes; words modulo 8 include the one signed quotient that does not fit. In
the code the depth is 8 and nothing depends on it beyond "at least 2", the
assumption of the proofs. Station: one loss and one foreign frame are each enough to stop
or disturb the exchange, which has no retry; two commands are a stop or reset followed by
a start, or a start in the middle of a copy. Deadlock checking is off where a bound ends the
behaviour; in `arm_run` and `arm_resume` it is on, because a debugger may always change its
stops between runs.

**Fairness.** `ArmSpec` has weak fairness of the whole loop. The loop runs on
one thread that nothing suspends between two passes, so a run that has begun keeps
taking steps. `LoopFairness` writes `phase # "idle"` for `ENABLED Loop`, which TLC
evaluates much faster; that they are the same is what the deadlock check of `arm_run` shows,
since no other step is possible while a run is in progress. No fairness is assumed among the alternatives (which instruction, which
core, whether DMA happens): `RunEnds` holds because each way round the loop
costs an instruction and a tick. `PicoFairness` is weak fairness of each core and of the
taking of a launch: the machine steps both cores in turn and looks for a launch in every
pass. `StationFairness` is weak fairness of the firmware, of deadlines and of arrivals:
the firmware never sleeps, and simulated time passes with its instructions. Nothing is
assumed of host commands, losses or foreign frames.
All other specifications are safety only: firmware, peers and hosts owe nobody a step.

## 4. Proofs

Every invariant and every action property of a passing run is a theorem; the four liveness
properties are left to TLC. The theorems hold for every value of the constants. The
assumptions are the named `ASSUME`s of the modules, which give the constants their types and
keep model values such as `None` apart from data; where a theorem needs more, this section
says so.

**Scheduler** (`Scheduler_proofs`). Order, conservation and revocation are not inductive:
that the next event handed out comes after the last one needs to know that *everything
still queued*, cancelled entries included, comes after *everything handed out*
(`QueuedAfterHandedOut`); that a purge drops no live event needs `MarkedIffRevoked` and
unique, fresh identifiers. `SchedulerInv` collects these. One lemma per kind of step
(push, cancel, purge, take) feeds `SchedulerInvariance`; `SchedulerTypes`,
`SchedulerDispatchOrder` and `SchedulerEveryEventOnce` follow, and `SchedulerRefinement` shows
that each step is a step of `Timeline` or a stutter under the mapping *pending = unmarked
heap entries*.

**Arbiter** (`CoexistenceArbiter_proofs`). `ArbInv` adds to exclusivity that only the newest
interval can be open, and only while its grant is active with the same end
(`OpenIsActive`), and that the active grant is the newest (`ActiveIsNewest`); without them a
new grant could overlap an interval that nobody closed. `ArbiterTypes`,
`ArbiterExclusive`, `ArbiterPreemption`, `ArbiterEvidence` follow, and `ArbiterClosedIsFinal` is the action
property. The exhausted-identifier case is part of it: there `owner()` and the evidence part
ways, which is why `EvidenceMatchesOwner` is stated up to the last identifier.

**Address space** (`AddressSpace_proofs`). `BusInv` is the type invariant (each cache entry is
an index of the list), the sorted and disjoint list, and the two witnesses. In such a
list the regions that begin at or below an address are a prefix, and its length is what
`partition_point` returns; so the region that holds an address is unique, it is the one
looked up, and a cache entry that passes its test is the same one. The test is
what matters: any index of the list is a harmless cache entry, stale or not. `BusTypes`,
`BusRegionsDisjoint`, `BusCacheTransparent` and `BusNotes` are the results. `BusEncodings` is
about the bytes: the fast store encodes the whole word and cuts the bytes out, the ordinary
one masks the value first. They agree because the place values multiply
(`Weight[m + n] = Weight[m] * Weight[n]`), so the mask takes away a multiple of `Base` times
the place value of each byte that is written. This holds for every width, byte size and both
byte orders.

**Medium** (`RadioMedium_proofs`). The properties compare what the code computes from
`retained` with what the complete history says, so the invariant has to tell what pruning may
have dropped. `MediumInv` says that a resolved transmission is over by the machine's clock, and
by the medium's own unless it was cut (`ResolvedIsOver`), that what was pruned ended before each transmission that is still to be
resolved began (`PrunedIsHarmless`), and that receptions come from resolved
transmissions only, never from cut ones (`ReceivedIsResolved`). A poll drops a
resolved transmission only if it reaches past no unresolved start, and no transmission is
accepted that begins before the medium's clock. `OutcomesCorrect`, `TruncationCorrect`, `SensingCorrect` and
`MediumTypeCorrect` follow for every set of emissions, receivers and path losses and for
every schedule of polls.

**C6 radio** (`C6Radio_proofs`). `C6ImplementsArbiter` is a refinement without a mapping: every
step of the radio service is a step of `ArbSpec` or leaves the arbiter alone, so `ArbInv`
and the arbiter's theorems hold of it. `C6Inv` adds that the frame on the air ends when
its grant's tenure does, however the tenure ended (`FramesMatchTenure`), that an owner has its
frame on the air and in the mapping (`OwnerOnAir`), and that at most one operation is in
flight, the one the validator's activity names (`OneOperation`). It is kept as
four parts over nearly disjoint variables (`RfInv`, `RunInv`, `RegisterInv`, `OperationInv`), so
that each phase of the service is proved for the parts it touches. `C6Ownership`, `C6Airtime`,
`C6Operations` and `C6Types` are the properties of the run; `C6FramesDisjoint` concludes that
two frames of the chip never overlap in time.

**Run loop** (`ArmRun_proofs`). There are two layers. `ControlInv` says what each phase may rely
on: a completed launch waits until an inactive core 1 takes it, once
(`LaunchOnce`), the instruction count against the budget at each
point of a pass (`WithinBudget`, and `BudgetOverrun`, which says how far the overrun of `arm_budget` can
go), no breakpoint at the address core 0 is about to execute
(`Core0Cleared`). `BudgetCorrect`, `WatchpointCorrect`, `LaunchCorrect` and `BreakpointCorrect`
follow; the last two are action properties. `HubInv` is about the data: the queue of
the hub is in order of time and, added to what the trace has shown, tells each signal's value,
and pads that are not `dirty` are driven as their registers say. With `Settled` it gives
`PadsCorrect` and `TraceCorrect`. `StopInv` and `StimuliInv` are relative to it and give
`StopsCorrect` and `StimuliCorrect`; `ArmTypes` follows from all of them. The loops of the code
are folds over sequences of any length. `FoldPrefixes` unrolls such a fold into the list of
its intermediate states, and each loop invariant is then proved by induction over the
prefixes. `StableSort` is shown to give a permutation in order of time and, at equal
times, in the order given.

**Pico multicore** (`PicoMulticore_proofs`). That the launch is right depends on where core 0
is in it: `HandshakeInv` gives, for each position, the launch window, the content of both
FIFOs and what was drained so far, and says that core 1 is silent until the sixth word was
written. From there core 1 may push while core 0 still has two unpolled reads to make: they
get the last two words of the boot ROM because a FIFO is first in, first out. `TakeHasWord`
(a core that saw a valid FIFO still finds a word when it reads) and `Conserved` (what the
program pushed, if nothing overflowed, is what the other one drained, popped and has still
to come) carry `ExchangeFaithfulCorrect`. `DividerInv` ties the lock to the core inside the
guarded section, so that dividend, quotient and remainder are those of one core; with the
arithmetic lemma `DivisionExact` it gives `LockedDivisionCorrect`. `PicoTypesCorrect`,
`LaunchHandshakeCorrect` and `FifoDepthCorrect` are the other results. They hold for every
depth of at least two, every even modulus and all programs.

**Station** (`C6Station_proofs`). `StationInv` is the type invariant, `Shape` (which sends and
which return label belong to a position of the firmware), `OneCompletionPerKick`, and
`ReceiveInv`, which is `CopiedOnce` and `ReceiverAlive` strengthened by `RearmShape`: during the
three accesses of a re-arm the event, descriptor and base register are in one of the few
states that the driver itself left. `ReceiverAlive` has one exception, the oversized frame that
`mac.c:158` refuses to copy (`OversizedBlocks`): the theorem says that nothing else leaves a started
receiver deaf. `CompletionCorrect`, `CopyCorrect`,
`ReceiverAliveCorrect` and `StationTypesCorrect` follow for every number of losses, foreign
frames and commands. `NoHardErrorCorrect` needs `ErrorInv` as well: a protected frame is sent
only behind the installation of the key, and only a reset takes the key away (`KeyInOrder`). It
is stated under the assumption that no injected frame is a protected one. `AnswerCorrect` is
about the exchange as a whole. `ExchangeInv` says what holds as long as nothing from outside
interfered: a call in progress sends something that the access point answers (`ExchangeShape`);
otherwise the frame needed next is on the air, in the descriptor or in the firmware's
hands (`AnswerComing`); and M1 follows the association response, which the firmware must have
copied and released before M1 can be taken (`FirstMessageComing`). The last one is why the
property is not inductive: two frames come in answer to one, and there is one descriptor.

**Induction.** The library's induction rules take an operator as a parameter, which no
installed prover can instantiate. The proofs use the well-foundedness of the naturals
instead (`LeastNatural`), in the form of `SetInduction` and `PrefixInduction`: a set that holds
0 and is closed under successor holds every number, or every number up to a length. That is enough for the folds of `ArmRun`, the recursive function
`Weight` and the extrema of finite sets in `RadioMedium`.

**Only model-checked.** `RunEnds`, `ExchangeCompletes`, `ExchangeReachesCcmp` and
`ReceiverRearms`: liveness under fairness is out of the prover's reach. The three runs that expect a violation are
counterexamples and have no theorem.

## 5. Not modelled

- *Instruction semantics* of the seven CPU cores: wide arithmetic over one instruction,
  compared with hardware and compilers by the corpus of the repository.
- *Byte-level formats*: frames, CRC, whitening, containers, packets, VCD text, hashing.
- *In `ArmRun`*: interrupt lines, timers and the USB host decide nothing in the loop
  beyond a choice that is there; more than one DMA transfer in a pass; `TimeOverflow`; errors
  of the PIO poll and of a refresh, which end the run and change nothing else; the
  `Halted` outcome of a step, which the Arm CPU never returns.
- *In `RadioMedium`*: changing path losses during a run, which nothing does.
- *In `C6Radio`*: DMA, crypto and interrupt checks of the validator; its Wi-Fi and
  Bluetooth domains; a host that injects a frame and tunes the receiver for it
  (`radio.rs:399`) and the test-transmit command. A refusal because the radio is not ready is
  one like a refusal because of an overlap (`Seize`), and the acknowledgement timeout
  (`radio.rs:613`) is left out, since nothing makes it fire.
- *In `RpSio` and `PicoMulticore`*: direct writes of QUOTIENT and REMAINDER, the dirty bit of
  the divider, a reset of the device.
- *In `C6WifiMac` and `C6Station`*: RTS/CTS, aggregates, block acknowledgements, encryption and
  integrity codes (a protected frame needs the key, no more); the probe's linear self test,
  whose transmissions are the TX command. `C6_MAC_TIMEOUT` has no action:
  by `OneCompletionPerKick` no poll ends without a completion. With time left out, an
  acknowledgement completes a pending transmission whenever it ends before the deadline,
  also earlier than `accepts_response` would take it; a foreign frame ends after those
  already on their way; and a retune loses all of them or none.
- *Most of the C in the repository*: the thousand files under `corpus/edge_cases` are generated
  test data, each a straight-line computation with its expected result, and the other
  qualification probes and smoke tests write registers and compare them once. They have no
  state machine of their own; what they exercise is instruction semantics and registers.
- *Everything in `PROJECT.json` with status not_modelled*, with its reason.

Two hazards are listed without a property: a domain reset that leaves the 802.15.4 MAC
waiting for an acknowledgement, and a sink that fails in the middle of a drain. The repository
does not say what should happen there, nor with the oversized frame that leaves the receiver
of the probe deaf until RX START (`mac.c:158`), which is the stated exception of `ReceiverAlive`.
The same holds for some smaller things that the models
show: core 1 loses its turn when a run stops on core 0, and turns while core 0 makes boot ROM
calls (`docs/adr/0001-determinism.md:9` promises round-robin quanta without saying how long one
is); a pin may show a conflict between a write to the SIO latch and the next refresh; and a
stopped receiver of the probe is started again by the copy of a waiting frame (`mac.c:165`).

## 6. Plan

The SIO block with the launch protocol and the native Wi-Fi MAC with its firmware are done.
Next modules, in order of importance:

1. `DmaController`: chaining, pacing by requests, error and abort in the middle of a
   transfer, with the abstract specification "each requested beat happens once".
2. `PioFifo`: joining, stalls, autopush and autopull, interrupt flags.
3. `Legality`: the Wi-Fi and Bluetooth domains, and the ESP32-S3 radio service over
   `CoexistenceArbiter` and `RadioMedium`; then `C6Radio` composed with `RadioMedium` in
   place of its own list of frames.
4. `RiscVRun` and the dual-core ESP32-S3 loop over the run control of `ArmRun`, which then
   becomes a module of its own.
5. Flash unlock and busy windows, watchdogs, UART and TWAI FIFO limits, the link-layer
   sequence numbers of 802.15.4 and BLE, replay log.

Next theorems: the step `C6Radio` over `RadioMedium`, once composed; the safety part of
`RunEnds` (each way round the loop decreases the remaining budget or time), which leaves only
the fairness argument to TLC; for each new module its abstract specification and refinement.
