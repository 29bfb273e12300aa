-------------------------------- MODULE ArmRun --------------------------------
(***************************************************************************)
(* The run loop of the two-core RP2040/RP2350 machine                       *)
(* (crates/remu-machines/src/arm/machine_run.rs) with the shared run        *)
(* controller (run_control.rs), the signal hub, the pad multiplexer         *)
(* (rp_pio_runtime.rs) and a debugger that works between two runs.          *)
(*                                                                          *)
(* One pass of the loop is at most four actions: Top (stimuli and limits),  *)
(* Service (DMA, watchdog, breakpoint, PIO), Core0 and Core1.  Each action  *)
(* ends with the next phase or stops the run, in the order of the breaks in *)
(* the code.  What firmware does in one instruction is a free choice of a   *)
(* bus access; interrupt lines, timers and the USB host decide nothing here *)
(* beyond what they may do to the run and are left out or are choices.      *)
(***************************************************************************)
EXTENDS Signals, SequencesExt

CONSTANTS
    None,
    BoardPins, ChipPins,    \* pins of the board's and of the chip's GPIO bank
    PC, RomPC,              \* program addresses, and those served as boot ROM calls
    SioValue, PioValue, PullValue,  \* what firmware may drive on a pin
    Limits,                 \* the run limits offered
    StimulusLists,          \* the stimulus lists offered
    DebugSetups,            \* breakpoints, watched accesses and signal stops offered
    MaxRuns,                \* bound on the number of runs
    HostValue,              \* what the host may drive on a pin between two runs
    HostAccesses            \* bound on accesses of debugger and host between two runs

ASSUME RomAssumption == RomPC \subseteq PC
ASSUME PinsAssumption == ChipPins \in Nat /\ BoardPins \in Nat /\ ChipPins <= BoardPins
ASSUME LimitsAssumption ==
    /\ \A l \in Limits : l.instructions \in Nat \cup {None} /\ l.deadline \in Nat \cup {None}
    /\ None \notin {"InstructionLimit", "TimeLimit"}
ASSUME ValuesAssumption == SioValue \cup PioValue \cup PullValue \cup HostValue \subseteq Logic
ASSUME StimuliAssumption == StimulusLists \subseteq Seq([at : Nat, pin : Nat, value : Logic])

VARIABLES
    phase,      \* "idle", or the part of the loop to run next
    reason,     \* how the last run ended
    now,        \* ArmMachine.now
    control,    \* RunControl: limits, sorted stimuli, next_stimulus
    stats,      \* RunStats: instructions and events
    board,      \* nets and signal hub
    pads,       \* per chip pin, the registers that the pad multiplexer reads
    pio_on,     \* some PIO state machine is enabled
    dirty,      \* pio_runtime_dirty
    sio,        \* RpSioMulticoreState: selected core and core-1 launch
    cpu,        \* program counters and cpu1_active
    exit,       \* the exit device holds a code
    debug,      \* breakpoints, watched accesses, signal stops
    hit,        \* AddressSpace.watchpoint_hit: who made the access
    trace,      \* what the digest and the trace sink have been told
    matched,    \* history: the first recorded change that triggers a stop
    given,      \* history: the stimulus list of this run, as it was given
    runs, accesses  \* bounded counters

hub_vars == <<board, pads, pio_on>>
run_vars == <<phase, reason, now, control, stats, dirty, trace, matched, given, runs, accesses>>
cpu_vars == <<sio, cpu, exit, hit>>
arm_vars == <<run_vars, hub_vars, cpu_vars, debug>>

BoardSignal(pin) == <<"board", pin>>
ChipSignal(pin) == <<"chip", pin>>
BoardPin == 0..(BoardPins - 1)
ChipPin == 0..(ChipPins - 1)
Signal == {BoardSignal(p) : p \in BoardPin} \cup {ChipSignal(p) : p \in ChipPin}

ASSUME StopsAssumption ==
    /\ None \notin Signal
    /\ \A setup \in DebugSetups :
          setup.stops \in Seq([signal : Signal, edge : {"change", "rising", "falling"}])

(***************************************************************************)
(* The run controller.                                                      *)
(***************************************************************************)

\* Mutant: equal timestamps are reversed.
UnstableSort(stimuli) ==
    LET insert(sorted, s) ==
            InsertAt(sorted, Max({0} \cup {i \in DOMAIN sorted : sorted[i].at < s.at}) + 1, s)
    IN FoldLeft(insert, << >>, stimuli)

\* RunControl::new: a stable sort by timestamp.
StableSort(stimuli) ==
    LET insert(sorted, s) ==
            InsertAt(sorted, Max({0} \cup {i \in DOMAIN sorted : sorted[i].at <= s.at}) + 1, s)
    IN FoldLeft(insert, << >>, stimuli)

\* ArmMachine::set_pin on a pin of the board: both banks see the external driver.
SetPin(b, stimulus, at) ==
    LET onBoard == Drive(b, BoardSignal(stimulus.pin), "external", stimulus.value, at)
    IN IF stimulus.pin \in ChipPin
       THEN Drive(onBoard, ChipSignal(stimulus.pin), "external", stimulus.value, at)
       ELSE onBoard

\* RunControl::apply_stimuli: from next_stimulus on, up to the first stimulus that
\* is not due, everything is applied in order, up to a pin that the board refuses.
Due(stimulus, at) == stimulus.at <= at

DueFrom(first) ==
    LET late == {i \in first..Len(control.stimuli) : ~Due(control.stimuli[i], now)}
    IN SubSeq(control.stimuli, first, Min(late \cup {Len(control.stimuli) + 1}) - 1)

\* Mutant: next_stimulus is not consulted.
DueAgain == DueFrom(1)

DueStimuli == DueFrom(control.next)

Bad(stimuli) == {i \in DOMAIN stimuli : stimuli[i].pin \notin BoardPin}

Refused(stimuli) == Bad(stimuli) # {}

Accepted(stimuli) == SubSeq(stimuli, 1, Min(Bad(stimuli) \cup {Len(stimuli) + 1}) - 1)

Apply(b, stimuli, at) == FoldLeft(LAMBDA c, s : SetPin(c, s, at), b, stimuli)

\* RunLimits::reached: instructions first, and an inclusive deadline.
LimitReason(limits, instructions, at) ==
    CASE limits.instructions # None /\ instructions >= limits.instructions
            -> "InstructionLimit"
      [] ~(limits.instructions # None /\ instructions >= limits.instructions)
         /\ limits.deadline # None /\ at >= limits.deadline
            -> "TimeLimit"
      [] OTHER -> None

\* matching_signal_stop: the first stop of the list that the change triggers.
MatchingStop(change) ==
    LET fired == {i \in DOMAIN debug.stops : Triggers(debug.stops[i], change)}
    IN IF fired = {} THEN None ELSE debug.stops[Min(fired)].signal

\* Mutant: a later match replaces an earlier one.
LastMatch(changes) ==
    FoldLeft(LAMBDA found, c : IF MatchingStop(c) # None THEN MatchingStop(c) ELSE found,
             None, changes)

\* RunControl::record_signals, the stop it returns: the first match wins.
FirstMatch(changes) ==
    FoldLeft(LAMBDA found, c : IF found = None THEN MatchingStop(c) ELSE found,
             None, changes)

\* RunControl::record_signals, what it streams to the digest and the sink: their
\* reader knows the values after the changes, and the time of the last of them.
Replay(shown, changes) ==
    FoldLeft(LAMBDA v, c : [v EXCEPT ![c.signal] = c.value], shown, changes)

Streamed(t, changes) ==
    [shown |-> Replay(t.shown, changes),
     time |-> IF changes = << >> THEN t.time ELSE Last(changes).at]

(***************************************************************************)
(* The pads.  refresh_pio_dma_requests pushes every pull, then for each pin *)
(* the SIO latch and the PIO output, of which the multiplexer selects one.  *)
(***************************************************************************)
PinOrder == [i \in 1..ChipPins |-> i - 1]

SioDrive(pad) == IF pad.mux = "pio" THEN "Z" ELSE pad.sio
PioDrive(pad) == IF pad.mux = "pio" THEN pad.pio ELSE "Z"

DriveEach(b, driver, value, at) ==
    FoldLeft(LAMBDA c, p : Drive(c, ChipSignal(p), driver, value[p], at), b, PinOrder)

SelectEach(b, regs, at) ==
    LET source(c, p) == Drive(Drive(c, ChipSignal(p), "sio", SioDrive(regs[p]), at),
                              ChipSignal(p), "pio", PioDrive(regs[p]), at)
    IN FoldLeft(source, b, PinOrder)

Refresh(b, regs, at) ==
    SelectEach(DriveEach(b, "pull", [p \in ChipPin |-> regs[p].pull], at), regs, at)

\* refresh_gpio, after a write to the SIO latch: the multiplexer is not consulted.
RefreshSio(b, regs, at) == DriveEach(b, "sio", [p \in ChipPin |-> regs[p].sio], at)

(***************************************************************************)
(* What one instruction or one DMA transfer does to the machine.            *)
(***************************************************************************)
Access ==
    [kind : {"none", "data", "exit"}]
    \cup [kind : {"sio"}, pin : ChipPin, value : SioValue]
    \cup [kind : {"mux"}, pin : ChipPin, value : {"sio", "pio"}]
    \cup [kind : {"pull"}, pin : ChipPin, value : PullValue]
    \cup [kind : {"pio"}, value : BOOLEAN]
    \cup [kind : {"launch"}, entry : PC \cup {None}]

\* pio_runtime_access: SIO, PIO, the IO bank and the pads.
RuntimeAccess(a) == a.kind \in {"sio", "mux", "pull", "pio", "launch"}

PadsAfter(a) ==
    CASE a.kind = "sio" -> [pads EXCEPT ![a.pin].sio = a.value]
      [] a.kind = "mux" -> [pads EXCEPT ![a.pin].mux = a.value]
      [] a.kind = "pull" -> [pads EXCEPT ![a.pin].pull = a.value]
      [] OTHER -> pads

BoardAfter(a) == IF a.kind = "sio" THEN RefreshSio(board, PadsAfter(a), now) ELSE board

PioAfter(a) == IF a.kind = "pio" THEN a.value ELSE pio_on

\* The sixth word of the launch handshake, which only core 0 can complete.
SioAfter(a, selected) ==
    IF a.kind = "launch" /\ selected = 0 /\ ~sio.launched
    THEN [selected |-> selected, pending |-> a, launched |-> TRUE]
    ELSE [sio EXCEPT !.selected = selected]

\* record_watchpoint_hit: the first watched access since the hit was cleared.
HitAfter(a, pending, who) ==
    IF a.kind \in debug.watched /\ pending = None THEN who ELSE pending

(***************************************************************************)
(* Starting and stopping a run.                                             *)
(***************************************************************************)
Pad == [mux |-> "sio", sio |-> "Z", pio |-> "Z", pull |-> "Z"]

ArmInit ==
    /\ phase = "idle" /\ reason = [kind |-> "None"]
    /\ now = 0
    /\ control = [limits |-> [instructions |-> None, deadline |-> None],
                  stimuli |-> << >>, next |-> 1]
    /\ stats = [instructions |-> 0, events |-> 0]
    /\ board = Released(Signal)
    /\ pads = [p \in ChipPin |-> Pad]
    /\ pio_on = FALSE /\ dirty = FALSE /\ exit = FALSE
    /\ sio = [selected |-> 0, pending |-> None, launched |-> FALSE]
    /\ \E pc \in PC : cpu = [pc |-> [c \in 0..1 |-> pc], active |-> FALSE]
    /\ debug = [breakpoints |-> {}, watched |-> {}, stops |-> << >>]
    /\ hit = None
    /\ trace = [shown |-> board.values, time |-> 0]
    /\ matched = None /\ given = << >>
    /\ runs = 0 /\ accesses = 0

Stop(r) == phase' = "idle" /\ reason' = r
Continue(next) == phase' = next /\ UNCHANGED reason

\* run_with_stimuli up to the loop: an unbounded run is refused.
Begin(limits, stimuli) ==
    /\ phase = "idle" /\ runs < MaxRuns
    /\ runs' = runs + 1 /\ accesses' = 0
    /\ IF limits.instructions = None /\ limits.deadline = None
       THEN /\ Stop([kind |-> "Error"])
            /\ UNCHANGED <<control, stats, dirty, trace, matched, given>>
       ELSE /\ phase' = "top" /\ reason' = [kind |-> "None"]
            /\ control' = [limits |-> limits, stimuli |-> StableSort(stimuli), next |-> 1]
            /\ stats' = [instructions |-> 0, events |-> 0]
            /\ trace' = [shown |-> board.values, time |-> 0]
            /\ dirty' = TRUE /\ matched' = None /\ given' = stimuli
    /\ UNCHANGED <<now, hub_vars, cpu_vars, debug>>

\* Between two runs a debugger sets its stops and reads or writes memory (a byte
\* at a time, which the devices that matter here refuse), and the host moves pins.
SetDebug(setup) ==
    /\ phase = "idle" /\ setup # debug
    /\ debug' = setup
    /\ UNCHANGED <<run_vars, hub_vars, cpu_vars>>

HostAccess ==
    /\ phase = "idle" /\ accesses < HostAccesses
    /\ accesses' = accesses + 1
    /\ UNCHANGED <<phase, reason, now, control, stats, dirty, trace, matched, given, runs,
                   pads, pio_on, sio, cpu, exit, debug>>

DebugMemory ==
    /\ HostAccess
    /\ hit' = HitAfter([kind |-> "data"], hit, "debugger")
    /\ UNCHANGED board

HostPin(pin, value) ==
    /\ HostAccess
    /\ board' = SetPin(board, [pin |-> pin, value |-> value], now)
    /\ UNCHANGED hit

(***************************************************************************)
(* The loop.                                                                *)
(***************************************************************************)
\* Mutant: selecting a core forgets a completed launch.
SelectCoreForgets(core) == [sio EXCEPT !.selected = core, !.pending = None]

SelectCore(core) == [sio EXCEPT !.selected = core]

\* Core 0 is selected, due stimuli are applied, and the exit code and the limits
\* are looked at; the pads are refreshed when something may have moved them.
Top ==
    /\ phase = "top"
    /\ sio' = SelectCore(0)
    /\ LET due == DueStimuli
           accepted == Accepted(due)
           applied == Apply(board, accepted, now)
           touched == dirty \/ due # << >>
           limit == LimitReason(control.limits, stats.instructions, now)
           refresh == touched \/ pio_on
           goes_on == ~Refused(due) /\ ~exit /\ limit = None
       IN /\ control' = [control EXCEPT !.next = @ + Len(accepted)]
          /\ stats' = [stats EXCEPT !.events = @ + Len(accepted)]
          /\ board' = IF goes_on /\ refresh THEN Refresh(applied, pads, now) ELSE applied
          /\ dirty' = (touched /\ ~(goes_on /\ refresh))
          /\ \/ Refused(due) /\ Stop([kind |-> "Error"])
             \/ ~Refused(due) /\ exit /\ Stop([kind |-> "Halted"])
             \/ /\ ~Refused(due) /\ ~exit /\ limit # None
                /\ Stop([kind |-> limit])
             \/ goes_on /\ Continue("service")
    /\ UNCHANGED <<now, pads, pio_on, cpu, exit, hit, debug, trace, matched, given, runs, accesses>>

\* A DMA transfer (at most one in a pass here) is a bus access like any other, and
\* makes the pads stale.  A failing one ends the run with an error.
Dma(a) ==
    /\ phase = "service" /\ a.kind # "none"
    /\ \/ /\ Continue("serviced")
          /\ board' = BoardAfter(a) /\ pads' = PadsAfter(a) /\ pio_on' = PioAfter(a)
          /\ sio' = SioAfter(a, sio.selected)
          /\ hit' = HitAfter(a, hit, "dma")
          /\ exit' = (exit \/ a.kind = "exit")
          /\ stats' = [stats EXCEPT !.events = @ + 1]
          /\ dirty' = TRUE
       \/ /\ Stop([kind |-> "Error"])
          /\ UNCHANGED <<hub_vars, sio, hit, exit, stats, dirty>>
    /\ UNCHANGED <<now, control, cpu, debug, trace, matched, given, runs, accesses>>

\* Mutant: core 1 has no breakpoints.
OnlyCore0Breaks(core) == core = 0 /\ cpu.pc[core] \in debug.breakpoints

AtBreakpoint(core) == cpu.pc[core] \in debug.breakpoints

\* Mutant: a hit of DMA or of the debugger survives to the next instruction.
KeepHit == UNCHANGED hit

ClearHit == hit' = None

\* The rest of the service, after DMA or without it.  `out` is what the PIO
\* programs leave on their outputs.
Service(out) ==
    /\ phase \in {"service", "serviced"}
    /\ \/ /\ Stop([kind |-> "Fault"])           \* the watchdog
          /\ UNCHANGED <<hub_vars, hit, dirty>>
       \/ /\ AtBreakpoint(0)
          /\ Stop([kind |-> "Breakpoint"])
          /\ UNCHANGED <<hub_vars, hit, dirty>>
       \/ /\ ~AtBreakpoint(0)
          /\ pads' = IF pio_on THEN [p \in ChipPin |-> [pads[p] EXCEPT !.pio = out]] ELSE pads
          /\ board' = IF dirty \/ pio_on THEN Refresh(board, pads', now) ELSE board
          /\ dirty' = FALSE
          /\ \/ Continue("core0") /\ ClearHit
             \/ Stop([kind |-> "HostInputComplete"]) /\ UNCHANGED hit
          /\ UNCHANGED pio_on
    /\ UNCHANGED <<now, control, stats, sio, cpu, exit, debug, trace, matched, given, runs, accesses>>

\* Mutant: a boot ROM call costs neither an instruction nor time.
AdvanceFree(core, pc) ==
    /\ stats' = IF cpu.pc[core] \in RomPC
                THEN stats ELSE [stats EXCEPT !.instructions = @ + 1]
    /\ now' = IF cpu.pc[core] \in RomPC THEN now ELSE now + 1
    /\ cpu' = [cpu EXCEPT !.pc[core] = pc]

Advance(core, pc) ==
    /\ stats' = [stats EXCEPT !.instructions = @ + 1]
    /\ now' = now + 1
    /\ cpu' = [cpu EXCEPT !.pc[core] = pc]

\* Mutant: no access makes the pads stale.
DevicesClean(a) ==
    /\ pads' = PadsAfter(a) /\ pio_on' = PioAfter(a)
    /\ exit' = (exit \/ a.kind = "exit")
    /\ UNCHANGED dirty

\* What an access does to the devices, the hub aside.
Devices(a) ==
    /\ pads' = PadsAfter(a) /\ pio_on' = PioAfter(a)
    /\ exit' = (exit \/ a.kind = "exit")
    /\ dirty' = (dirty \/ RuntimeAccess(a))

Matching(changes) == {i \in DOMAIN changes : MatchingStop(changes[i]) # None}

\* Mutant: streaming ends with the change that triggers a stop.
RecordUntilStop(b) ==
    LET hits == Matching(b.changes)
        last == Min(hits \cup {Len(b.changes)})
    IN /\ board' = [b EXCEPT !.changes = << >>]
       /\ trace' = Streamed(trace, SubSeq(b.changes, 1, last))
       /\ matched' = IF hits = {} THEN matched ELSE MatchingStop(b.changes[last])

\* record_signals: the hub is drained whatever happens to its changes.
Record(b) ==
    /\ board' = [b EXCEPT !.changes = << >>]
    /\ trace' = Streamed(trace, b.changes)
    /\ matched' = LET hits == Matching(b.changes)
                  IN IF matched = None /\ hits # {} THEN MatchingStop(b.changes[Min(hits)])
                     ELSE matched

\* How a pass ends after record_signals: a failing sink, a signal stop, or `next`.
Recorded(b, next) ==
    \/ b.changes # << >> /\ Stop([kind |-> "Error"])
    \/ FirstMatch(b.changes) # None /\ Stop([kind |-> "Signal", path |-> FirstMatch(b.changes)])
    \/ FirstMatch(b.changes) = None /\ next

CoreName == [c \in 0..1 |-> IF c = 0 THEN "core0" ELSE "core1"]

Outcome == {"Advanced", "Breakpoint", "Fault"}

\* A step that faults leaves the pass at once; what it had done stays done.
Faults(a, core) ==
    /\ Stop([kind |-> "Fault"])
    /\ board' = BoardAfter(a)
    /\ sio' = [SioAfter(a, core) EXCEPT !.selected = 0]
    /\ hit' = HitAfter(a, None, CoreName[core])
    /\ UNCHANGED <<now, stats, cpu, trace, matched>>

\* Core 0 in the boot ROM: the call is one instruction, and the pass starts over.
RomCall(a, pc) ==
    /\ Advance(0, pc) /\ Devices(a)
    /\ board' = BoardAfter(a)
    /\ sio' = SioAfter(a, 0)
    /\ LET watch == HitAfter(a, hit, "core0")
       IN \/ watch # None /\ Stop([kind |-> "Watchpoint", by |-> watch])
          \/ watch = None /\ Continue("top")
    /\ hit' = None
    /\ UNCHANGED <<trace, matched>>

\* Core 0 executes an instruction.  A signal stop wins over a watchpoint, and a
\* watchpoint over a breakpoint instruction.
Instruction(a, pc, outcome) ==
    /\ Advance(0, pc) /\ Devices(a) /\ Record(BoardAfter(a))
    /\ sio' = SioAfter(a, 0)
    /\ LET watch == HitAfter(a, hit, "core0")
           after == IF sio'.pending # None \/ cpu.active THEN "core1" ELSE "top"
       IN /\ Recorded(BoardAfter(a),
               \/ /\ watch # None
                  /\ Stop([kind |-> "Watchpoint", by |-> watch])
               \/ /\ watch = None /\ outcome = "Breakpoint"
                  /\ Stop([kind |-> "Breakpoint"])
               \/ /\ watch = None /\ outcome = "Advanced"
                  /\ Continue(after))
          /\ hit' = IF reason'.kind \in {"Signal", "Error"} THEN watch ELSE None

Core0(a, pc, outcome) ==
    /\ phase = "core0"
    /\ \/ /\ cpu.pc[0] \in RomPC /\ outcome = "Fault" /\ a.kind = "none"
          /\ Faults(a, 0) /\ Devices(a)
       \/ cpu.pc[0] \in RomPC /\ outcome = "Advanced" /\ RomCall(a, pc)
       \/ cpu.pc[0] \notin RomPC /\ outcome = "Fault" /\ Faults(a, 0) /\ Devices(a)
       \/ cpu.pc[0] \notin RomPC /\ outcome # "Fault" /\ Instruction(a, pc, outcome)
    /\ UNCHANGED <<control, debug, given, runs, accesses>>

\* The launch that core 0 completed is taken; an entry without the Thumb bit faults.
Launch ==
    /\ phase = "core1" /\ sio.pending # None
    /\ sio' = [sio EXCEPT !.pending = None]
    /\ \/ /\ sio.pending.entry = None
          /\ Stop([kind |-> "Fault"])
          /\ UNCHANGED <<cpu, stats>>
       \/ /\ sio.pending.entry # None
          /\ cpu' = [pc |-> [cpu.pc EXCEPT ![1] = sio.pending.entry], active |-> TRUE]
          /\ stats' = [stats EXCEPT !.events = @ + 1]
          /\ Continue("core1")
    /\ UNCHANGED <<now, control, hub_vars, dirty, exit, debug, hit, trace, matched, given,
                   runs, accesses>>

Core1Breakpoint ==
    /\ phase = "core1" /\ sio.pending = None
    /\ AtBreakpoint(1)
    /\ Stop([kind |-> "Breakpoint"])
    /\ sio' = SelectCore(0)
    /\ UNCHANGED <<now, control, stats, hub_vars, dirty, cpu, exit, debug, hit, trace, matched,
                   given, runs, accesses>>

\* Core 1 stops before its changes are recorded: they stay in the hub.
Core1Stop(a, r) ==
    /\ Stop(r)
    /\ board' = BoardAfter(a)
    /\ sio' = [SioAfter(a, 1) EXCEPT !.selected = 0]
    /\ UNCHANGED <<trace, matched>>

\* Core 1 executes an instruction or a ROM call: here the watchpoint is looked at
\* before the signals.
Core1(a, pc, outcome) ==
    /\ phase = "core1" /\ sio.pending = None
    /\ ~AtBreakpoint(1)
    /\ cpu.pc[1] \in RomPC => /\ outcome # "Breakpoint"
                              /\ outcome = "Fault" => a.kind = "none"
    /\ Devices(a)
    /\ LET watch == HitAfter(a, None, "core1")
       IN \/ outcome = "Fault" /\ Faults(a, 1)
          \/ /\ outcome # "Fault"
             /\ Advance(1, pc)
             /\ hit' = None
             /\ \/ watch # None /\ Core1Stop(a, [kind |-> "Watchpoint", by |-> watch])
                \/ /\ watch = None /\ outcome = "Breakpoint"
                   /\ Core1Stop(a, [kind |-> "Breakpoint"])
                \/ /\ watch = None /\ outcome = "Advanced"
                   /\ Record(BoardAfter(a))
                   /\ sio' = [SioAfter(a, 1) EXCEPT !.selected = 0]
                   /\ Recorded(BoardAfter(a), Continue("top"))
    /\ UNCHANGED <<control, debug, given, runs, accesses>>

Loop ==
    \/ Top
    \/ \E a \in Access : Dma(a)
    \/ \E out \in PioValue : Service(out)
    \/ \E a \in Access, pc \in PC, outcome \in Outcome :
          Core0(a, pc, outcome) \/ Core1(a, pc, outcome)
    \/ Launch
    \/ Core1Breakpoint

Debugger ==
    \/ \E limits \in Limits, stimuli \in StimulusLists : Begin(limits, stimuli)
    \/ \E setup \in DebugSetups : SetDebug(setup)
    \/ DebugMemory
    \/ \E pin \in BoardPin, value \in HostValue : HostPin(pin, value)

ArmNext == Loop \/ Debugger

\* The machine runs on one thread that nothing suspends: a run that has begun
\* keeps taking steps.  This is weak fairness of Loop, with "phase # idle" written
\* for its ENABLED: the two are the same, because every phase of a pass can be
\* taken (the runs check for deadlock, and in a pass there is no other step).
LoopFairness == []<>(phase = "idle") \/ []<><<Loop>>_arm_vars

ArmSpec == ArmInit /\ [][ArmNext]_arm_vars /\ LoopFairness

(***************************************************************************)
(* Properties.                                                              *)
(***************************************************************************)

\* The type of every variable of the run loop.
ArmTypeOK ==
    /\ phase \in {"idle", "top", "service", "serviced", "core0", "core1"}
    /\ reason.kind \in {"None", "Error", "Halted", "InstructionLimit", "TimeLimit", "Fault",
                        "Breakpoint", "Watchpoint", "Signal", "HostInputComplete"}
    /\ now \in Nat /\ control.limits \in Limits \cup {[instructions |-> None, deadline |-> None]}
    /\ control.next \in 1..(Len(control.stimuli) + 1)
    /\ stats \in [instructions : Nat, events : Nat]
    /\ board.net \in [Signal -> [Driver -> Logic]] /\ board.values \in [Signal -> Logic]
    /\ \A i \in DOMAIN board.changes :
          board.changes[i] \in [at : Nat, signal : Signal, previous : Logic, value : Logic]
    /\ pads \in [ChipPin -> [mux : {"sio", "pio"}, sio : Logic, pio : Logic, pull : Logic]]
    /\ {pio_on, dirty, exit, sio.launched, cpu.active} \subseteq BOOLEAN
    /\ sio.selected \in 0..1 /\ cpu.pc \in [0..1 -> PC]
    /\ hit \in {None, "core0", "core1", "dma", "debugger"}
    /\ matched \in Signal \cup {None}

\* Whoever reads the trace or the digest of a run (the values it begins with and
\* the changes streamed since), and adds the changes still in the hub, knows the
\* value of every signal; and the timestamps never run backwards, so the VCD
\* writer never refuses a change.  Stimuli, DMA, PIO, both cores and the host
\* between runs all write to the hub, and several breaks of the loop leave
\* changes in it for the next run.
TraceFaithful ==
    reason.kind # "Error" =>
        /\ Replay(trace.shown, board.changes) = board.values
        /\ LET stamps == <<trace.time>> \o [i \in DOMAIN board.changes |-> board.changes[i].at]
                         \o <<now>>
           IN \A i \in 1..(Len(stamps) - 1) : stamps[i] <= stamps[i + 1]

\* A run stops for a signal exactly when a change it recorded triggers one of the
\* installed stops, it reports the first such change in recorded order, and no
\* run goes on past one: docs/SUPPORT.md says that signal stops preserve the
\* triggering change in the digest.
SignalStopExact ==
    /\ phase # "idle" => matched = None
    /\ phase = "idle" /\ reason.kind = "Signal" => matched = reason.path
    /\ phase = "idle" /\ reason.kind \notin {"Signal", "Error"} => matched = None

\* When core 0 executes, every pad is driven by what the multiplexer selects from
\* the registers as they are now, whoever wrote them last (either core, DMA, the
\* PIO programs), although the refresh is skipped
\* whenever pio_runtime_dirty says that nothing moved.
PadsCurrent ==
    phase = "core0" =>
        \A p \in ChipPin :
            LET net == board.net[ChipSignal(p)]
            IN /\ net["pull"] = pads[p].pull
               /\ net["sio"] = SioDrive(pads[p])
               /\ net["pio"] = PioDrive(pads[p])

\* When core 0 executes, the external driver of each pin holds the value of the
\* latest stimulus that is due: the one with the greatest timestamp and, among
\* equal timestamps, the last in the order in which they were given.
StimuliCurrent ==
    phase = "core0" =>
        \A p \in BoardPin :
            LET due == {i \in DOMAIN given : given[i].pin = p /\ given[i].at <= now}
                Later(i, j) == \/ given[i].at > given[j].at
                               \/ given[i].at = given[j].at /\ i > j
            IN \A i \in due : (\A j \in due \ {i} : Later(i, j)) =>
                  board.net[BoardSignal(p)]["external"] = given[i].value

\* A launch that core 0 has completed survives every stop of the run that comes
\* before core 1 is started (a signal, a watchpoint, a breakpoint, a fault, a sink
\* failure) and starts core 1 in the next run: it is taken by a launch or by the
\* fault of a launch, and it is never completed a second time.
LaunchSurvivesStops ==
    [][/\ sio.pending # None /\ sio'.pending = None =>
              (cpu'.active /\ ~cpu.active) \/ reason'.kind = "Fault"
       /\ sio.launched => sio'.launched /\ sio'.pending \in {sio.pending, None}]_arm_vars

\* A watchpoint stop reports an access of the core that executed last: never one
\* of DMA or of the debugger, which use the same bus (docs/SUPPORT.md: "A
\* watchpoint stops after a completed CPU data read/write").
WatchpointFromCpu == reason.kind = "Watchpoint" => reason.by \in {"core0", "core1"}

\* docs/SUPPORT.md: "A breakpoint stops before executing the named address", on
\* either core, also for the address at which core 1 is launched.
BreakpointBeforeExecution ==
    [][\A c \in 0..1 : stats'.instructions > stats.instructions
          /\ (IF c = 0 THEN phase = "core0" ELSE phase = "core1")
            => cpu.pc[c] \notin debug.breakpoints]_arm_vars

\* run.rs, RunLimits::instructions: "Maximum number of interpreted instructions or
\* CPU actions", and a run counts those of both cores.  The code does not keep it:
\* the limit is looked at once a pass, before core 0, and core 1 steps after it.
InstructionsWithinLimit ==
    control.limits.instructions # None => stats.instructions <= control.limits.instructions

\* How far the code goes past that limit: at most by the one instruction of core 1
\* in the pass that exhausts it.
BudgetOverrun ==
    control.limits.instructions # None =>
        stats.instructions <= control.limits.instructions + (IF cpu.active THEN 1 ELSE 0)

\* docs/SUPPORT.md: unbounded execution is rejected so that an invocation cannot
\* hang.  Every run that begins ends, whichever limit it has.
RunEnds == (phase # "idle") ~> (phase = "idle")

(***************************************************************************)
(* The inductive invariants of ArmRun_proofs.                               *)
(***************************************************************************)

\* A completed launch waits until it is taken, once, by an inactive core 1.
LaunchOnce ==
    /\ sio \in [selected : 0..1, pending : Access \cup {None}, launched : BOOLEAN]
    /\ cpu \in [pc : [0..1 -> PC], active : BOOLEAN]
    /\ sio.pending # None => /\ sio.pending.kind = "launch"
                             /\ sio.launched /\ ~cpu.active
    /\ cpu.active => sio.launched
    /\ phase = "core1" => sio.pending # None \/ cpu.active

\* How much of the instruction budget is left in each phase of a pass.
WithinBudget ==
    /\ DOMAIN stats = {"instructions", "events"} /\ stats.instructions \in Nat
    /\ DOMAIN control = {"limits", "stimuli", "next"}
    /\ control.limits \in Limits \cup {[instructions |-> None, deadline |-> None]}
    /\ LET budget == control.limits.instructions
       IN  budget # None =>
              /\ phase \in {"service", "serviced", "core0"} => stats.instructions < budget
              /\ phase = "core1" => stats.instructions <= budget

\* Core 0 executes only what the service has let through.
Core0Cleared == phase = "core0" => hit = None /\ ~AtBreakpoint(0)

ControlInv ==
    /\ phase \in {"idle", "top", "service", "serviced", "core0", "core1"}
    /\ LaunchOnce
    /\ WithinBudget
    /\ BudgetOverrun
    /\ Core0Cleared
    /\ WatchpointFromCpu

=============================================================================
