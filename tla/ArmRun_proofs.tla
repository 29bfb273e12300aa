----------------------------- MODULE ArmRun_proofs -----------------------------
(***************************************************************************)
(* Proofs about the run loop, for every set of pins, addresses, limits,      *)
(* stimulus lists and debugger settings.                                    *)
(*                                                                          *)
(* The control invariant says what each phase of a pass may rely on         *)
(* (launches, budgets, breakpoints, watchpoints); there is one lemma for    *)
(* each action that can disturb it.  The hub invariant says that the queue  *)
(* of the hub is in order and tells its reader every value, and that clean  *)
(* pads match their registers; on it rest the invariants of the signal      *)
(* stops and of the stimuli.  The loops of the code are left folds, which   *)
(* FoldPrefixes unrolls into the sequence of their intermediate states.     *)
(***************************************************************************)
EXTENDS ArmRun, SequenceTheorems, WellFoundedInduction, TLAPS

(***************************************************************************)
(* Operators.                                                               *)
(***************************************************************************)

\* The entry of a completed launch is a program address, or none that is valid.
LEMMA LaunchEntry ==
    ASSUME NEW a \in Access, a.kind = "launch"
    PROVE  a.entry \in PC \cup {None}
<1>1. a \in [kind : {"launch"}, entry : PC \cup {None}]
  BY DEF Access
<1> QED BY <1>1

\* Selecting core 0 again leaves the launch alone.
LEMMA Reselect ==
    ASSUME NEW s \in [selected : 0..1, pending : Access \cup {None}, launched : BOOLEAN]
    PROVE  /\ [s EXCEPT !.selected = 0] \in
                  [selected : 0..1, pending : Access \cup {None}, launched : BOOLEAN]
           /\ [s EXCEPT !.selected = 0].launched = s.launched
           /\ [s EXCEPT !.selected = 0].pending = s.pending
OBVIOUS

\* What an access leaves of the launch state: a launch is completed once.
LEMMA SioAfterAccess ==
    ASSUME LaunchOnce, NEW a \in Access, NEW c \in 0..1
    PROVE  /\ SioAfter(a, c) \in [selected : 0..1, pending : Access \cup {None}, launched : BOOLEAN]
           /\ SioAfter(a, c).selected = c
           /\ sio.launched => SioAfter(a, c).launched /\ SioAfter(a, c).pending = sio.pending
           /\ SioAfter(a, c).pending # sio.pending => ~sio.launched
           /\ SioAfter(a, c).pending # None =>
                 /\ SioAfter(a, c).pending.kind = "launch"
                 /\ SioAfter(a, c).launched /\ ~cpu.active
<1>1. CASE a.kind = "launch" /\ c = 0 /\ ~sio.launched
  BY <1>1 DEF LaunchOnce, SioAfter
<1>2. CASE ~(a.kind = "launch" /\ c = 0 /\ ~sio.launched)
  BY <1>2 DEF LaunchOnce, SioAfter
<1> QED BY <1>1, <1>2

\* The limits of a run that has none left to reach leave room for one instruction.
LEMMA LimitNotReached ==
    ASSUME NEW limits \in Limits \cup {[instructions |-> None, deadline |-> None]},
           NEW n \in Nat, NEW at, LimitReason(limits, n, at) = None
    PROVE  limits.instructions # None => n < limits.instructions
<1>1. limits.instructions \in Nat \cup {None}
  BY LimitsAssumption
<1>2. limits.instructions # None => ~(n >= limits.instructions)
  BY LimitsAssumption DEF LimitReason
<1> QED BY <1>1, <1>2

\* Which limit can be reached.
LEMMA LimitKinds ==
    ASSUME NEW limits, NEW n, NEW at
    PROVE  LimitReason(limits, n, at) \in {"InstructionLimit", "TimeLimit", None}
BY DEF LimitReason

\* An instruction counts one, and moves the program counter of its core only.
LEMMA AdvanceCounts ==
    ASSUME ControlInv, NEW c \in 0..1, NEW pc \in PC, Advance(c, pc)
    PROVE  /\ DOMAIN stats' = {"instructions", "events"}
           /\ stats'.instructions = stats.instructions + 1
           /\ stats'.instructions \in Nat
           /\ cpu' \in [pc : [0..1 -> PC], active : BOOLEAN]
           /\ cpu'.active = cpu.active
<1>1. cpu \in [pc : [0..1 -> PC], active : BOOLEAN] /\ stats.instructions \in Nat
      /\ DOMAIN stats = {"instructions", "events"}
  BY DEF ControlInv, LaunchOnce, WithinBudget
<1>2. stats' = [stats EXCEPT !.instructions = @ + 1] /\ cpu' = [cpu EXCEPT !.pc[c] = pc]
  BY DEF Advance
<1>3. DOMAIN stats' = {"instructions", "events"} /\ stats'.instructions = stats.instructions + 1
  BY <1>1, <1>2
<1>4. cpu' \in [pc : [0..1 -> PC], active : BOOLEAN] /\ cpu'.active = cpu.active
  BY <1>1, <1>2
<1> QED BY <1>1, <1>3, <1>4

-------------------------------------------------------------------------------
(***************************************************************************)
(* The control invariant.                                                   *)
(***************************************************************************)

\* Before the first run.
LEMMA ControlInitially ==
    ArmInit => ControlInv
<1> SUFFICES ASSUME ArmInit PROVE ControlInv
  OBVIOUS
<1>1. LaunchOnce
  BY DEF ArmInit, LaunchOnce
<1>2. WithinBudget /\ BudgetOverrun
  BY DEF ArmInit, WithinBudget, BudgetOverrun
<1>3. Core0Cleared /\ WatchpointFromCpu
  BY DEF ArmInit, Core0Cleared, WatchpointFromCpu
<1> QED BY <1>1, <1>2, <1>3 DEF ControlInv, ArmInit

\* The state the invariant reads; what leaves it alone preserves it.
control_vars == <<phase, reason, control, stats, sio, cpu, hit, debug>>

\* The invariant reads these variables only.
LEMMA ControlUnchanged ==
    ControlInv /\ UNCHANGED control_vars => ControlInv'
BY DEF control_vars, ControlInv, LaunchOnce, WithinBudget, BudgetOverrun, Core0Cleared,
       WatchpointFromCpu, AtBreakpoint

\* Between two runs nothing but a new run changes the state of the loop.
LEMMA DebuggerControl ==
    ControlInv /\ Debugger => ControlInv'
<1> SUFFICES ASSUME ControlInv, Debugger PROVE ControlInv'
  OBVIOUS
<1>1. ASSUME NEW limits \in Limits, NEW stimuli \in StimulusLists, Begin(limits, stimuli)
      PROVE  ControlInv'
  <2>1. CASE limits.instructions = None /\ limits.deadline = None
    BY <1>1, <2>1 DEF Begin, Stop, cpu_vars, ControlInv, LaunchOnce, WithinBudget, BudgetOverrun,
       Core0Cleared, WatchpointFromCpu
  <2>2. CASE ~(limits.instructions = None /\ limits.deadline = None)
    <3>1. /\ phase' = "top" /\ reason' = [kind |-> "None"]
          /\ control' = [limits |-> limits, stimuli |-> StableSort(stimuli), next |-> 1]
          /\ stats' = [instructions |-> 0, events |-> 0]
          /\ UNCHANGED <<sio, cpu, hit, debug>>
      BY <1>1, <2>2 DEF Begin, cpu_vars
    <3>2. limits.instructions \in Nat \cup {None}
      BY LimitsAssumption
    <3>3. WithinBudget' /\ BudgetOverrun'
      BY <3>1, <3>2 DEF WithinBudget, BudgetOverrun
    <3> QED BY <3>1, <3>3 DEF ControlInv, LaunchOnce, Core0Cleared, WatchpointFromCpu
  <2> QED BY <2>1, <2>2
<1>2. ASSUME NEW setup \in DebugSetups, SetDebug(setup)
      PROVE  ControlInv'
  BY <1>2 DEF SetDebug, run_vars, cpu_vars, ControlInv, LaunchOnce, WithinBudget, BudgetOverrun,
     Core0Cleared, WatchpointFromCpu
<1>3. ASSUME HostAccess PROVE ControlInv'
  BY <1>3 DEF HostAccess, ControlInv, LaunchOnce, WithinBudget, BudgetOverrun,
     Core0Cleared, WatchpointFromCpu
<1> QED BY <1>1, <1>2, <1>3 DEF Debugger, DebugMemory, HostPin

\* A pass goes on from the top only while the budget has room for an instruction.
LEMMA TopControl ==
    ControlInv /\ Top => ControlInv'
<1> SUFFICES ASSUME ControlInv, Top PROVE ControlInv'
  OBVIOUS
<1> DEFINE limit == LimitReason(control.limits, stats.instructions, now)
<1>1. /\ sio' = [sio EXCEPT !.selected = 0]
      /\ DOMAIN stats' = DOMAIN stats /\ stats'.instructions = stats.instructions
      /\ DOMAIN control' = DOMAIN control /\ control'.limits = control.limits
      /\ UNCHANGED <<cpu, hit, debug>>
  BY DEF Top, SelectCore, ControlInv, WithinBudget
<1>2. \/ phase' = "idle" /\ reason' = [kind |-> "Error"]
      \/ phase' = "idle" /\ reason' = [kind |-> "Halted"]
      \/ phase' = "idle" /\ limit # None /\ reason' = [kind |-> limit]
      \/ phase' = "service" /\ limit = None /\ reason' = reason
  BY DEF Top, Stop, Continue
<1>3. limit \in {"InstructionLimit", "TimeLimit", None}
  BY LimitKinds
<1>4. limit = None /\ control.limits.instructions # None =>
        stats.instructions < control.limits.instructions
  BY LimitNotReached DEF ControlInv, WithinBudget
<1> HIDE DEF limit
<1>5. LaunchOnce'
  BY <1>1, <1>2 DEF ControlInv, LaunchOnce
<1>6. WithinBudget'
  BY <1>1, <1>2, <1>4 DEF ControlInv, WithinBudget
<1>7. BudgetOverrun'
  BY <1>1 DEF ControlInv, BudgetOverrun
<1>8. WatchpointFromCpu'
  BY <1>2, <1>3 DEF ControlInv, WatchpointFromCpu
<1> QED BY <1>2, <1>5, <1>6, <1>7, <1>8 DEF ControlInv, Core0Cleared

\* A DMA transfer may complete a launch and leaves the budget alone.
LEMMA DmaControl ==
    ASSUME ControlInv, NEW a \in Access, Dma(a)
    PROVE  ControlInv'
<1> DEFINE counted == [stats EXCEPT !.events = @ + 1]
<1>a. DOMAIN counted = DOMAIN stats /\ counted.instructions = stats.instructions
  BY DEF ControlInv, WithinBudget
<1> HIDE DEF counted
<1>b. /\ phase = "service" /\ UNCHANGED <<control, cpu, debug>>
      /\ \/ phase' = "serviced" /\ reason' = reason
            /\ sio' = SioAfter(a, sio.selected) /\ stats' = counted
         \/ phase' = "idle" /\ reason' = [kind |-> "Error"] /\ sio' = sio /\ stats' = stats
  BY DEF Dma, Stop, Continue, counted
<1>1. /\ phase = "service" /\ UNCHANGED <<control, cpu, debug>>
      /\ \/ phase' = "serviced" /\ reason' = reason
         \/ phase' = "idle" /\ reason' = [kind |-> "Error"]
      /\ sio' = SioAfter(a, sio.selected) \/ sio' = sio
      /\ DOMAIN stats' = DOMAIN stats /\ stats'.instructions = stats.instructions
  BY <1>a, <1>b
<1>2. LaunchOnce'
  <2>1. LaunchOnce /\ sio.selected \in 0..1
    BY DEF ControlInv, LaunchOnce
  <2>2. CASE sio' = sio
    BY <1>1, <2>1, <2>2 DEF LaunchOnce
  <2>3. CASE sio' = SioAfter(a, sio.selected)
    <3> DEFINE s == SioAfter(a, sio.selected)
    <3>1. /\ s \in [selected : 0..1, pending : Access \cup {None}, launched : BOOLEAN]
          /\ sio.launched => s.launched
          /\ s.pending # None => s.pending.kind = "launch" /\ s.launched /\ ~cpu.active
      BY <2>1, SioAfterAccess
    <3> HIDE DEF s
    <3>2. sio' = s
      BY <2>3 DEF s
    <3> QED BY <1>1, <2>1, <3>1, <3>2 DEF LaunchOnce
  <2> QED BY <1>1, <2>2, <2>3
<1>3. WithinBudget' /\ BudgetOverrun'
  BY <1>1 DEF ControlInv, WithinBudget, BudgetOverrun
<1>4. WatchpointFromCpu' /\ Core0Cleared'
  BY <1>1 DEF ControlInv, WatchpointFromCpu, Core0Cleared
<1> QED BY <1>1, <1>2, <1>3, <1>4 DEF ControlInv

\* The service lets core 0 through with the hit cleared and no breakpoint ahead.
LEMMA ServiceControl ==
    ASSUME ControlInv, NEW out \in PioValue, Service(out)
    PROVE  ControlInv'
<1>1. /\ phase \in {"service", "serviced"} /\ UNCHANGED <<control, stats, sio, cpu, debug>>
      /\ \/ phase' = "idle" /\ reason'.kind \in {"Fault", "Breakpoint", "HostInputComplete"}
         \/ phase' = "core0" /\ reason' = reason /\ ~AtBreakpoint(0) /\ hit' = None
  BY DEF Service, Stop, Continue, ClearHit
<1>2. LaunchOnce' /\ WithinBudget' /\ BudgetOverrun'
  BY <1>1 DEF ControlInv, LaunchOnce, WithinBudget, BudgetOverrun
<1>3. WatchpointFromCpu' /\ Core0Cleared'
  BY <1>1 DEF ControlInv, WatchpointFromCpu, Core0Cleared, AtBreakpoint
<1> QED BY <1>1, <1>2, <1>3 DEF ControlInv

\* Core 1 is launched once.
LEMMA LaunchControl ==
    ControlInv /\ Launch => ControlInv'
<1> SUFFICES ASSUME ControlInv, Launch PROVE ControlInv'
  OBVIOUS
<1>1. /\ phase = "core1" /\ sio.pending # None /\ UNCHANGED <<control, debug, hit>>
      /\ sio' = [sio EXCEPT !.pending = None]
  BY DEF Launch
<1>2. /\ sio' \in [selected : 0..1, pending : Access \cup {None}, launched : BOOLEAN]
      /\ sio'.pending = None /\ sio'.launched = sio.launched /\ sio.launched
      /\ sio.pending \in Access /\ sio.pending.kind = "launch" /\ ~cpu.active
      /\ cpu \in [pc : [0..1 -> PC], active : BOOLEAN]
  BY <1>1 DEF ControlInv, LaunchOnce
<1>3. CASE sio.pending.entry = None
  <2>1. phase' = "idle" /\ reason' = [kind |-> "Fault"] /\ UNCHANGED <<cpu, stats>>
    BY <1>3 DEF Launch, Stop
  <2> QED BY <1>1, <1>2, <2>1 DEF ControlInv, LaunchOnce, WithinBudget, BudgetOverrun,
             WatchpointFromCpu, Core0Cleared
<1>4. CASE sio.pending.entry # None
  <2>1. /\ cpu' = [pc |-> [cpu.pc EXCEPT ![1] = sio.pending.entry], active |-> TRUE]
        /\ stats' = [stats EXCEPT !.events = @ + 1]
        /\ phase' = "core1" /\ reason' = reason
    BY <1>4 DEF Launch, Continue
  <2>2. sio.pending.entry \in PC
    BY <1>2, <1>4, LaunchEntry
  <2>3. cpu' \in [pc : [0..1 -> PC], active : BOOLEAN] /\ cpu'.active = TRUE
    BY <1>2, <2>1, <2>2
  <2>4. DOMAIN stats' = DOMAIN stats /\ stats'.instructions = stats.instructions
    BY <2>1 DEF ControlInv, WithinBudget
  <2>5. LaunchOnce'
    BY <1>2, <2>3 DEF LaunchOnce
  <2>6. control.limits.instructions \in Nat \cup {None}
    BY LimitsAssumption DEF ControlInv, WithinBudget
  <2>7. WithinBudget' /\ BudgetOverrun'
    BY <1>1, <1>2, <2>1, <2>3, <2>4, <2>6 DEF ControlInv, WithinBudget, BudgetOverrun
  <2> QED BY <1>1, <2>1, <2>5, <2>7 DEF ControlInv, WatchpointFromCpu, Core0Cleared
<1> QED BY <1>3, <1>4

\* A breakpoint of core 1 ends the run before it executes.
LEMMA Core1BreakpointControl ==
    ControlInv /\ Core1Breakpoint => ControlInv'
<1> SUFFICES ASSUME ControlInv, Core1Breakpoint PROVE ControlInv'
  OBVIOUS
<1>1. /\ phase' = "idle" /\ reason' = [kind |-> "Breakpoint"]
      /\ UNCHANGED <<control, stats, cpu, debug, hit>>
      /\ sio' = [sio EXCEPT !.selected = 0]
  BY DEF Core1Breakpoint, Stop, SelectCore
<1>2. LaunchOnce'
  BY <1>1 DEF ControlInv, LaunchOnce
<1> QED BY <1>1, <1>2 DEF ControlInv, WithinBudget, BudgetOverrun, WatchpointFromCpu, Core0Cleared

\* How an instruction of a core leaves the pass.
ExecutionEnds(c) ==
    /\ \/ c = 0 /\ phase = "core0"
       \/ c = 1 /\ phase = "core1" /\ cpu.active
    /\ \/ phase' \in {"idle", "top"}
       \/ phase' = "core1" /\ c = 0 /\ (sio'.pending # None \/ cpu.active)

\* An instruction of either core that ends within the budget of its phase.
\* The launch state, the budget and the report of a watchpoint after it do not
\* depend on how the pass ends.
LEMMA AdvanceControl ==
    ASSUME ControlInv, NEW c \in 0..1, NEW pc \in PC, NEW a \in Access,
           Advance(c, pc), UNCHANGED <<control, debug>>,
           sio' = [SioAfter(a, c) EXCEPT !.selected = 0],
           ExecutionEnds(c), WatchpointFromCpu'
    PROVE  ControlInv'
<1> DEFINE s == SioAfter(a, c)
<1>1. /\ DOMAIN stats' = {"instructions", "events"}
      /\ stats'.instructions = stats.instructions + 1
      /\ stats.instructions \in Nat
      /\ cpu' \in [pc : [0..1 -> PC], active : BOOLEAN]
      /\ cpu'.active = cpu.active
  BY AdvanceCounts DEF ControlInv, WithinBudget
<1>2. /\ s \in [selected : 0..1, pending : Access \cup {None}, launched : BOOLEAN]
      /\ sio.launched => s.launched
      /\ s.pending # None => s.pending.kind = "launch" /\ s.launched /\ ~cpu.active
  BY SioAfterAccess DEF ControlInv
<1> HIDE DEF s
<1>3. /\ sio' \in [selected : 0..1, pending : Access \cup {None}, launched : BOOLEAN]
      /\ sio'.launched = s.launched /\ sio'.pending = s.pending
  <2>1. sio' = [s EXCEPT !.selected = 0]
    BY DEF s
  <2> QED BY <1>2, <2>1, Reselect, Zenon
<1>4. cpu.active => sio.launched
  BY DEF ControlInv, LaunchOnce
<1>5. LaunchOnce'
  BY <1>1, <1>2, <1>3, <1>4 DEF LaunchOnce, ExecutionEnds
<1>6. control.limits.instructions \in Nat \cup {None} /\ control' = control
  BY LimitsAssumption DEF ControlInv, WithinBudget
<1>7. control.limits.instructions # None =>
         /\ c = 0 => stats'.instructions <= control.limits.instructions
         /\ stats'.instructions <= control.limits.instructions + (IF cpu'.active THEN 1 ELSE 0)
  BY <1>1, <1>6 DEF ControlInv, WithinBudget, ExecutionEnds
<1>8. WithinBudget'
  BY <1>1, <1>6, <1>7 DEF ControlInv, WithinBudget, ExecutionEnds
<1>9. BudgetOverrun'
  BY <1>6, <1>7 DEF BudgetOverrun
<1> QED BY <1>5, <1>8, <1>9 DEF ControlInv, Core0Cleared, ExecutionEnds

\* A fault of either core ends the run.
LEMMA FaultControl ==
    ASSUME ControlInv, NEW c \in 0..1, NEW a \in Access, Faults(a, c), UNCHANGED <<control, debug>>
    PROVE  ControlInv'
<1> DEFINE s == SioAfter(a, c)
<1>1. /\ s \in [selected : 0..1, pending : Access \cup {None}, launched : BOOLEAN]
      /\ sio.launched => s.launched
      /\ s.pending # None => s.pending.kind = "launch" /\ s.launched /\ ~cpu.active
  BY SioAfterAccess DEF ControlInv
<1>2. /\ phase' = "idle" /\ reason' = [kind |-> "Fault"] /\ UNCHANGED <<stats, cpu>>
      /\ sio' = [s EXCEPT !.selected = 0]
  BY DEF Faults, Stop
<1> HIDE DEF s
<1>3. LaunchOnce'
  BY <1>1, <1>2 DEF ControlInv, LaunchOnce
<1> QED BY <1>2, <1>3 DEF ControlInv, WithinBudget, BudgetOverrun, Core0Cleared, WatchpointFromCpu

\* Core 0 executes with no hit pending, so that a watchpoint it reports is its own.
LEMMA Core0Control ==
    ASSUME ControlInv, NEW a \in Access, NEW pc \in PC, NEW outcome \in Outcome,
           Core0(a, pc, outcome)
    PROVE  ControlInv'
<1>1. phase = "core0" /\ hit = None /\ UNCHANGED <<control, debug>>
  BY DEF Core0, ControlInv, Core0Cleared
<1>2. HitAfter(a, hit, "core0") # None => HitAfter(a, hit, "core0") = "core0"
  BY <1>1 DEF HitAfter
<1>3. CASE Faults(a, 0)
  BY <1>1, <1>3, FaultControl
<1>4. ASSUME sio' = SioAfter(a, 0)
      PROVE  sio' = [SioAfter(a, 0) EXCEPT !.selected = 0]
  <2> DEFINE s == SioAfter(a, 0)
  <2>1. s \in [selected : 0..1, pending : Access \cup {None}, launched : BOOLEAN] /\ s.selected = 0
    BY SioAfterAccess DEF ControlInv
  <2>2. sio' = s
    BY <1>4
  <2> HIDE DEF s
  <2>3. s = [s EXCEPT !.selected = 0]
    BY <2>1
  <2> QED BY <2>2, <2>3 DEF s
<1>5. CASE RomCall(a, pc)
  <2>1. Advance(0, pc) /\ sio' = SioAfter(a, 0) /\ phase' \in {"idle", "top"}
    BY <1>5 DEF RomCall, Stop, Continue
  <2>2. WatchpointFromCpu'
    BY <1>2, <1>5 DEF RomCall, Stop, Continue, ControlInv, WatchpointFromCpu
  <2>3. ExecutionEnds(0)
    BY <1>1, <2>1 DEF ExecutionEnds
  <2> QED BY <1>1, <1>4, <2>1, <2>2, <2>3, AdvanceControl
<1>6. CASE Instruction(a, pc, outcome)
  <2> DEFINE watch == HitAfter(a, hit, "core0")
             after == IF sio'.pending # None \/ cpu.active THEN "core1" ELSE "top"
  <2>1. Advance(0, pc) /\ sio' = SioAfter(a, 0)
    BY <1>6 DEF Instruction
  <2>2. \/ phase' = "idle" /\ reason'.kind # "Watchpoint"
        \/ phase' = "idle" /\ reason' = [kind |-> "Watchpoint", by |-> watch] /\ watch # None
        \/ phase' = after /\ reason' = reason
    BY <1>6 DEF Instruction, Recorded, Stop, Continue
  <2>3. WatchpointFromCpu'
    BY <1>2, <2>2 DEF ControlInv, WatchpointFromCpu
  <2>4. ExecutionEnds(0)
    BY <1>1, <2>2 DEF ExecutionEnds
  <2> QED BY <1>1, <1>4, <2>1, <2>3, <2>4, AdvanceControl
<1> QED BY <1>3, <1>5, <1>6 DEF Core0

\* Core 1 takes the one instruction that the budget may be overrun by.
LEMMA Core1Control ==
    ASSUME ControlInv, NEW a \in Access, NEW pc \in PC, NEW outcome \in Outcome,
           Core1(a, pc, outcome)
    PROVE  ControlInv'
<1>1. phase = "core1" /\ sio.pending = None /\ UNCHANGED <<control, debug>>
  BY DEF Core1
<1>2. cpu.active
  BY <1>1 DEF ControlInv, LaunchOnce
<1>3. HitAfter(a, None, "core1") # None => HitAfter(a, None, "core1") = "core1"
  BY DEF HitAfter
<1>4. CASE Faults(a, 1)
  BY <1>1, <1>4, FaultControl
<1>5. CASE ~Faults(a, 1)
  <2>1. /\ Advance(1, pc) /\ sio' = [SioAfter(a, 1) EXCEPT !.selected = 0]
        /\ phase' \in {"idle", "top"}
    BY <1>5 DEF Core1, Core1Stop, Recorded, Stop, Continue
  <2>2. WatchpointFromCpu'
    BY <1>3, <1>5 DEF Core1, Core1Stop, Recorded, Stop, Continue, ControlInv, WatchpointFromCpu
  <2>3. ExecutionEnds(1)
    BY <1>1, <1>2, <2>1 DEF ExecutionEnds
  <2> QED BY <1>1, <2>1, <2>2, <2>3, AdvanceControl
<1> QED BY <1>4, <1>5

\* The control invariant is inductive: no step of the loop, of the debugger or of
\* the host breaks it.
LEMMA ControlStep ==
    ControlInv /\ [ArmNext]_arm_vars => ControlInv'
<1>1. ControlInv /\ Loop => ControlInv'
  BY TopControl, DmaControl, ServiceControl, Core0Control, Core1Control, LaunchControl,
     Core1BreakpointControl DEF Loop
<1>2. UNCHANGED arm_vars => UNCHANGED control_vars
  BY DEF arm_vars, run_vars, hub_vars, cpu_vars, control_vars
<1> QED BY <1>1, <1>2, DebuggerControl, ControlUnchanged DEF ArmNext

\* Every state of the machine satisfies the control invariant: what each phase of
\* a pass relies on is what the phases and the stops before it have left.
THEOREM ControlInvariance == ArmSpec => []ControlInv
<1> QED BY ControlInitially, ControlStep, PTL DEF ArmSpec

\* A run executes at most one instruction more than its budget, and that one only
\* with core 1 running: the limits are tested once in a pass (machine_run.rs).
THEOREM BudgetCorrect == ArmSpec => []BudgetOverrun
<1>1. ControlInv => BudgetOverrun
  BY DEF ControlInv
<1> QED BY <1>1, ControlInvariance, PTL

\* A watchpoint stop is never caused by DMA or by the debugger, whose accesses
\* leave hits in the same address space.
THEOREM WatchpointCorrect == ArmSpec => []WatchpointFromCpu
<1>1. ControlInv => WatchpointFromCpu
  BY DEF ControlInv
<1> QED BY <1>1, ControlInvariance, PTL

\* A completed launch survives every stop and starts core 1 once, in this run or
\* in a later one (machine_run.rs, take_core1_launch).
THEOREM LaunchCorrect == ArmSpec => LaunchSurvivesStops
<1> DEFINE Kept == /\ sio.pending # None /\ sio'.pending = None =>
                         (cpu'.active /\ ~cpu.active) \/ reason'.kind = "Fault"
                   /\ sio.launched => sio'.launched /\ sio'.pending \in {sio.pending, None}
<1>1. ASSUME ControlInv, ArmNext PROVE Kept
  <2>1. LaunchOnce
    BY <1>1 DEF ControlInv
  <2>2. ASSUME sio'.pending = sio.pending, sio'.launched = sio.launched PROVE Kept
    BY <2>2
  <2>3. ASSUME NEW a \in Access, NEW c \in 0..1,
               \/ sio' = SioAfter(a, c)
               \/ sio' = [SioAfter(a, c) EXCEPT !.selected = 0]
        PROVE  Kept
    <3> DEFINE s == SioAfter(a, c)
    <3>1. /\ s \in [selected : 0..1, pending : Access \cup {None}, launched : BOOLEAN]
          /\ sio.launched => s.launched /\ s.pending = sio.pending
      BY <2>1, SioAfterAccess
    <3>2. sio' = s \/ sio' = [s EXCEPT !.selected = 0]
      BY <2>3
    <3> HIDE DEF s
    <3>3. sio'.launched = s.launched /\ sio'.pending = s.pending
      BY <3>1, <3>2, Reselect, Zenon
    <3>4. sio.pending # None => sio.launched
      BY <2>1 DEF LaunchOnce
    <3> QED BY <3>1, <3>3, <3>4
  <2>4. CASE Debugger
    BY <2>2, <2>4 DEF Debugger, Begin, SetDebug, DebugMemory, HostPin, HostAccess, cpu_vars
  <2>5. CASE Top
    <3>1. sio' = [sio EXCEPT !.selected = 0]
      BY <2>5 DEF Top, SelectCore
    <3> QED BY <2>1, <2>2, <3>1 DEF LaunchOnce
  <2>6. ASSUME NEW a \in Access, Dma(a) PROVE Kept
    <3>1. sio' = SioAfter(a, sio.selected) \/ sio' = sio
      BY <2>6 DEF Dma
    <3>2. sio.selected \in 0..1
      BY <2>1 DEF LaunchOnce
    <3> QED BY <2>2, <2>3, <3>1, <3>2
  <2>7. ASSUME NEW out \in PioValue, Service(out) PROVE Kept
    BY <2>2, <2>7 DEF Service
  <2>8. ASSUME NEW a \in Access, NEW pc \in PC, NEW outcome \in Outcome, Core0(a, pc, outcome)
        PROVE  Kept
    <3>1. sio' = SioAfter(a, 0) \/ sio' = [SioAfter(a, 0) EXCEPT !.selected = 0]
      BY <2>8, Zenon DEF Core0, Faults, RomCall, Instruction
    <3> QED BY <2>3, <3>1
  <2>9. ASSUME NEW a \in Access, NEW pc \in PC, NEW outcome \in Outcome, Core1(a, pc, outcome)
        PROVE  Kept
    <3>1. sio' = [SioAfter(a, 1) EXCEPT !.selected = 0]
      BY <2>9, Zenon DEF Core1, Faults, Core1Stop
    <3>2. 1 \in 0..1
      OBVIOUS
    <3> HIDE DEF Kept
    <3> QED BY <2>3, <3>1, <3>2, Zenon
  <2>10. CASE Launch
    <3>1. sio' = [sio EXCEPT !.pending = None] /\ sio.pending # None
      BY <2>10 DEF Launch
    <3>2. sio'.pending = None /\ sio'.launched = sio.launched /\ ~cpu.active
      BY <2>1, <3>1 DEF LaunchOnce
    <3>3. cpu'.active \/ reason'.kind = "Fault"
      BY <2>10 DEF Launch, Stop
    <3> QED BY <3>2, <3>3
  <2>11. CASE Core1Breakpoint
    <3>1. sio' = [sio EXCEPT !.selected = 0]
      BY <2>11 DEF Core1Breakpoint, SelectCore
    <3> QED BY <2>1, <2>2, <3>1 DEF LaunchOnce
  <2> HIDE DEF Kept
  <2> QED BY <1>1, <2>4, <2>5, <2>6, <2>7, <2>8, <2>9, <2>10, <2>11 DEF ArmNext, Loop
<1>2. ControlInv /\ [ArmNext]_arm_vars => [Kept]_arm_vars
  BY <1>1
<1> QED BY <1>2, ControlInvariance, PTL DEF ArmSpec, LaunchSurvivesStops

\* No core executes an address that has a breakpoint: core 0 because the service
\* stops first, core 1 also in the pass that launches it.
THEOREM BreakpointCorrect == ArmSpec => BreakpointBeforeExecution
<1> DEFINE Before == \A c \in 0..1 : stats'.instructions > stats.instructions
                        /\ (IF c = 0 THEN phase = "core0" ELSE phase = "core1")
                          => cpu.pc[c] \notin debug.breakpoints
<1>1. ASSUME ControlInv, ArmNext PROVE Before
  <2>1. phase = "core0" => ~AtBreakpoint(0)
    BY <1>1 DEF ControlInv, Core0Cleared
  <2>2. phase = "core1" /\ stats'.instructions > stats.instructions => ~AtBreakpoint(1)
    <3> SUFFICES ASSUME phase = "core1", stats'.instructions > stats.instructions
                 PROVE  ~AtBreakpoint(1)
      OBVIOUS
    <3>1. stats.instructions \in Nat /\ DOMAIN stats = {"instructions", "events"}
      BY <1>1 DEF ControlInv, WithinBudget
    <3>2. stats' # stats /\ stats' # [stats EXCEPT !.events = @ + 1]
      BY <3>1
    <3>3. ~Launch /\ ~Core1Breakpoint
      BY <3>2 DEF Launch, Core1Breakpoint
    <3>4. ~Debugger
      BY DEF Debugger, Begin, SetDebug, DebugMemory, HostPin, HostAccess
    <3>5. \E a \in Access, pc \in PC, outcome \in Outcome : Core1(a, pc, outcome)
      BY <1>1, <3>3, <3>4 DEF ArmNext, Loop, Top, Dma, Service, Core0
    <3> QED BY <3>5 DEF Core1
  <2> QED BY <2>1, <2>2 DEF AtBreakpoint
<1>2. ControlInv /\ [ArmNext]_arm_vars => [Before]_arm_vars
  BY <1>1
<1> QED BY <1>2, ControlInvariance, PTL DEF ArmSpec, BreakpointBeforeExecution

(***************************************************************************)
(* Folds.                                                                   *)
(***************************************************************************)

\* Every set of natural numbers has a least element.
LEMMA LeastNatural ==
    ASSUME NEW S \in SUBSET Nat, S # {}
    PROVE  \E n \in S : \A m \in S : n <= m
<1>1. PICK n \in S : \A m \in S : ~(<<m, n>> \in OpToRel(<, Nat))
  BY NatLessThanWellFounded, WFMin
<1>2. \A m \in S : ~(m < n)
  BY <1>1 DEF OpToRel
<1> QED BY <1>2

\* Induction along a sequence.
LEMMA PrefixInduction ==
    ASSUME NEW n \in Nat, NEW P, 0 \in P,
           \A k \in 1..n : k - 1 \in P => k \in P
    PROVE  \A k \in 0..n : k \in P
<1> DEFINE Out == (0..n) \ P
<1> SUFFICES ASSUME Out # {} PROVE FALSE
  OBVIOUS
<1>1. Out \in SUBSET Nat
  OBVIOUS
<1>2. PICK k \in Out : \A m \in Out : k <= m
  BY <1>1, LeastNatural
<1>3. k \in 1..n /\ k - 1 \in 0..n /\ ~(k <= k - 1)
  BY <1>2
<1>4. k - 1 \in P
  BY <1>2, <1>3
<1> QED BY <1>2, <1>3, <1>4

\* Max of the community modules, on bounded sets of numbers.
LEMMA MaxOfNaturals ==
    ASSUME NEW n \in Nat, NEW s \in SUBSET (0..n), s # {}
    PROVE  Max(s) \in s /\ \A y \in s : y <= Max(s)
<1> DEFINE up == {m \in Nat : \A y \in s : y <= m}
<1>1. n \in up
  OBVIOUS
<1>2. up \in SUBSET Nat /\ up # {}
  BY <1>1
<1>3. PICK m \in up : \A k \in up : m <= k
  BY <1>2, LeastNatural
<1>4. m \in s
  <2> SUFFICES ASSUME m \notin s PROVE FALSE
    OBVIOUS
  <2>1. \A y \in s : y \in Nat /\ y < m
    BY <1>3
  <2>2. PICK z \in s : TRUE
    OBVIOUS
  <2>a. m # 0 /\ m \in Nat
    BY <1>3, <2>1, <2>2
  <2>3. m - 1 \in Nat /\ \A y \in s : y <= m - 1
    BY <1>3, <2>1, <2>a
  <2>4. m - 1 \in up
    BY <2>3
  <2> QED BY <1>3, <2>4
<1>5. \E x \in s : \A y \in s : x >= y
  BY <1>3, <1>4
<1> QED BY <1>5 DEF Max

\* The same for the indices of a sequence.
LEMMA MaxOfIndices ==
    ASSUME NEW n \in Nat, NEW s \in SUBSET (1..n), s # {}
    PROVE  Max(s) \in s /\ Max(s) \in 1..n /\ \A y \in s : y <= Max(s)
<1>1. s \in SUBSET (0..n)
  OBVIOUS
<1> QED BY <1>1, MaxOfNaturals

Steps(n, St) == [1..n -> [St -> St]]

FoldsTo(it, n, base, T) ==
    \A s \in SUBSET (1..n) : it[s] = IF s = {} THEN base ELSE T[Max(s)][it[s \ {Max(s)}]]

FoldsWithin(f, n, St, base, T) ==
    /\ f[{}] = base
    /\ \A s \in SUBSET (1..n) : s # {} /\ f[s \ {Max(s)}] \in St =>
          f[s] = T[Max(s)][f[s \ {Max(s)}]]

Unrolls(g, n, base, T) ==
    g[0] = base /\ \A k \in 1..n : g[k] = T[k][g[k - 1]]

\* Iterating the steps over every subset of the indices, largest index last.
LEMMA FoldSubsets ==
    ASSUME NEW n \in Nat, NEW St, NEW base \in St, NEW T \in Steps(n, St)
    PROVE  \E it \in [SUBSET (1..n) -> St] : FoldsTo(it, n, base, T)
<1> USE DEF Steps
<1> DEFINE Fold(m, it) == \A s \in SUBSET (1..m) :
                 it[s] = IF s = {} THEN base ELSE T[Max(s)][it[s \ {Max(s)}]]
           P == {m \in 0..n : \E it \in [SUBSET (1..m) -> St] : Fold(m, it)}
<1>1. 0 \in P
  <2> DEFINE it == [s \in SUBSET (1..0) |-> base]
  <2>1. it \in [SUBSET (1..0) -> St]
    OBVIOUS
  <2>2. Fold(0, it)
    <3>1. \A s \in SUBSET (1..0) : s = {}
      OBVIOUS
    <3> QED BY <3>1
  <2>3. 0 \in 0..n
    OBVIOUS
  <2> HIDE DEF it, Fold
  <2> QED BY <2>1, <2>2, <2>3
<1>2. ASSUME NEW m \in 1..n, m - 1 \in P
      PROVE  m \in P
  <2>1. PICK it \in [SUBSET (1..(m - 1)) -> St] : Fold(m - 1, it)
    BY <1>2
  <2> DEFINE next == [s \in SUBSET (1..m) |-> IF m \in s THEN T[m][it[s \ {m}]] ELSE it[s]]
  <2>2. \A s \in SUBSET (1..m) : s \ {m} \in SUBSET (1..(m - 1)) /\ (m \notin s => s \in SUBSET (1..(m - 1)))
    BY <1>2
  <2>3. next \in [SUBSET (1..m) -> St]
    BY <2>1, <2>2
  <2>4. ASSUME NEW s \in SUBSET (1..m)
        PROVE  next[s] = IF s = {} THEN base ELSE T[Max(s)][next[s \ {Max(s)}]]
    <3>1. CASE m \in s
      <4>1. s \in SUBSET (0..m) /\ m \in Nat
        OBVIOUS
      <4>2. Max(s) = m
        <5>1. Max(s) \in s /\ m <= Max(s)
          BY <3>1, <4>1, MaxOfNaturals
        <5>2. Max(s) \in 1..m
          BY <5>1
        <5> QED BY <5>1, <5>2
      <4>3. s \ {m} \in SUBSET (1..m) /\ next[s \ {m}] = it[s \ {m}]
        BY <2>2
      <4> QED BY <3>1, <4>2, <4>3
    <3>2. CASE m \notin s
      <4>1. s \in SUBSET (1..(m - 1)) /\ next[s] = it[s]
        BY <2>2, <3>2
      <4>2. next[s \ {Max(s)}] = it[s \ {Max(s)}]
        BY <3>2
      <4> QED BY <2>1, <4>1, <4>2
    <3> QED BY <3>1, <3>2
  <2>5. Fold(m, next)
    BY <2>4
  <2> HIDE DEF next, Fold
  <2> QED BY <2>3, <2>5
<1>3. n \in P
  <2> HIDE DEF P
  <2>1. \A k \in 0..n : k \in P
    BY <1>1, <1>2, PrefixInduction
  <2> QED BY <2>1
<1> QED BY <1>3 DEF FoldsTo

\* A fold over a sequence is the last of the states that its steps go through.
LEMMA FoldPrefixes ==
    ASSUME NEW n \in Nat, NEW St, NEW base \in St, NEW T \in Steps(n, St), NEW f,
           FoldsWithin(f, n, St, base, T)
    PROVE  \E g \in [0..n -> St] : g[n] = f[1..n] /\ Unrolls(g, n, base, T)
<1> USE DEF Steps, FoldsWithin
<1> DEFINE P == {k \in 0..n : f[1..k] \in St}
           g == [k \in 0..n |-> f[1..k]]
<1>1. 1..0 = {}
  OBVIOUS
<1>2. ASSUME NEW k \in 1..n, k - 1 \in P
      PROVE  k \in P /\ f[1..k] = T[k][f[1..(k - 1)]]
  <2>1. 1..k \in SUBSET (0..n) /\ 1..k \in SUBSET (1..n) /\ k \in 1..k
    BY <1>2
  <2>2. Max(1..k) = k
    <3> DEFINE s == 1..k
    <3>1. s \in SUBSET (0..n) /\ k \in s
      BY <2>1
    <3>a. \A x \in s : x <= k /\ x \in Nat
      OBVIOUS
    <3> HIDE DEF s
    <3>2. Max(s) \in s /\ k <= Max(s)
      BY <3>1, MaxOfNaturals
    <3>3. Max(s) = k
      BY <3>a, <3>2
    <3> QED BY <3>3 DEF s
  <2>3. (1..k) \ {k} = 1..(k - 1)
    BY <1>2
  <2>4. f[1..(k - 1)] \in St
    BY <1>2
  <2>5. f[1..k] = T[k][f[1..(k - 1)]]
    BY <2>1, <2>2, <2>3, <2>4
  <2> QED BY <2>4, <2>5
<1>3. \A k \in 0..n : k \in P
  <2>1. 0 \in P
    BY <1>1
  <2> HIDE DEF P
  <2> QED BY <1>2, <2>1, PrefixInduction
<1>4. g \in [0..n -> St]
  BY <1>3
<1>5. g[0] = base /\ g[n] = f[1..n]
  BY <1>1
<1>6. ASSUME NEW k \in 1..n PROVE g[k] = T[k][g[k - 1]]
  <2>1. k - 1 \in 0..n /\ k \in 0..n
    OBVIOUS
  <2>2. k - 1 \in P
    BY <1>3, <2>1
  <2> HIDE DEF P
  <2>3. f[1..k] = T[k][f[1..(k - 1)]]
    BY <1>2, <2>2
  <2> QED BY <2>1, <2>3
<1> HIDE DEF g
<1> QED BY <1>4, <1>5, <1>6 DEF Unrolls

(***************************************************************************)
(* The hub.                                                                 *)
(***************************************************************************)
Change == [at : Nat, signal : Signal, previous : Logic, value : Logic]
Board == [net : [Signal -> [Driver -> Logic]], values : [Signal -> Logic], changes : Seq(Change)]

\* A reader who knows the values `shown` and the queued changes knows every value.
Tells(b, shown) ==
    /\ \A s \in Signal : (\A i \in 1..Len(b.changes) : b.changes[i].signal # s)
          => b.values[s] = shown[s]
    /\ \A i \in 1..Len(b.changes) :
          (\A j \in 1..Len(b.changes) : j > i => b.changes[j].signal # b.changes[i].signal)
          => b.values[b.changes[i].signal] = b.changes[i].value

\* The queued changes are in order of time, within the interval.
Ordered(changes, from, to) ==
    /\ \A i \in 1..Len(changes) : from <= changes[i].at /\ changes[i].at <= to
    /\ \A i, j \in 1..Len(changes) : i <= j => changes[i].at <= changes[j].at

Hub(shown, from, to) == {b \in Board : Tells(b, shown) /\ Ordered(b.changes, from, to)}

\* A net resolves to a logic value.
LEMMA ResolvedLogic ==
    ASSUME NEW net
    PROVE  Resolved(net) \in Logic
<1>1. \A driven : Resolve(driven) \in Logic
  BY DEF Resolve, Logic
<1> QED BY <1>1 DEF Resolved

\* The fields of a change.
LEMMA ChangeFields ==
    ASSUME NEW c \in Change
    PROVE  c.at \in Nat /\ c.signal \in Signal /\ c.previous \in Logic /\ c.value \in Logic
BY DEF Change

\* SignalHub::set keeps the queue in order and its reader informed.
LEMMA HubSetInHub ==
    ASSUME NEW shown \in [Signal -> Logic], NEW from \in Nat, NEW at \in Nat, from <= at,
           NEW b \in Hub(shown, from, at), NEW s \in Signal, NEW w \in Logic
    PROVE  HubSet(b, s, w, at) \in Hub(shown, from, at) /\ HubSet(b, s, w, at).net = b.net
<1> DEFINE c == [at |-> at, signal |-> s, previous |-> b.values[s], value |-> w]
           queue == Append(b.changes, c)
           h == [b EXCEPT !.values[s] = w, !.changes = queue]
<1>1. b \in Board /\ Tells(b, shown) /\ Ordered(b.changes, from, at)
  BY DEF Hub
<1>2. CASE b.values[s] = w
  BY <1>2 DEF HubSet
<1>3. CASE b.values[s] # w
  <2>1. HubSet(b, s, w, at) = h
    BY <1>3 DEF HubSet
  <2>2. b.changes \in Seq(Change) /\ b.values \in [Signal -> Logic]
    BY <1>1 DEF Board
  <2>3. c \in Change
    BY <2>2 DEF Change
  <2>4. /\ queue \in Seq(Change) /\ Len(queue) = Len(b.changes) + 1 /\ Len(b.changes) \in Nat
        /\ \A i \in 1..Len(b.changes) : queue[i] = b.changes[i]
        /\ queue[Len(b.changes) + 1] = c
    <3> HIDE DEF c
    <3> QED BY <2>2, <2>3, AppendProperties, LenProperties
  <2> DEFINE n == Len(b.changes)
  <2> HIDE DEF queue
  <2>5. h.net = b.net /\ h.changes = queue /\ h.values = [b.values EXCEPT ![s] = w]
    BY <1>1 DEF Board
  <2>6. h \in Board
    BY <1>1, <2>2, <2>4 DEF Board
  <2>7. c.signal = s /\ c.value = w /\ c.at = at
    OBVIOUS
  <2> HIDE DEF h, c
  <2>8. Tells(h, shown)
    <3>1. ASSUME NEW t \in Signal, \A i \in 1..(n + 1) : queue[i].signal # t
          PROVE  h.values[t] = shown[t]
      <4>1. t # s
        BY <2>4, <2>7, <3>1
      <4>2. \A i \in 1..n : b.changes[i].signal # t
        BY <2>4, <3>1
      <4>3. b.values[t] = shown[t]
        BY <1>1, <4>2 DEF Tells
      <4> QED BY <2>2, <2>5, <4>1, <4>3
    <3>2. ASSUME NEW i \in 1..(n + 1),
                 \A j \in 1..(n + 1) : j > i => queue[j].signal # queue[i].signal
          PROVE  h.values[queue[i].signal] = queue[i].value
      <4>1. CASE i = n + 1
        BY <2>2, <2>4, <2>5, <2>7, <4>1
      <4>2. CASE i # n + 1
        <5>1. i \in 1..n /\ queue[i] = b.changes[i] /\ n + 1 \in 1..(n + 1) /\ n + 1 > i
          BY <2>4, <4>2
        <5>2. queue[i].signal # s
          BY <2>4, <2>7, <3>2, <5>1
        <5>3. \A j \in 1..n : j > i => b.changes[j].signal # b.changes[i].signal
          BY <2>4, <3>2, <5>1
        <5>4. b.values[b.changes[i].signal] = b.changes[i].value
          BY <1>1, <5>1, <5>3 DEF Tells
        <5>5. b.changes[i].signal \in Signal
          BY <2>2, <5>1, ElementOfSeq, ChangeFields
        <5> QED BY <2>2, <2>5, <5>1, <5>2, <5>4, <5>5
      <4> QED BY <4>1, <4>2
    <3> QED BY <2>4, <2>5, <3>1, <3>2 DEF Tells
  <2>9. Ordered(queue, from, at)
    <3>1. \A i \in 1..n : b.changes[i].at \in Nat
      BY <2>2, ElementOfSeq, ChangeFields
    <3>2. \A i \in 1..(n + 1) : i # n + 1 => i \in 1..n
      BY <2>4
    <3>3. \A i \in 1..(n + 1) : from <= queue[i].at /\ queue[i].at <= at
      <4>1. ASSUME NEW i \in 1..n PROVE from <= queue[i].at /\ queue[i].at <= at
        BY <1>1, <2>4 DEF Ordered
      <4> QED BY <2>4, <2>7, <3>2, <4>1
    <3>4. ASSUME NEW i \in 1..(n + 1), NEW j \in 1..(n + 1), i <= j
          PROVE  queue[i].at <= queue[j].at
      <4>1. CASE j = n + 1
        BY <2>4, <2>7, <3>3, <4>1
      <4>2. CASE j # n + 1
        <5>1. i \in 1..n /\ j \in 1..n
          BY <2>4, <3>4, <4>2
        <5> QED BY <1>1, <2>4, <3>4, <5>1 DEF Ordered
      <4> QED BY <4>1, <4>2
    <3> QED BY <2>4, <3>3, <3>4 DEF Ordered
  <2> QED BY <2>1, <2>5, <2>6, <2>8, <2>9 DEF Hub
<1> QED BY <1>2, <1>3

\* Driving a net changes that driver of that net and nothing else.
LEMMA DriveInHub ==
    ASSUME NEW shown \in [Signal -> Logic], NEW from \in Nat, NEW at \in Nat, from <= at,
           NEW b \in Hub(shown, from, at), NEW s \in Signal, NEW d \in Driver, NEW v \in Logic
    PROVE  /\ Drive(b, s, d, v, at) \in Hub(shown, from, at)
           /\ \A t \in Signal, e \in Driver :
                 Drive(b, s, d, v, at).net[t][e] = IF t = s /\ e = d THEN v ELSE b.net[t][e]
<1> DEFINE driven == [b EXCEPT !.net[s][d] = v]
<1>1. b \in Board /\ Tells(b, shown) /\ Ordered(b.changes, from, at)
  BY DEF Hub
<1>2. /\ driven \in Board /\ driven.net = [b.net EXCEPT ![s][d] = v]
      /\ driven.values = b.values /\ driven.changes = b.changes
  BY <1>1 DEF Board
<1>3. Drive(b, s, d, v, at) = HubSet(driven, s, Resolved(driven.net[s]), at)
  BY DEF Drive
<1> HIDE DEF driven
<1>4. driven \in Hub(shown, from, at)
  BY <1>1, <1>2 DEF Hub, Tells
<1>5. Resolved(driven.net[s]) \in Logic
  BY ResolvedLogic
<1>6. \A t \in Signal, e \in Driver :
         driven.net[t][e] = IF t = s /\ e = d THEN v ELSE b.net[t][e]
  BY <1>1, <1>2 DEF Board
<1>7. /\ Drive(b, s, d, v, at) \in Hub(shown, from, at)
      /\ Drive(b, s, d, v, at).net = driven.net
  BY <1>3, <1>4, <1>5, HubSetInHub
<1> QED BY <1>6, <1>7

\* Signals of different pins and banks are different.
LEMMA SignalsDiffer ==
    /\ \A p, q : BoardSignal(p) # ChipSignal(q)
    /\ \A p, q : ChipSignal(p) = ChipSignal(q) => p = q
    /\ \A p, q : BoardSignal(p) = BoardSignal(q) => p = q
    /\ \A p \in BoardPin : BoardSignal(p) \in Signal
    /\ \A p \in ChipPin : ChipSignal(p) \in Signal
BY DEF BoardSignal, ChipSignal, Signal

\* The loop over the pins visits each chip pin.
LEMMA PinsInOrder ==
    \A k \in 1..ChipPins : /\ PinOrder[k] = k - 1 /\ PinOrder[k] \in ChipPin
                           /\ ChipSignal(PinOrder[k]) \in Signal
<1>1. \A k \in 1..ChipPins : PinOrder[k] = k - 1 /\ PinOrder[k] \in ChipPin
  BY PinsAssumption DEF PinOrder, ChipPin
<1> QED BY <1>1, SignalsDiffer

PadRegisters == [mux : {"sio", "pio"}, sio : Logic, pio : Logic, pull : Logic]
Stimulus == [at : Nat, pin : Nat, value : Logic]

\* What a pad drives is a logic value.
LEMMA DrivesOfPad ==
    ASSUME NEW pad \in PadRegisters
    PROVE  SioDrive(pad) \in Logic /\ PioDrive(pad) \in Logic /\ pad.pull \in Logic /\ pad.sio \in Logic
BY DEF SioDrive, PioDrive, PadRegisters, Logic

\* The fields of a stimulus.
LEMMA StimulusFields ==
    ASSUME NEW s \in Stimulus
    PROVE  s.at \in Nat /\ s.pin \in Nat /\ s.value \in Logic
BY DEF Stimulus

\* Setting a pin moves the external drivers of that pin only.
LEMMA SetPinInHub ==
    ASSUME NEW shown \in [Signal -> Logic], NEW from \in Nat, NEW at \in Nat, from <= at,
           NEW b \in Hub(shown, from, at), NEW s, s.pin \in BoardPin, s.value \in Logic
    PROVE  /\ SetPin(b, s, at) \in Hub(shown, from, at)
           /\ SetPin(b, s, at).net[BoardSignal(s.pin)]["external"] = s.value
           /\ \A t \in Signal, d \in Driver :
                 d # "external" \/ t \notin {BoardSignal(s.pin), ChipSignal(s.pin)} =>
                    SetPin(b, s, at).net[t][d] = b.net[t][d]
<1> DEFINE c == Drive(b, BoardSignal(s.pin), "external", s.value, at)
           e == Drive(c, ChipSignal(s.pin), "external", s.value, at)
<1>1. "external" \in Driver /\ BoardSignal(s.pin) \in Signal
  BY SignalsDiffer DEF Driver, StrongDriver
<1>2. /\ c \in Hub(shown, from, at)
      /\ \A t \in Signal, d \in Driver :
            c.net[t][d] = IF t = BoardSignal(s.pin) /\ d = "external" THEN s.value ELSE b.net[t][d]
  BY <1>1, DriveInHub
<1>3. SetPin(b, s, at) = IF s.pin \in ChipPin THEN e ELSE c
  BY DEF SetPin
<1> HIDE DEF c
<1>4. CASE s.pin \in ChipPin
  <2>1. ChipSignal(s.pin) \in Signal
    BY <1>4, SignalsDiffer
  <2>a. ASSUME NEW x \in Hub(shown, from, at)
        PROVE  /\ Drive(x, ChipSignal(s.pin), "external", s.value, at) \in Hub(shown, from, at)
               /\ \A t \in Signal, d \in Driver :
                     Drive(x, ChipSignal(s.pin), "external", s.value, at).net[t][d]
                        = IF t = ChipSignal(s.pin) /\ d = "external" THEN s.value ELSE x.net[t][d]
    BY <1>1, <2>1, DriveInHub
  <2>2. /\ e \in Hub(shown, from, at)
        /\ \A t \in Signal, d \in Driver :
              e.net[t][d] = IF t = ChipSignal(s.pin) /\ d = "external" THEN s.value ELSE c.net[t][d]
    BY <1>2, <2>a
  <2> HIDE DEF e
  <2> QED BY <1>1, <1>2, <1>3, <1>4, <2>1, <2>2, SignalsDiffer
<1>5. CASE s.pin \notin ChipPin
  BY <1>1, <1>2, <1>3, <1>5
<1> QED BY <1>4, <1>5

\* Replaying changes one at a time.
LEMMA ReplayUnrolled ==
    ASSUME NEW shown \in [Signal -> Logic], NEW changes \in Seq(Change)
    PROVE  \E g \in [0..Len(changes) -> [Signal -> Logic]] :
              /\ g[0] = shown /\ g[Len(changes)] = Replay(shown, changes)
              /\ \A k \in 1..Len(changes) : g[k] = [g[k - 1] EXCEPT ![changes[k].signal] = changes[k].value]
<1> DEFINE n == Len(changes)
           St == [Signal -> Logic]
           op(x, e) == [x EXCEPT ![e.signal] = e.value]
           T == [k \in 1..n |-> [x \in St |-> op(x, changes[k])]]
           F(f) == [s \in SUBSET (1..n) |-> IF s = {} THEN shown
                                            ELSE op(f[s \ {Max(s)}], changes[Max(s)])]
           f == CHOOSE f : f = F(f)
<1>1. n \in Nat /\ DOMAIN changes = 1..n
  BY LenProperties
<1>2. Replay(shown, changes) = f[1..n]
  BY <1>1 DEF Replay, FoldLeft, MapThenFoldSet
<1>3. \A s \in SUBSET (1..n) : s # {} => Max(s) \in 1..n
  BY <1>1, MaxOfIndices
<1>4. \A k \in 1..n : \A x \in St : op(x, changes[k]) \in St
  <2>1. ASSUME NEW k \in 1..n, NEW x \in St PROVE op(x, changes[k]) \in St
    <3>1. changes[k].signal \in Signal /\ changes[k].value \in Logic
      BY ElementOfSeq, ChangeFields
    <3> QED BY <3>1
  <2> QED BY <2>1
<1> HIDE DEF n
<1>5. shown \in St
  OBVIOUS
<1> HIDE DEF St
<1>6. T \in Steps(n, St)
  <2> HIDE DEF op
  <2> QED BY <1>4 DEF Steps
<1>7. f = F(f)
  <2>1. PICK it \in [SUBSET (1..n) -> St] : FoldsTo(it, n, shown, T)
    <3> HIDE DEF T
    <3> QED BY <1>1, <1>5, <1>6, FoldSubsets
  <2>2. it = F(it)
    <3> HIDE DEF op
    <3> QED BY <1>3, <2>1 DEF FoldsTo
  <2> HIDE DEF F
  <2> QED BY <2>2
<1>8. \A s \in SUBSET (1..n) :
         f[s] = IF s = {} THEN shown ELSE op(f[s \ {Max(s)}], changes[Max(s)])
  <2> DEFINE h == f
  <2>1. h = F(h)
    BY <1>7
  <2> HIDE DEF h, op
  <2>2. \A s \in SUBSET (1..n) :
           h[s] = IF s = {} THEN shown ELSE op(h[s \ {Max(s)}], changes[Max(s)])
    BY <2>1
  <2> QED BY <2>2 DEF h
<1> HIDE DEF f, op
<1>9. FoldsWithin(f, n, St, shown, T)
  BY <1>3, <1>8 DEF FoldsWithin
<1>10. PICK g \in [0..n -> St] : g[n] = f[1..n] /\ Unrolls(g, n, shown, T)
  <2> HIDE DEF T
  <2> QED BY <1>1, <1>5, <1>6, <1>9, FoldPrefixes
<1>11. \A k \in 1..n : k - 1 \in 0..n
  BY <1>1
<1>12. g[0] = shown /\ \A k \in 1..n : g[k] = op(g[k - 1], changes[k])
  BY <1>10, <1>11 DEF Unrolls
<1>13. g[n] = Replay(shown, changes)
  BY <1>2, <1>10
<1> QED BY <1>10, <1>12, <1>13 DEF n, St, op

\* The first match is kept.
LEMMA MatchUnrolled ==
    ASSUME NEW changes, NEW count \in Nat, DOMAIN changes = 1..count
    PROVE  \E g \in [0..count -> ({None} \cup {MatchingStop(changes[i]) : i \in 1..count})] :
              /\ g[0] = None /\ g[count] = FirstMatch(changes)
              /\ \A k \in 1..count : g[k] = IF g[k - 1] = None THEN MatchingStop(changes[k]) ELSE g[k - 1]
<1> DEFINE n == count
           St == ({None} \cup {MatchingStop(changes[i]) : i \in 1..count})
           op(x, e) == IF x = None THEN MatchingStop(e) ELSE x
           T == [k \in 1..n |-> [x \in St |-> op(x, changes[k])]]
           F(f) == [s \in SUBSET (1..n) |-> IF s = {} THEN None
                                            ELSE op(f[s \ {Max(s)}], changes[Max(s)])]
           f == CHOOSE f : f = F(f)
<1>1. n \in Nat /\ DOMAIN changes = 1..n
  OBVIOUS
<1>2. FirstMatch(changes) = f[1..n]
  BY <1>1 DEF FirstMatch, FoldLeft, MapThenFoldSet
<1>3. \A s \in SUBSET (1..n) : s # {} => Max(s) \in 1..n
  BY <1>1, MaxOfIndices
<1>4. \A k \in 1..n : \A x \in St : op(x, changes[k]) \in St
  OBVIOUS
<1> HIDE DEF n
<1>5. None \in St
  OBVIOUS
<1> HIDE DEF St
<1>6. T \in Steps(n, St)
  <2> HIDE DEF op
  <2> QED BY <1>4 DEF Steps
<1>7. f = F(f)
  <2>1. PICK it \in [SUBSET (1..n) -> St] : FoldsTo(it, n, None, T)
    <3> HIDE DEF T
    <3> QED BY <1>1, <1>5, <1>6, FoldSubsets
  <2>2. it = F(it)
    <3> HIDE DEF op
    <3> QED BY <1>3, <2>1 DEF FoldsTo
  <2> HIDE DEF F
  <2> QED BY <2>2
<1>8. \A s \in SUBSET (1..n) :
         f[s] = IF s = {} THEN None ELSE op(f[s \ {Max(s)}], changes[Max(s)])
  <2> DEFINE h == f
  <2>1. h = F(h)
    BY <1>7
  <2> HIDE DEF h, op
  <2>2. \A s \in SUBSET (1..n) :
           h[s] = IF s = {} THEN None ELSE op(h[s \ {Max(s)}], changes[Max(s)])
    BY <2>1
  <2> QED BY <2>2 DEF h
<1> HIDE DEF f, op
<1>9. FoldsWithin(f, n, St, None, T)
  BY <1>3, <1>8 DEF FoldsWithin
<1>10. PICK g \in [0..n -> St] : g[n] = f[1..n] /\ Unrolls(g, n, None, T)
  <2> HIDE DEF T
  <2> QED BY <1>1, <1>5, <1>6, <1>9, FoldPrefixes
<1>11. \A k \in 1..n : k - 1 \in 0..n
  BY <1>1
<1>12. g[0] = None /\ \A k \in 1..n : g[k] = op(g[k - 1], changes[k])
  BY <1>10, <1>11 DEF Unrolls
<1>13. g[n] = FirstMatch(changes)
  BY <1>2, <1>10
<1> QED BY <1>10, <1>12, <1>13 DEF n, St, op

\* Driving one driver of every pin of the chip.
LEMMA EachUnrolled ==
    ASSUME NEW shown \in [Signal -> Logic], NEW from \in Nat, NEW at \in Nat, from <= at,
           NEW b \in Hub(shown, from, at),
           NEW driver \in Driver, NEW value \in [ChipPin -> Logic]
    PROVE  \E g \in [0..ChipPins -> Hub(shown, from, at)] :
              /\ g[0] = b /\ g[ChipPins] = DriveEach(b, driver, value, at)
              /\ \A k \in 1..ChipPins :
                    g[k] = Drive(g[k - 1], ChipSignal(PinOrder[k]), driver, value[PinOrder[k]], at)
<1> DEFINE n == ChipPins
           St == Hub(shown, from, at)
           op(x, e) == Drive(x, ChipSignal(e), driver, value[e], at)
           T == [k \in 1..n |-> [x \in St |-> op(x, PinOrder[k])]]
           F(f) == [s \in SUBSET (1..n) |-> IF s = {} THEN b
                                            ELSE op(f[s \ {Max(s)}], PinOrder[Max(s)])]
           f == CHOOSE f : f = F(f)
<1>1. n \in Nat /\ DOMAIN PinOrder = 1..n
  BY PinsAssumption DEF PinOrder
<1>2. DriveEach(b, driver, value, at) = f[1..n]
  BY <1>1 DEF DriveEach, FoldLeft, MapThenFoldSet
<1>3. \A s \in SUBSET (1..n) : s # {} => Max(s) \in 1..n
  BY <1>1, MaxOfIndices
<1>4. \A k \in 1..n : \A x \in St : op(x, PinOrder[k]) \in St
  BY PinsInOrder, DriveInHub
<1> HIDE DEF n
<1>5. b \in St
  OBVIOUS
<1> HIDE DEF St
<1>6. T \in Steps(n, St)
  <2> HIDE DEF op
  <2> QED BY <1>4 DEF Steps
<1>7. f = F(f)
  <2>1. PICK it \in [SUBSET (1..n) -> St] : FoldsTo(it, n, b, T)
    <3> HIDE DEF T
    <3> QED BY <1>1, <1>5, <1>6, FoldSubsets
  <2>2. it = F(it)
    <3> HIDE DEF op
    <3> QED BY <1>3, <2>1 DEF FoldsTo
  <2> HIDE DEF F
  <2> QED BY <2>2
<1>8. \A s \in SUBSET (1..n) :
         f[s] = IF s = {} THEN b ELSE op(f[s \ {Max(s)}], PinOrder[Max(s)])
  <2> DEFINE h == f
  <2>1. h = F(h)
    BY <1>7
  <2> HIDE DEF h, op
  <2>2. \A s \in SUBSET (1..n) :
           h[s] = IF s = {} THEN b ELSE op(h[s \ {Max(s)}], PinOrder[Max(s)])
    BY <2>1
  <2> QED BY <2>2 DEF h
<1> HIDE DEF f, op
<1>9. FoldsWithin(f, n, St, b, T)
  BY <1>3, <1>8 DEF FoldsWithin
<1>10. PICK g \in [0..n -> St] : g[n] = f[1..n] /\ Unrolls(g, n, b, T)
  <2> HIDE DEF T
  <2> QED BY <1>1, <1>5, <1>6, <1>9, FoldPrefixes
<1>11. \A k \in 1..n : k - 1 \in 0..n
  BY <1>1
<1>12. g[0] = b /\ \A k \in 1..n : g[k] = op(g[k - 1], PinOrder[k])
  BY <1>10, <1>11 DEF Unrolls
<1>13. g[n] = DriveEach(b, driver, value, at)
  BY <1>2, <1>10
<1> QED BY <1>10, <1>12, <1>13 DEF n, St, op

\* Driving the SIO latch and the PIO output of every pin.
LEMMA SelectUnrolled ==
    ASSUME NEW shown \in [Signal -> Logic], NEW from \in Nat, NEW at \in Nat, from <= at,
           NEW b \in Hub(shown, from, at),
           NEW regs \in [ChipPin -> PadRegisters]
    PROVE  \E g \in [0..ChipPins -> Hub(shown, from, at)] :
              /\ g[0] = b /\ g[ChipPins] = SelectEach(b, regs, at)
              /\ \A k \in 1..ChipPins :
                    g[k] = Drive(Drive(g[k - 1], ChipSignal(PinOrder[k]), "sio",
                                       SioDrive(regs[PinOrder[k]]), at),
                                 ChipSignal(PinOrder[k]), "pio", PioDrive(regs[PinOrder[k]]), at)
<1> DEFINE n == ChipPins
           St == Hub(shown, from, at)
           op(x, e) == Drive(Drive(x, ChipSignal(e), "sio", SioDrive(regs[e]), at),
                            ChipSignal(e), "pio", PioDrive(regs[e]), at)
           T == [k \in 1..n |-> [x \in St |-> op(x, PinOrder[k])]]
           F(f) == [s \in SUBSET (1..n) |-> IF s = {} THEN b
                                            ELSE op(f[s \ {Max(s)}], PinOrder[Max(s)])]
           f == CHOOSE f : f = F(f)
<1>1. n \in Nat /\ DOMAIN PinOrder = 1..n
  BY PinsAssumption DEF PinOrder
<1>2. SelectEach(b, regs, at) = f[1..n]
  BY <1>1 DEF SelectEach, FoldLeft, MapThenFoldSet
<1>3. \A s \in SUBSET (1..n) : s # {} => Max(s) \in 1..n
  BY <1>1, MaxOfIndices
<1>4. \A k \in 1..n : \A x \in St : op(x, PinOrder[k]) \in St
  BY PinsInOrder, DrivesOfPad, DriveInHub DEF Driver, StrongDriver
<1> HIDE DEF n
<1>5. b \in St
  OBVIOUS
<1> HIDE DEF St
<1>6. T \in Steps(n, St)
  <2> HIDE DEF op
  <2> QED BY <1>4 DEF Steps
<1>7. f = F(f)
  <2>1. PICK it \in [SUBSET (1..n) -> St] : FoldsTo(it, n, b, T)
    <3> HIDE DEF T
    <3> QED BY <1>1, <1>5, <1>6, FoldSubsets
  <2>2. it = F(it)
    <3> HIDE DEF op
    <3> QED BY <1>3, <2>1 DEF FoldsTo
  <2> HIDE DEF F
  <2> QED BY <2>2
<1>8. \A s \in SUBSET (1..n) :
         f[s] = IF s = {} THEN b ELSE op(f[s \ {Max(s)}], PinOrder[Max(s)])
  <2> DEFINE h == f
  <2>1. h = F(h)
    BY <1>7
  <2> HIDE DEF h, op
  <2>2. \A s \in SUBSET (1..n) :
           h[s] = IF s = {} THEN b ELSE op(h[s \ {Max(s)}], PinOrder[Max(s)])
    BY <2>1
  <2> QED BY <2>2 DEF h
<1> HIDE DEF f, op
<1>9. FoldsWithin(f, n, St, b, T)
  BY <1>3, <1>8 DEF FoldsWithin
<1>10. PICK g \in [0..n -> St] : g[n] = f[1..n] /\ Unrolls(g, n, b, T)
  <2> HIDE DEF T
  <2> QED BY <1>1, <1>5, <1>6, <1>9, FoldPrefixes
<1>11. \A k \in 1..n : k - 1 \in 0..n
  BY <1>1
<1>12. g[0] = b /\ \A k \in 1..n : g[k] = op(g[k - 1], PinOrder[k])
  BY <1>10, <1>11 DEF Unrolls
<1>13. g[n] = SelectEach(b, regs, at)
  BY <1>2, <1>10
<1> QED BY <1>10, <1>12, <1>13 DEF n, St, op

\* Applying stimuli one at a time.
LEMMA ApplyUnrolled ==
    ASSUME NEW shown \in [Signal -> Logic], NEW from \in Nat, NEW at \in Nat, from <= at,
           NEW b \in Hub(shown, from, at),
           NEW stimuli \in Seq(Stimulus), \A i \in 1..Len(stimuli) : stimuli[i].pin \in BoardPin
    PROVE  \E g \in [0..Len(stimuli) -> Hub(shown, from, at)] :
              /\ g[0] = b /\ g[Len(stimuli)] = Apply(b, stimuli, at)
              /\ \A k \in 1..Len(stimuli) : g[k] = SetPin(g[k - 1], stimuli[k], at)
<1> DEFINE n == Len(stimuli)
           St == Hub(shown, from, at)
           op(x, e) == SetPin(x, e, at)
           T == [k \in 1..n |-> [x \in St |-> op(x, stimuli[k])]]
           F(f) == [s \in SUBSET (1..n) |-> IF s = {} THEN b
                                            ELSE op(f[s \ {Max(s)}], stimuli[Max(s)])]
           f == CHOOSE f : f = F(f)
<1>1. n \in Nat /\ DOMAIN stimuli = 1..n
  BY LenProperties
<1>2. Apply(b, stimuli, at) = f[1..n]
  BY <1>1 DEF Apply, FoldLeft, MapThenFoldSet
<1>3. \A s \in SUBSET (1..n) : s # {} => Max(s) \in 1..n
  BY <1>1, MaxOfIndices
<1>4. \A k \in 1..n : \A x \in St : op(x, stimuli[k]) \in St
  BY ElementOfSeq, StimulusFields, SetPinInHub
<1> HIDE DEF n
<1>5. b \in St
  OBVIOUS
<1> HIDE DEF St
<1>6. T \in Steps(n, St)
  <2> HIDE DEF op
  <2> QED BY <1>4 DEF Steps
<1>7. f = F(f)
  <2>1. PICK it \in [SUBSET (1..n) -> St] : FoldsTo(it, n, b, T)
    <3> HIDE DEF T
    <3> QED BY <1>1, <1>5, <1>6, FoldSubsets
  <2>2. it = F(it)
    <3> HIDE DEF op
    <3> QED BY <1>3, <2>1 DEF FoldsTo
  <2> HIDE DEF F
  <2> QED BY <2>2
<1>8. \A s \in SUBSET (1..n) :
         f[s] = IF s = {} THEN b ELSE op(f[s \ {Max(s)}], stimuli[Max(s)])
  <2> DEFINE h == f
  <2>1. h = F(h)
    BY <1>7
  <2> HIDE DEF h, op
  <2>2. \A s \in SUBSET (1..n) :
           h[s] = IF s = {} THEN b ELSE op(h[s \ {Max(s)}], stimuli[Max(s)])
    BY <2>1
  <2> QED BY <2>2 DEF h
<1> HIDE DEF f, op
<1>9. FoldsWithin(f, n, St, b, T)
  BY <1>3, <1>8 DEF FoldsWithin
<1>10. PICK g \in [0..n -> St] : g[n] = f[1..n] /\ Unrolls(g, n, b, T)
  <2> HIDE DEF T
  <2> QED BY <1>1, <1>5, <1>6, <1>9, FoldPrefixes
<1>11. \A k \in 1..n : k - 1 \in 0..n
  BY <1>1
<1>12. g[0] = b /\ \A k \in 1..n : g[k] = op(g[k - 1], stimuli[k])
  BY <1>10, <1>11 DEF Unrolls
<1>13. g[n] = Apply(b, stimuli, at)
  BY <1>2, <1>10
<1> QED BY <1>10, <1>12, <1>13 DEF n, St, op

\* Min of the community modules, on natural numbers.
LEMMA MinOfNaturals ==
    ASSUME NEW S \in SUBSET Nat, S # {}
    PROVE  Min(S) \in S /\ \A y \in S : Min(S) <= y
<1>1. \E x \in S : \A y \in S : x =< y
  BY LeastNatural
<1> QED BY <1>1 DEF Min

\* DriveEach drives every pin, and touches no other driver and no other bank.
LEMMA EachDriven ==
    ASSUME NEW shown \in [Signal -> Logic], NEW from \in Nat, NEW at \in Nat, from <= at,
           NEW b \in Hub(shown, from, at),
           NEW driver \in Driver, NEW value \in [ChipPin -> Logic]
    PROVE  LET c == DriveEach(b, driver, value, at)
           IN  /\ c \in Hub(shown, from, at)
               /\ \A p \in ChipPin : c.net[ChipSignal(p)][driver] = value[p]
               /\ \A t \in Signal, d \in Driver :
                     d # driver \/ (\A p \in ChipPin : t # ChipSignal(p)) => c.net[t][d] = b.net[t][d]
<1>1. PICK g \in [0..ChipPins -> Hub(shown, from, at)] :
              /\ g[0] = b /\ g[ChipPins] = DriveEach(b, driver, value, at)
              /\ \A k \in 1..ChipPins :
                    g[k] = Drive(g[k - 1], ChipSignal(PinOrder[k]), driver, value[PinOrder[k]], at)
  BY EachUnrolled
<1> DEFINE Kept(k) == \A t \in Signal, d \in Driver :
               d # driver \/ (\A p \in ChipPin : t # ChipSignal(p)) => g[k].net[t][d] = b.net[t][d]
           Driven(k) == \A p \in ChipPin : p < k => g[k].net[ChipSignal(p)][driver] = value[p]
           P == {k \in 0..ChipPins : Kept(k) /\ Driven(k)}
<1>2. ChipPins \in Nat /\ \A p \in ChipPin : p \in Nat /\ p < ChipPins
  BY PinsAssumption DEF ChipPin
<1>3. 0 \in P
  BY <1>1, <1>2
<1>4. ASSUME NEW k \in 1..ChipPins, k - 1 \in P
      PROVE  k \in P
  <2>1. /\ PinOrder[k] = k - 1 /\ PinOrder[k] \in ChipPin /\ ChipSignal(PinOrder[k]) \in Signal
        /\ g[k - 1] \in Hub(shown, from, at)
    BY <1>1, <1>2, PinsInOrder
  <2>2. \A t \in Signal, d \in Driver :
           g[k].net[t][d] = IF t = ChipSignal(k - 1) /\ d = driver THEN value[k - 1]
                            ELSE g[k - 1].net[t][d]
    BY <1>1, <2>1, DriveInHub
  <2>3. Kept(k)
    BY <1>4, <2>1, <2>2
  <2>4. Driven(k)
    <3> SUFFICES ASSUME NEW p \in ChipPin, p < k PROVE g[k].net[ChipSignal(p)][driver] = value[p]
      OBVIOUS
    <3>1. ChipSignal(p) \in Signal
      BY SignalsDiffer
    <3>2. CASE p = k - 1
      BY <2>2, <3>1, <3>2
    <3>3. CASE p # k - 1
      <4>1. p < k - 1 /\ ChipSignal(p) # ChipSignal(k - 1)
        BY <1>2, <3>3, SignalsDiffer
      <4> QED BY <1>4, <2>2, <3>1, <4>1
    <3> QED BY <3>2, <3>3
  <2> QED BY <2>3, <2>4
<1>5. ChipPins \in P
  <2> HIDE DEF P
  <2>1. \A k \in 0..ChipPins : k \in P
    BY <1>2, <1>3, <1>4, PrefixInduction
  <2> QED BY <1>2, <2>1
<1> QED BY <1>1, <1>2, <1>5

\* SelectEach leaves every pad driven by what the multiplexer selects.
LEMMA EachSelected ==
    ASSUME NEW shown \in [Signal -> Logic], NEW from \in Nat, NEW at \in Nat, from <= at,
           NEW b \in Hub(shown, from, at), NEW regs \in [ChipPin -> PadRegisters]
    PROVE  LET c == SelectEach(b, regs, at)
           IN  /\ c \in Hub(shown, from, at)
               /\ \A p \in ChipPin : /\ c.net[ChipSignal(p)]["sio"] = SioDrive(regs[p])
                                     /\ c.net[ChipSignal(p)]["pio"] = PioDrive(regs[p])
               /\ \A t \in Signal, d \in Driver :
                     d # "sio" /\ d # "pio" => c.net[t][d] = b.net[t][d]
<1>1. PICK g \in [0..ChipPins -> Hub(shown, from, at)] :
              /\ g[0] = b /\ g[ChipPins] = SelectEach(b, regs, at)
              /\ \A k \in 1..ChipPins :
                    g[k] = Drive(Drive(g[k - 1], ChipSignal(PinOrder[k]), "sio",
                                       SioDrive(regs[PinOrder[k]]), at),
                                 ChipSignal(PinOrder[k]), "pio", PioDrive(regs[PinOrder[k]]), at)
  BY SelectUnrolled
<1> DEFINE Kept(k) == \A t \in Signal, d \in Driver :
                         d # "sio" /\ d # "pio" => g[k].net[t][d] = b.net[t][d]
           Driven(k) == \A p \in ChipPin : p < k =>
                           /\ g[k].net[ChipSignal(p)]["sio"] = SioDrive(regs[p])
                           /\ g[k].net[ChipSignal(p)]["pio"] = PioDrive(regs[p])
           P == {k \in 0..ChipPins : Kept(k) /\ Driven(k)}
<1>2. ChipPins \in Nat /\ (\A p \in ChipPin : p \in Nat /\ p < ChipPins)
      /\ "sio" \in Driver /\ "pio" \in Driver
  BY PinsAssumption DEF ChipPin, Driver, StrongDriver
<1>3. 0 \in P
  BY <1>1, <1>2
<1>4. ASSUME NEW k \in 1..ChipPins, k - 1 \in P
      PROVE  k \in P
  <2> DEFINE s == ChipSignal(k - 1)
             sv == SioDrive(regs[k - 1])
             pv == PioDrive(regs[k - 1])
             mid == Drive(g[k - 1], s, "sio", sv, at)
  <2>1. /\ PinOrder[k] = k - 1 /\ k - 1 \in ChipPin /\ s \in Signal
        /\ g[k - 1] \in Hub(shown, from, at)
    <3>1. PinOrder[k] = k - 1 /\ k - 1 \in ChipPin
      BY PinsInOrder
    <3>2. s \in Signal
      BY <3>1, SignalsDiffer
    <3>3. k - 1 \in 0..ChipPins
      BY <1>2
    <3> QED BY <1>1, <3>1, <3>2, <3>3
  <2>2. sv \in Logic /\ pv \in Logic
    BY <2>1, DrivesOfPad
  <2>3. g[k] = Drive(mid, s, "pio", pv, at)
    BY <1>1, <2>1
  <2> HIDE DEF s, sv, pv
  <2>4. /\ mid \in Hub(shown, from, at)
        /\ \A t \in Signal, d \in Driver :
              mid.net[t][d] = IF t = s /\ d = "sio" THEN sv ELSE g[k - 1].net[t][d]
    BY <1>2, <2>1, <2>2, DriveInHub
  <2> HIDE DEF mid
  <2>5. \A t \in Signal, d \in Driver :
           g[k].net[t][d] = IF t = s /\ d = "pio" THEN pv ELSE mid.net[t][d]
    BY <1>2, <2>1, <2>2, <2>3, <2>4, DriveInHub
  <2>6. Kept(k)
    BY <1>4, <2>4, <2>5
  <2>7. Driven(k)
    <3> SUFFICES ASSUME NEW p \in ChipPin, p < k
                 PROVE  /\ g[k].net[ChipSignal(p)]["sio"] = SioDrive(regs[p])
                        /\ g[k].net[ChipSignal(p)]["pio"] = PioDrive(regs[p])
      OBVIOUS
    <3>1. ChipSignal(p) \in Signal
      BY SignalsDiffer
    <3>2. CASE p = k - 1
      <4>1. s = ChipSignal(p) /\ sv = SioDrive(regs[p]) /\ pv = PioDrive(regs[p])
        BY <3>2 DEF s, sv, pv
      <4> QED BY <1>2, <2>4, <2>5, <3>1, <4>1
    <3>3. CASE p # k - 1
      <4>1. p < k - 1 /\ ChipSignal(p) # s
        BY <1>2, <3>3, SignalsDiffer DEF s
      <4> QED BY <1>2, <1>4, <2>4, <2>5, <3>1, <4>1
    <3> QED BY <3>2, <3>3
  <2> QED BY <2>6, <2>7
<1>5. ChipPins \in P
  <2> HIDE DEF P
  <2>1. \A k \in 0..ChipPins : k \in P
    BY <1>2, <1>3, <1>4, PrefixInduction
  <2> QED BY <1>2, <2>1
<1> QED BY <1>1, <1>2, <1>5

\* Every pad is driven by what the multiplexer selects from the registers.
PadsMatch(net, regs) ==
    \A p \in ChipPin : /\ net[ChipSignal(p)]["pull"] = regs[p].pull
                       /\ net[ChipSignal(p)]["sio"] = SioDrive(regs[p])
                       /\ net[ChipSignal(p)]["pio"] = PioDrive(regs[p])

\* refresh_pio_dma_requests settles the pads and leaves external drivers alone.
LEMMA RefreshSettles ==
    ASSUME NEW shown \in [Signal -> Logic], NEW from \in Nat, NEW at \in Nat, from <= at,
           NEW b \in Hub(shown, from, at), NEW regs \in [ChipPin -> PadRegisters]
    PROVE  /\ Refresh(b, regs, at) \in Hub(shown, from, at)
           /\ PadsMatch(Refresh(b, regs, at).net, regs)
           /\ \A t \in Signal : Refresh(b, regs, at).net[t]["external"] = b.net[t]["external"]
<1> DEFINE pulls == [p \in ChipPin |-> regs[p].pull]
           c == DriveEach(b, "pull", pulls, at)
<1>1. pulls \in [ChipPin -> Logic]
  BY DrivesOfPad
<1>2. "pull" \in Driver /\ "external" \in Driver
  BY DEF Driver, StrongDriver, WeakDriver
<1>3. \A p \in ChipPin : pulls[p] = regs[p].pull /\ ChipSignal(p) \in Signal
  BY SignalsDiffer
<1>4. Refresh(b, regs, at) = SelectEach(c, regs, at)
  BY DEF Refresh
<1> HIDE DEF pulls
<1>5. /\ c \in Hub(shown, from, at)
      /\ \A p \in ChipPin : c.net[ChipSignal(p)]["pull"] = pulls[p]
      /\ \A t \in Signal, d \in Driver : d # "pull" => c.net[t][d] = b.net[t][d]
  BY <1>1, <1>2, EachDriven
<1> HIDE DEF c
<1>6. /\ SelectEach(c, regs, at) \in Hub(shown, from, at)
      /\ \A p \in ChipPin : /\ SelectEach(c, regs, at).net[ChipSignal(p)]["sio"] = SioDrive(regs[p])
                            /\ SelectEach(c, regs, at).net[ChipSignal(p)]["pio"] = PioDrive(regs[p])
      /\ \A t \in Signal, d \in Driver : d # "sio" /\ d # "pio" =>
            SelectEach(c, regs, at).net[t][d] = c.net[t][d]
  <2>1. ASSUME NEW x \in Hub(shown, from, at)
        PROVE  /\ SelectEach(x, regs, at) \in Hub(shown, from, at)
               /\ \A p \in ChipPin :
                     /\ SelectEach(x, regs, at).net[ChipSignal(p)]["sio"] = SioDrive(regs[p])
                     /\ SelectEach(x, regs, at).net[ChipSignal(p)]["pio"] = PioDrive(regs[p])
               /\ \A t \in Signal, d \in Driver : d # "sio" /\ d # "pio" =>
                     SelectEach(x, regs, at).net[t][d] = x.net[t][d]
    BY EachSelected
  <2> QED BY <1>5, <2>1
<1> QED BY <1>2, <1>3, <1>4, <1>5, <1>6 DEF PadsMatch

\* apply_stimuli leaves each pin with the last value given to it, and touches
\* nothing but external drivers.
LEMMA ApplyKeepsLast ==
    ASSUME NEW shown \in [Signal -> Logic], NEW from \in Nat, NEW at \in Nat, from <= at,
           NEW b \in Hub(shown, from, at),
           NEW stimuli \in Seq(Stimulus), \A i \in 1..Len(stimuli) : stimuli[i].pin \in BoardPin
    PROVE  LET c == Apply(b, stimuli, at)
           IN  /\ c \in Hub(shown, from, at)
               /\ \A t \in Signal, d \in Driver \ {"external"} : c.net[t][d] = b.net[t][d]
               /\ \A p \in BoardPin : (\A i \in 1..Len(stimuli) : stimuli[i].pin # p) =>
                     c.net[BoardSignal(p)]["external"] = b.net[BoardSignal(p)]["external"]
               /\ \A i \in 1..Len(stimuli) :
                     (\A j \in 1..Len(stimuli) : j > i => stimuli[j].pin # stimuli[i].pin) =>
                        c.net[BoardSignal(stimuli[i].pin)]["external"] = stimuli[i].value
<1> DEFINE n == Len(stimuli)
<1>1. PICK g \in [0..n -> Hub(shown, from, at)] :
              /\ g[0] = b /\ g[n] = Apply(b, stimuli, at)
              /\ \A k \in 1..n : g[k] = SetPin(g[k - 1], stimuli[k], at)
  BY ApplyUnrolled
<1>2. n \in Nat /\ \A i \in 1..n : stimuli[i].pin \in BoardPin /\ stimuli[i].value \in Logic
  BY LenProperties, ElementOfSeq, StimulusFields
<1> HIDE DEF n
<1>3. "external" \in Driver /\ \A p \in BoardPin : BoardSignal(p) \in Signal
  BY SignalsDiffer DEF Driver, StrongDriver
<1> DEFINE Kept(k) == \A t \in Signal, d \in Driver \ {"external"} : g[k].net[t][d] = b.net[t][d]
           Same(k) == \A p \in BoardPin : (\A i \in 1..k : stimuli[i].pin # p) =>
                     g[k].net[BoardSignal(p)]["external"] = b.net[BoardSignal(p)]["external"]
           LastWins(k) == \A i \in 1..k :
                     (\A j \in 1..k : j > i => stimuli[j].pin # stimuli[i].pin) =>
                        g[k].net[BoardSignal(stimuli[i].pin)]["external"] = stimuli[i].value
           P == {k \in 0..n : Kept(k) /\ Same(k) /\ LastWins(k)}
<1>4. 0 \in P
  BY <1>1, <1>2
<1>5. ASSUME NEW k \in 1..n, k - 1 \in P
      PROVE  k \in P
  <2>1. g[k - 1] \in Hub(shown, from, at) /\ k \in 1..k /\ 1..(k - 1) \subseteq 1..k
        /\ \A i \in 1..k : i # k => i \in 1..(k - 1) /\ k > i
    BY <1>1, <1>2
  <2>2. /\ g[k].net[BoardSignal(stimuli[k].pin)]["external"] = stimuli[k].value
        /\ \A t \in Signal, d \in Driver :
              d # "external" \/ t \notin {BoardSignal(stimuli[k].pin), ChipSignal(stimuli[k].pin)} =>
                    g[k].net[t][d] = g[k - 1].net[t][d]
    <3>1. stimuli[k].pin \in BoardPin /\ stimuli[k].value \in Logic
      BY <1>2
    <3>2. ASSUME NEW x \in Hub(shown, from, at)
          PROVE  /\ SetPin(x, stimuli[k], at).net[BoardSignal(stimuli[k].pin)]["external"]
                       = stimuli[k].value
                 /\ \A t \in Signal, d \in Driver :
                       d # "external"
                       \/ t \notin {BoardSignal(stimuli[k].pin), ChipSignal(stimuli[k].pin)} =>
                             SetPin(x, stimuli[k], at).net[t][d] = x.net[t][d]
      BY <3>1, SetPinInHub
    <3> QED BY <1>1, <2>1, <3>2
  <2>3. \A p \in BoardPin : p # stimuli[k].pin =>
           g[k].net[BoardSignal(p)]["external"] = g[k - 1].net[BoardSignal(p)]["external"]
    BY <1>3, <2>2, SignalsDiffer
  <2>4. Kept(k)
    BY <1>5, <2>2
  <2>5. Same(k)
    BY <1>5, <2>1, <2>3
  <2>6. LastWins(k)
    <3> SUFFICES ASSUME NEW i \in 1..k, \A j \in 1..k : j > i => stimuli[j].pin # stimuli[i].pin
                 PROVE  g[k].net[BoardSignal(stimuli[i].pin)]["external"] = stimuli[i].value
      OBVIOUS
    <3>1. CASE i = k
      BY <2>2, <3>1
    <3>2. CASE i # k
      <4>1. i \in 1..(k - 1) /\ stimuli[k].pin # stimuli[i].pin
            /\ \A j \in 1..(k - 1) : j > i => stimuli[j].pin # stimuli[i].pin
        BY <2>1, <3>2
      <4>2. stimuli[i].pin \in BoardPin
        BY <1>2, <4>1
      <4> QED BY <1>5, <2>3, <4>1, <4>2
    <3> QED BY <3>1, <3>2
  <2> QED BY <2>4, <2>5, <2>6
<1>6. n \in P
  <2> HIDE DEF P
  <2>1. \A k \in 0..n : k \in P
    BY <1>2, <1>4, <1>5, PrefixInduction
  <2> QED BY <1>2, <2>1
<1> QED BY <1>1, <1>2, <1>6 DEF n

\* Whoever has the values shown and the queued changes has the current values.
LEMMA ReplayTells ==
    ASSUME NEW shown \in [Signal -> Logic], NEW from, NEW at, NEW b \in Hub(shown, from, at)
    PROVE  Replay(shown, b.changes) = b.values
<1> DEFINE changes == b.changes
           n == Len(changes)
<1>1. b \in Board /\ Tells(b, shown)
  BY DEF Hub
<1>2. changes \in Seq(Change) /\ b.values \in [Signal -> Logic]
  BY <1>1 DEF Board
<1>3. n \in Nat /\ \A i \in 1..n : changes[i].signal \in Signal
  BY <1>2, LenProperties, ElementOfSeq, ChangeFields
<1>a. /\ \A s \in Signal : (\A i \in 1..n : changes[i].signal # s) => b.values[s] = shown[s]
      /\ \A i \in 1..n : (\A j \in 1..n : j > i => changes[j].signal # changes[i].signal)
            => b.values[changes[i].signal] = changes[i].value
  BY <1>1 DEF Tells
<1> HIDE DEF changes
<1>4. PICK g \in [0..n -> [Signal -> Logic]] :
              /\ g[0] = shown /\ g[n] = Replay(shown, changes)
              /\ \A k \in 1..n : g[k] = [g[k - 1] EXCEPT ![changes[k].signal] = changes[k].value]
  BY <1>2, ReplayUnrolled
<1> HIDE DEF n
<1> DEFINE Same(k) == \A s \in Signal : (\A i \in 1..k : changes[i].signal # s) => g[k][s] = shown[s]
           LastWins(k) == \A i \in 1..k :
              (\A j \in 1..k : j > i => changes[j].signal # changes[i].signal)
              => g[k][changes[i].signal] = changes[i].value
           P == {k \in 0..n : Same(k) /\ LastWins(k)}
<1>5. 0 \in P
  BY <1>3, <1>4
<1>6. ASSUME NEW k \in 1..n, k - 1 \in P
      PROVE  k \in P
  <2>1. k - 1 \in 0..n /\ k \in 1..k /\ 1..(k - 1) \subseteq 1..k
        /\ \A i \in 1..k : i # k => i \in 1..(k - 1) /\ k > i
    BY <1>3
  <2>2. g[k - 1] \in [Signal -> Logic] /\ changes[k].signal \in Signal
    BY <1>3, <1>4, <2>1
  <2>3. \A s \in Signal : g[k][s] = IF s = changes[k].signal THEN changes[k].value ELSE g[k - 1][s]
    BY <1>4, <2>2
  <2>4. Same(k)
    BY <1>6, <2>1, <2>3
  <2>5. LastWins(k)
    <3> SUFFICES ASSUME NEW i \in 1..k, \A j \in 1..k : j > i => changes[j].signal # changes[i].signal
                 PROVE  g[k][changes[i].signal] = changes[i].value
      OBVIOUS
    <3>1. CASE i = k
      BY <2>2, <2>3, <3>1
    <3>2. CASE i # k
      <4>1. i \in 1..(k - 1) /\ changes[k].signal # changes[i].signal
            /\ \A j \in 1..(k - 1) : j > i => changes[j].signal # changes[i].signal
        BY <2>1, <3>2
      <4>2. changes[i].signal \in Signal
        BY <1>3, <4>1
      <4> QED BY <1>6, <2>3, <4>1, <4>2
    <3> QED BY <3>1, <3>2
  <2> QED BY <2>4, <2>5
<1>7. n \in P
  <2> HIDE DEF P
  <2>1. \A k \in 0..n : k \in P
    BY <1>3, <1>5, <1>6, PrefixInduction
  <2> QED BY <1>3, <2>1
<1>8. ASSUME NEW s \in Signal PROVE g[n][s] = b.values[s]
  <2> DEFINE S == {i \in 1..n : changes[i].signal = s}
  <2>1. CASE S = {}
    BY <1>7, <1>a, <2>1
  <2>2. CASE S # {}
    <3>1. S \in SUBSET (1..n)
      OBVIOUS
    <3>2. Max(S) \in S /\ \A y \in S : y <= Max(S)
      BY <1>3, <2>2, <3>1, MaxOfIndices
    <3>3. PICK m \in S : \A y \in S : y <= m
      BY <3>2
    <3>4. m \in 1..n /\ changes[m].signal = s
          /\ \A j \in 1..n : j > m => changes[j].signal # changes[m].signal
      BY <3>3
    <3> QED BY <1>7, <1>a, <3>4
  <2> QED BY <2>1, <2>2
<1>9. g[n] \in [Signal -> Logic]
  BY <1>3, <1>4
<1>10. g[n] = b.values
  BY <1>2, <1>8, <1>9
<1> QED BY <1>4, <1>10 DEF changes

\* record_signals returns the stop of the first change that triggers one.
LEMMA FirstMatchIsFirst ==
    ASSUME NEW changes, NEW n \in Nat, DOMAIN changes = 1..n
    PROVE  FirstMatch(changes) = IF Matching(changes) = {} THEN None
                                 ELSE MatchingStop(changes[Min(Matching(changes))])
<1>1. PICK g \in [0..n -> {None} \cup {MatchingStop(changes[i]) : i \in 1..n}] :
              /\ g[0] = None /\ g[n] = FirstMatch(changes)
              /\ \A k \in 1..n : g[k] = IF g[k - 1] = None THEN MatchingStop(changes[k]) ELSE g[k - 1]
  BY MatchUnrolled
<1> DEFINE stop(i) == MatchingStop(changes[i])
           First(k) == \/ g[k] = None /\ \A i \in 1..k : stop(i) = None
                       \/ \E i \in 1..k : /\ g[k] = stop(i) /\ stop(i) # None
                                          /\ \A j \in 1..k : j < i => stop(j) = None
           P == {k \in 0..n : First(k)}
<1>2. 0 \in P
  BY <1>1
<1>3. ASSUME NEW k \in 1..n, k - 1 \in P
      PROVE  k \in P
  <2>1. k \in 1..k /\ 1..(k - 1) \subseteq 1..k /\ \A i \in 1..k : i # k => i \in 1..(k - 1)
    OBVIOUS
  <2>2. g[k] = IF g[k - 1] = None THEN stop(k) ELSE g[k - 1]
    BY <1>1
  <2> HIDE DEF stop
  <2>3. CASE g[k - 1] = None /\ \A i \in 1..(k - 1) : stop(i) = None
    <3>1. CASE stop(k) = None
      BY <2>1, <2>2, <2>3, <3>1
    <3>2. CASE stop(k) # None
      <4>1. \A j \in 1..k : j < k => stop(j) = None
        BY <2>1, <2>3
      <4> QED BY <2>1, <2>2, <2>3, <3>2, <4>1
    <3> QED BY <3>1, <3>2
  <2>4. CASE \E i \in 1..(k - 1) : /\ g[k - 1] = stop(i) /\ stop(i) # None
                                   /\ \A j \in 1..(k - 1) : j < i => stop(j) = None
    <3>1. PICK i \in 1..(k - 1) : /\ g[k - 1] = stop(i) /\ stop(i) # None
                                  /\ \A j \in 1..(k - 1) : j < i => stop(j) = None
      BY <2>4
    <3>2. i \in 1..k /\ g[k] = stop(i)
      BY <2>1, <2>2, <3>1
    <3>3. \A j \in 1..k : j < i => stop(j) = None
      BY <2>1, <3>1
    <3> QED BY <3>1, <3>2, <3>3
  <2> QED BY <1>3, <2>3, <2>4
<1>4. First(n)
  <2> HIDE DEF First
  <2>1. \A k \in 0..n : k \in P
    <3> HIDE DEF P
    <3> QED BY <1>2, <1>3, PrefixInduction
  <2> QED BY <2>1
<1>5. Matching(changes) = {i \in 1..n : stop(i) # None}
  BY DEF Matching
<1> DEFINE S == {i \in 1..n : stop(i) # None}
<1>6. CASE S = {}
  BY <1>1, <1>4, <1>5, <1>6
<1>7. CASE S # {}
  <2>1. S \in SUBSET Nat
    OBVIOUS
  <2>2. Min(S) \in S /\ \A y \in S : Min(S) <= y
    BY <1>7, <2>1, MinOfNaturals
  <2>3. PICK i \in 1..n : /\ g[n] = stop(i) /\ stop(i) # None
                          /\ \A j \in 1..n : j < i => stop(j) = None
    BY <1>4, <1>7
  <2>4. Min(S) = i
    <3> DEFINE m == Min(S)
    <3>1. m \in 1..n /\ stop(m) # None /\ m <= i
      BY <2>2, <2>3
    <3> HIDE DEF m, stop
    <3>2. m = i
      BY <2>3, <3>1
    <3> QED BY <3>2 DEF m
  <2> QED BY <1>1, <1>5, <1>7, <2>3, <2>4
<1> QED BY <1>6, <1>7

(***************************************************************************)
(* The stable sort of the stimuli.                                          *)
(***************************************************************************)
Insert(sorted, s) ==
    InsertAt(sorted, Max({0} \cup {i \in DOMAIN sorted : sorted[i].at <= s.at}) + 1, s)

\* Inserting goes behind every stimulus that is not later.
LEMMA InsertBehind ==
    ASSUME NEW sorted \in Seq(Stimulus), NEW s \in Stimulus
    PROVE  \E q \in 0..Len(sorted) :
              /\ Insert(sorted, s) \in Seq(Stimulus)
              /\ Len(Insert(sorted, s)) = Len(sorted) + 1
              /\ \A i \in 1..q : Insert(sorted, s)[i] = sorted[i]
              /\ Insert(sorted, s)[q + 1] = s
              /\ \A i \in (q + 2)..(Len(sorted) + 1) : Insert(sorted, s)[i] = sorted[i - 1]
              /\ q # 0 => sorted[q].at <= s.at
              /\ \A i \in (q + 1)..Len(sorted) : sorted[i].at > s.at
<1> DEFINE n == Len(sorted)
           S == {0} \cup {i \in DOMAIN sorted : sorted[i].at <= s.at}
           q == Max(S)
           left == SubSeq(sorted, 1, q)
           mid == left \o <<s>>
           right == SubSeq(sorted, q + 1, n)
<1>1. n \in Nat /\ DOMAIN sorted = 1..n /\ \A i \in 1..n : sorted[i] \in Stimulus /\ sorted[i].at \in Nat
  BY LenProperties, ElementOfSeq, StimulusFields
<1>2. Insert(sorted, s) = mid \o right
  <2>1. Insert(sorted, s) = SubSeq(sorted, 1, (q + 1) - 1) \o <<s>> \o SubSeq(sorted, q + 1, n)
    BY DEF Insert, InsertAt
  <2>2. S \in SUBSET (0..n) /\ S # {}
    BY <1>1
  <2>3. q \in Nat
    <3> HIDE DEF S
    <3>1. Max(S) \in S
      BY <1>1, <2>2, MaxOfNaturals
    <3>2. \A x \in S : x \in Nat
      BY <2>2
    <3> QED BY <3>1, <3>2
  <2>4. (q + 1) - 1 = q
    <3> HIDE DEF q
    <3> QED BY <2>3
  <2> QED BY <2>1, <2>4
<1>3. q \in S /\ q \in 0..n /\ \A y \in S : y <= q
  <2>1. S \in SUBSET (0..n) /\ S # {}
    BY <1>1
  <2> HIDE DEF S
  <2> QED BY <1>1, <2>1, MaxOfNaturals
<1>4. (q # 0 => sorted[q].at <= s.at) /\ \A i \in 1..n : sorted[i].at <= s.at => i <= q
  <2> HIDE DEF q
  <2> QED BY <1>1, <1>3
<1> HIDE DEF q, S
<1>5. s.at \in Nat
  BY StimulusFields
<1>6. \A i \in (q + 1)..n : sorted[i].at > s.at
  BY <1>1, <1>3, <1>4, <1>5
<1>7. left \in Seq(Stimulus) /\ Len(left) = q /\ \A i \in 1..q : left[i] = sorted[i]
  <2>1. \A i \in 1..q : sorted[i] \in Stimulus
    BY <1>1, <1>3
  <2> QED BY <1>3, <2>1, SubSeqProperties
<1>8. <<s>> \in Seq(Stimulus) /\ Len(<<s>>) = 1 /\ <<s>>[1] = s
  OBVIOUS
<1>9. /\ right \in Seq(Stimulus) /\ Len(right) = n - q
      /\ \A i \in 1..(n - q) : right[i] = sorted[q + i]
  <2>1. \A i \in (q + 1)..n : sorted[i] \in Stimulus
    BY <1>1, <1>3
  <2>2. /\ right \in Seq(Stimulus) /\ Len(right) = IF q + 1 <= n THEN n - (q + 1) + 1 ELSE 0
        /\ \A i \in 1..(n - (q + 1) + 1) : right[i] = sorted[(q + 1) + i - 1]
    BY <1>1, <1>3, <2>1, SubSeqProperties
  <2> HIDE DEF right, n
  <2> QED BY <1>1, <1>3, <2>2
<1> HIDE DEF left, right, n
<1>10. /\ mid \in Seq(Stimulus) /\ Len(mid) = q + 1
       /\ \A i \in 1..(q + 1) : mid[i] = IF i <= q THEN left[i] ELSE <<s>>[i - q]
  <2>1. /\ mid \in Seq(Stimulus) /\ Len(mid) = Len(left) + Len(<<s>>)
        /\ \A i \in 1..(Len(left) + Len(<<s>>)) :
              mid[i] = IF i <= Len(left) THEN left[i] ELSE <<s>>[i - Len(left)]
    BY <1>7, <1>8, ConcatProperties
  <2> QED BY <1>7, <1>8, <2>1
<1>11. (\A i \in 1..q : mid[i] = sorted[i]) /\ mid[q + 1] = s
  <2>1. \A i \in 1..q : i \in 1..(q + 1) /\ i <= q
    BY <1>3
  <2>2. q + 1 \in 1..(q + 1) /\ ~(q + 1 <= q) /\ (q + 1) - q = 1
    BY <1>3
  <2> QED BY <1>7, <1>8, <1>10, <2>1, <2>2
<1> HIDE DEF mid
<1>12. /\ mid \o right \in Seq(Stimulus) /\ Len(mid \o right) = n + 1
       /\ \A i \in 1..(n + 1) : (mid \o right)[i] = IF i <= q + 1 THEN mid[i] ELSE right[i - (q + 1)]
  <2>1. /\ mid \o right \in Seq(Stimulus) /\ Len(mid \o right) = Len(mid) + Len(right)
        /\ \A i \in 1..(Len(mid) + Len(right)) :
              (mid \o right)[i] = IF i <= Len(mid) THEN mid[i] ELSE right[i - Len(mid)]
    BY <1>9, <1>10, ConcatProperties
  <2>2. Len(mid) + Len(right) = n + 1
    BY <1>1, <1>3, <1>9, <1>10
  <2> QED BY <1>10, <2>1, <2>2
<1> DEFINE r == Insert(sorted, s)
<1>13. /\ r \in Seq(Stimulus) /\ Len(r) = n + 1
       /\ \A i \in 1..(n + 1) : r[i] = IF i <= q + 1 THEN mid[i] ELSE right[i - (q + 1)]
  BY <1>2, <1>12
<1> HIDE DEF r
<1>14. \A i \in 1..q : r[i] = sorted[i]
  <2>1. \A i \in 1..q : i \in 1..(n + 1) /\ i <= q + 1
    BY <1>1, <1>3
  <2> QED BY <1>11, <1>13, <2>1
<1>15. r[q + 1] = s
  <2>1. q + 1 \in 1..(n + 1) /\ q + 1 <= q + 1
    BY <1>1, <1>3
  <2> QED BY <1>11, <1>13, <2>1
<1>16. \A i \in (q + 2)..(n + 1) : r[i] = sorted[i - 1]
  <2> SUFFICES ASSUME NEW i \in (q + 2)..(n + 1) PROVE r[i] = sorted[i - 1]
    OBVIOUS
  <2>1. i \in 1..(n + 1) /\ ~(i <= q + 1) /\ i - (q + 1) \in 1..(n - q) /\ q + (i - (q + 1)) = i - 1
    BY <1>1, <1>3
  <2>2. r[i] = right[i - (q + 1)] /\ right[i - (q + 1)] = sorted[q + (i - (q + 1))]
    BY <1>9, <1>13, <2>1
  <2> QED BY <2>1, <2>2
<1> QED BY <1>3, <1>4, <1>6, <1>13, <1>14, <1>15, <1>16 DEF r, n

\* Sorting inserts one stimulus at a time.
LEMMA SortUnrolled ==
    ASSUME NEW stimuli \in Seq(Stimulus)
    PROVE  \E g \in [0..Len(stimuli) -> Seq(Stimulus)] :
              /\ g[0] = << >> /\ g[Len(stimuli)] = StableSort(stimuli)
              /\ \A k \in 1..Len(stimuli) : g[k] = Insert(g[k - 1], stimuli[k])
<1> DEFINE n == Len(stimuli)
           St == Seq(Stimulus)
           op(x, e) == Insert(x, e)
           T == [k \in 1..n |-> [x \in St |-> op(x, stimuli[k])]]
           F(f) == [s \in SUBSET (1..n) |-> IF s = {} THEN << >>
                                            ELSE op(f[s \ {Max(s)}], stimuli[Max(s)])]
           f == CHOOSE f : f = F(f)
<1>1. n \in Nat /\ DOMAIN stimuli = 1..n
  BY LenProperties
<1>2. StableSort(stimuli) = f[1..n]
  BY <1>1 DEF StableSort, Insert, FoldLeft, MapThenFoldSet
<1>3. \A s \in SUBSET (1..n) : s # {} => Max(s) \in 1..n
  BY <1>1, MaxOfIndices
<1>4. \A k \in 1..n : \A x \in St : op(x, stimuli[k]) \in St
  BY ElementOfSeq, InsertBehind
<1> HIDE DEF n
<1>5. << >> \in St
  OBVIOUS
<1> HIDE DEF St
<1>6. T \in Steps(n, St)
  <2> HIDE DEF op
  <2> QED BY <1>4 DEF Steps
<1>7. f = F(f)
  <2>1. PICK it \in [SUBSET (1..n) -> St] : FoldsTo(it, n, << >>, T)
    <3> HIDE DEF T
    <3> QED BY <1>1, <1>5, <1>6, FoldSubsets
  <2>2. it = F(it)
    <3> HIDE DEF op
    <3> QED BY <1>3, <2>1 DEF FoldsTo
  <2> HIDE DEF F
  <2> QED BY <2>2
<1>8. \A s \in SUBSET (1..n) :
         f[s] = IF s = {} THEN << >> ELSE op(f[s \ {Max(s)}], stimuli[Max(s)])
  <2> DEFINE h == f
  <2>1. h = F(h)
    BY <1>7
  <2> HIDE DEF h, op
  <2>2. \A s \in SUBSET (1..n) :
           h[s] = IF s = {} THEN << >> ELSE op(h[s \ {Max(s)}], stimuli[Max(s)])
    BY <2>1
  <2> QED BY <2>2 DEF h
<1> HIDE DEF f, op
<1>9. FoldsWithin(f, n, St, << >>, T)
  BY <1>3, <1>8 DEF FoldsWithin
<1>10. PICK g \in [0..n -> St] : g[n] = f[1..n] /\ Unrolls(g, n, << >>, T)
  <2> HIDE DEF T
  <2> QED BY <1>1, <1>5, <1>6, <1>9, FoldPrefixes
<1>11. \A k \in 1..n : k - 1 \in 0..n
  BY <1>1
<1>12. g[0] = << >> /\ \A k \in 1..n : g[k] = op(g[k - 1], stimuli[k])
  BY <1>10, <1>11 DEF Unrolls
<1>13. g[n] = StableSort(stimuli)
  BY <1>2, <1>10
<1> QED BY <1>10, <1>12, <1>13 DEF n, St, op

\* One stimulus precedes another: an earlier time, or the same and given earlier.
Precedes(stimuli, i, j) ==
    \/ stimuli[i].at < stimuli[j].at
    \/ stimuli[i].at = stimuli[j].at /\ i < j

\* Precedence is by time first.
LEMMA PrecedesInTime ==
    ASSUME NEW stimuli, NEW i, NEW j, stimuli[i].at \in Nat, stimuli[j].at \in Nat
    PROVE  /\ Precedes(stimuli, i, j) => stimuli[i].at <= stimuli[j].at
           /\ stimuli[i].at <= stimuli[j].at /\ i < j => Precedes(stimuli, i, j)
           /\ stimuli[i].at < stimuli[j].at => Precedes(stimuli, i, j)
BY DEF Precedes

\* `place` tells which of the first k stimuli is at each position of `sorted`.
SortedBy(sorted, stimuli, k, place) ==
    /\ Len(sorted) = k
    /\ \A j \in 1..k : sorted[j] = stimuli[place[j]]
    /\ \A i \in 1..k : \E j \in 1..k : place[j] = i
    /\ \A i, j \in 1..k : i < j => Precedes(stimuli, place[i], place[j])

SortOf(sorted, stimuli) ==
    \E place \in [1..Len(stimuli) -> 1..Len(stimuli)] :
        SortedBy(sorted, stimuli, Len(stimuli), place)

\* Inserting the next stimulus keeps the order stable.
LEMMA InsertStable ==
    ASSUME NEW stimuli \in Seq(Stimulus), NEW sorted \in Seq(Stimulus),
           NEW k \in 1..Len(stimuli), NEW place \in [1..(k - 1) -> 1..(k - 1)],
           SortedBy(sorted, stimuli, k - 1, place)
    PROVE  \E next \in [1..k -> 1..k] : SortedBy(Insert(sorted, stimuli[k]), stimuli, k, next)
<1> DEFINE s == stimuli[k]
           r == Insert(sorted, s)
<1>1. k \in Nat /\ k >= 1 /\ Len(stimuli) \in Nat
  BY LenProperties
<1>2. \A i \in 1..k : stimuli[i] \in Stimulus /\ stimuli[i].at \in Nat
  BY <1>1, ElementOfSeq, StimulusFields
<1>3. /\ Len(sorted) = k - 1
      /\ \A j \in 1..(k - 1) : sorted[j] = stimuli[place[j]]
      /\ \A i \in 1..(k - 1) : \E j \in 1..(k - 1) : place[j] = i
      /\ \A i, j \in 1..(k - 1) : i < j => Precedes(stimuli, place[i], place[j])
  BY DEF SortedBy
<1>4. s \in Stimulus
  BY <1>1, <1>2
<1>5. PICK q \in 0..(k - 1) :
              /\ Len(r) = k
              /\ \A i \in 1..q : r[i] = sorted[i]
              /\ r[q + 1] = s
              /\ \A i \in (q + 2)..k : r[i] = sorted[i - 1]
              /\ q # 0 => sorted[q].at <= s.at
              /\ \A i \in (q + 1)..(k - 1) : sorted[i].at > s.at
  <2>1. PICK q \in 0..Len(sorted) :
              /\ Len(r) = Len(sorted) + 1
              /\ \A i \in 1..q : r[i] = sorted[i]
              /\ r[q + 1] = s
              /\ \A i \in (q + 2)..(Len(sorted) + 1) : r[i] = sorted[i - 1]
              /\ q # 0 => sorted[q].at <= s.at
              /\ \A i \in (q + 1)..Len(sorted) : sorted[i].at > s.at
    BY <1>4, InsertBehind
  <2>2. Len(sorted) = k - 1 /\ Len(sorted) + 1 = k
    BY <1>1, <1>3
  <2> HIDE DEF r, s
  <2> QED BY <2>1, <2>2
<1> HIDE DEF r
<1> DEFINE next == [j \in 1..k |-> IF j <= q THEN place[j] ELSE IF j = q + 1 THEN k ELSE place[j - 1]]
<1>6. /\ \A j \in 1..k : j <= q => j \in 1..(k - 1)
      /\ \A j \in 1..k : ~(j <= q) /\ j # q + 1 => j \in (q + 2)..k /\ j - 1 \in 1..(k - 1)
                                                   /\ j - 1 \in (q + 1)..(k - 1)
  BY <1>1
<1>7. next \in [1..k -> 1..k]
  <2>1. \A j \in 1..(k - 1) : place[j] \in 1..k
    BY <1>1
  <2> QED BY <1>1, <1>6, <2>1
<1>8. \A j \in 1..k : r[j] = stimuli[next[j]]
  <2> SUFFICES ASSUME NEW j \in 1..k PROVE r[j] = stimuli[next[j]]
    OBVIOUS
  <2>1. CASE j <= q
    <3>1. j \in 1..q /\ j \in 1..(k - 1) /\ next[j] = place[j]
      BY <1>1, <1>6, <2>1
    <3> QED BY <1>3, <1>5, <3>1
  <2>2. CASE j = q + 1
    <3>1. next[j] = k
      BY <2>2
    <3> QED BY <1>5, <2>2, <3>1
  <2>3. CASE ~(j <= q) /\ j # q + 1
    <3>1. j \in (q + 2)..k /\ j - 1 \in 1..(k - 1) /\ next[j] = place[j - 1]
      BY <1>6, <2>3
    <3> QED BY <1>3, <1>5, <3>1
  <2> QED BY <2>1, <2>2, <2>3
<1>9. \A i \in 1..k : \E j \in 1..k : next[j] = i
  <2> SUFFICES ASSUME NEW i \in 1..k PROVE \E j \in 1..k : next[j] = i
    OBVIOUS
  <2>1. CASE i = k
    <3>1. q + 1 \in 1..k /\ ~(q + 1 <= q)
      BY <1>1
    <3>2. next[q + 1] = k
      BY <3>1
    <3> QED BY <2>1, <3>1, <3>2
  <2>2. CASE i # k
    <3>1. i \in 1..(k - 1)
      BY <1>1, <2>2
    <3>2. PICK j \in 1..(k - 1) : place[j] = i
      BY <1>3, <3>1
    <3>3. CASE j <= q
      <4>1. j \in 1..k /\ next[j] = place[j]
        BY <1>1, <3>3
      <4> QED BY <3>2, <4>1
    <3>4. CASE ~(j <= q)
      <4>1. j + 1 \in 1..k /\ ~(j + 1 <= q) /\ j + 1 # q + 1 /\ (j + 1) - 1 = j
        BY <1>1, <3>4
      <4>2. next[j + 1] = place[j]
        BY <4>1
      <4> QED BY <3>2, <4>1, <4>2
    <3> QED BY <3>3, <3>4
  <2> QED BY <2>1, <2>2
<1>10. ASSUME NEW i \in 1..k, NEW j \in 1..k, i < j
       PROVE  Precedes(stimuli, next[i], next[j])
  <2>1. CASE j <= q
    <3>1. i <= q /\ i \in 1..(k - 1) /\ j \in 1..(k - 1)
      BY <1>1, <1>10, <2>1
    <3> QED BY <1>3, <1>10, <2>1, <3>1
  <2>2. CASE i <= q /\ j = q + 1
    <3>1. i \in 1..(k - 1) /\ q \in 1..(k - 1) /\ q # 0
      BY <1>1, <2>2
    <3>2. next[i] = place[i] /\ next[j] = k /\ place[i] \in 1..(k - 1) /\ place[q] \in 1..(k - 1)
      BY <1>1, <2>2, <3>1
    <3>a. place[i] \in 1..k /\ place[q] \in 1..k /\ k \in 1..k /\ place[i] < k
      <4>1. k \in 1..k /\ \A x \in 1..(k - 1) : x \in 1..k /\ x < k
        BY <1>1
      <4> QED BY <3>2, <4>1
    <3>3. stimuli[place[q]].at <= s.at
      BY <1>3, <1>5, <3>1
    <3>4. stimuli[place[i]].at <= stimuli[place[q]].at
      <4>1. CASE i = q
        BY <1>2, <3>a, <4>1
      <4>2. CASE i # q
        <5>1. i < q
          BY <2>2, <4>2
        <5>2. Precedes(stimuli, place[i], place[q])
          BY <1>3, <3>1, <5>1
        <5>3. stimuli[place[i]].at \in Nat /\ stimuli[place[q]].at \in Nat
          BY <1>2, <3>a
        <5> QED BY <5>2, <5>3, PrecedesInTime
      <4> QED BY <4>1, <4>2
    <3>5. place[i] < k /\ stimuli[place[i]].at \in Nat /\ stimuli[place[q]].at \in Nat /\ s.at \in Nat
      BY <1>2, <3>a
    <3>6. Precedes(stimuli, place[i], k)
      <4>1. \A x, y, z \in Nat : x <= y /\ y <= z => x <= z
        OBVIOUS
      <4>2. stimuli[place[i]].at <= s.at
        BY <3>3, <3>4, <3>5, <4>1, Zenon
      <4> QED BY <3>5, <4>2, PrecedesInTime
    <3> QED BY <3>2, <3>6
  <2>3. CASE i <= q /\ ~(j <= q) /\ j # q + 1
    <3>1. i \in 1..(k - 1) /\ j - 1 \in 1..(k - 1) /\ i < j - 1
      BY <1>1, <2>3
    <3>2. next[i] = place[i] /\ next[j] = place[j - 1]
      BY <2>3
    <3> QED BY <1>3, <3>1, <3>2
  <2>4. CASE i = q + 1
    <3>1. ~(j <= q) /\ j # q + 1 /\ ~(i <= q)
      BY <1>10, <2>4
    <3>2. next[i] = k /\ next[j] = place[j - 1]
      BY <2>4, <3>1
    <3>3. j - 1 \in (q + 1)..(k - 1) /\ j - 1 \in 1..(k - 1)
      BY <1>6, <3>1
    <3>4. stimuli[place[j - 1]].at > s.at
      BY <1>3, <1>5, <3>3
    <3>5. place[j - 1] \in 1..k /\ k \in 1..k
      BY <1>1, <3>3
    <3>6. stimuli[place[j - 1]].at \in Nat /\ s.at \in Nat
      BY <1>2, <3>5
    <3>7. Precedes(stimuli, k, place[j - 1])
      BY <3>4, <3>6 DEF Precedes
    <3> QED BY <3>2, <3>7
  <2>5. CASE ~(i <= q) /\ i # q + 1
    <3>1. ~(j <= q) /\ j # q + 1
      BY <1>10, <2>5
    <3>2. next[i] = place[i - 1] /\ next[j] = place[j - 1]
      BY <2>5, <3>1
    <3>3. i - 1 \in 1..(k - 1) /\ j - 1 \in 1..(k - 1) /\ i - 1 < j - 1
      BY <1>6, <1>10, <2>5, <3>1
    <3> QED BY <1>3, <3>2, <3>3
  <2> QED BY <2>1, <2>2, <2>3, <2>4, <2>5
<1> HIDE DEF next
<1>11. SortedBy(r, stimuli, k, next)
  BY <1>5, <1>8, <1>9, <1>10 DEF SortedBy
<1> QED BY <1>7, <1>11 DEF r

\* RunControl::new: the list is a stable sort of what was given.
LEMMA StableSortSorts ==
    ASSUME NEW stimuli \in Seq(Stimulus)
    PROVE  StableSort(stimuli) \in Seq(Stimulus) /\ SortOf(StableSort(stimuli), stimuli)
<1> DEFINE n == Len(stimuli)
<1>1. n \in Nat
  BY LenProperties
<1>2. PICK g \in [0..n -> Seq(Stimulus)] :
              /\ g[0] = << >> /\ g[n] = StableSort(stimuli)
              /\ \A k \in 1..n : g[k] = Insert(g[k - 1], stimuli[k])
  BY SortUnrolled
<1> HIDE DEF n
<1> DEFINE Sorted(k) == \E place \in [1..k -> 1..k] : SortedBy(g[k], stimuli, k, place)
           P == {k \in 0..n : Sorted(k)}
<1>3. 0 \in P
  <2> DEFINE empty == [j \in 1..0 |-> 0]
  <2>1. empty \in [1..0 -> 1..0] /\ 0 \in 0..n
    BY <1>1
  <2>2. Len(g[0]) = 0
    BY <1>2
  <2>3. SortedBy(g[0], stimuli, 0, empty)
    <3> HIDE DEF empty
    <3> QED BY <2>2 DEF SortedBy
  <2> HIDE DEF empty
  <2> QED BY <2>1, <2>3
<1>4. ASSUME NEW k \in 1..n, k - 1 \in P
      PROVE  k \in P
  <2>1. PICK place \in [1..(k - 1) -> 1..(k - 1)] : SortedBy(g[k - 1], stimuli, k - 1, place)
    BY <1>4
  <2>2. k \in 1..Len(stimuli) /\ k \in 0..n /\ k - 1 \in 0..n
    BY <1>1 DEF n
  <2>3. g[k - 1] \in Seq(Stimulus)
    BY <1>2, <2>2
  <2>4. \E next \in [1..k -> 1..k] : SortedBy(Insert(g[k - 1], stimuli[k]), stimuli, k, next)
    BY <2>1, <2>2, <2>3, InsertStable
  <2> QED BY <1>2, <2>2, <2>4
<1>5. n \in P
  <2> HIDE DEF P
  <2>1. \A k \in 0..n : k \in P
    BY <1>1, <1>3, <1>4, PrefixInduction
  <2> QED BY <1>1, <2>1
<1>6. g[n] \in Seq(Stimulus)
  BY <1>1, <1>2
<1>7. SortOf(g[n], stimuli)
  BY <1>5 DEF n, SortOf
<1> QED BY <1>2, <1>6, <1>7

(***************************************************************************)
(* What is due.                                                             *)
(***************************************************************************)

\* apply_stimuli looks at the stimuli from next_stimulus up to the first one that
\* is not due.
LEMMA DueIsNext ==
    ASSUME control.stimuli \in Seq(Stimulus), now \in Nat,
           control.next \in 1..(Len(control.stimuli) + 1)
    PROVE  \E m \in (control.next - 1)..Len(control.stimuli) :
              /\ DueStimuli \in Seq(Stimulus)
              /\ Len(DueStimuli) = m - control.next + 1
              /\ \A i \in 1..Len(DueStimuli) : DueStimuli[i] = control.stimuli[control.next + i - 1]
              /\ \A i \in control.next..m : control.stimuli[i].at <= now
              /\ m < Len(control.stimuli) => control.stimuli[m + 1].at > now
<1> DEFINE list == control.stimuli
           first == control.next
           n == Len(list)
           late == {i \in first..n : ~Due(list[i], now)}
           bound == late \cup {n + 1}
           m == Min(bound) - 1
<1>1. n \in Nat /\ \A i \in 1..n : list[i] \in Stimulus /\ list[i].at \in Nat
  BY LenProperties, ElementOfSeq, StimulusFields
<1>2. DueStimuli = SubSeq(list, first, m)
  BY DEF DueStimuli, DueFrom
<1> HIDE DEF n
<1>3. first \in 1..(n + 1)
  BY DEF n
<1> HIDE DEF first, list
<1>4. bound \in SUBSET Nat /\ bound # {} /\ \A x \in bound : x \in first..(n + 1)
  BY <1>1, <1>3
<1>5. Min(bound) \in bound /\ \A y \in bound : Min(bound) <= y
  <2> HIDE DEF bound
  <2> QED BY <1>4, MinOfNaturals
<1>6. m \in (first - 1)..n /\ m + 1 \in bound /\ \A y \in bound : m + 1 <= y
  <2> DEFINE b == Min(bound)
  <2>1. b \in first..(n + 1) /\ b \in bound /\ \A y \in bound : b <= y
    BY <1>4, <1>5
  <2> HIDE DEF b, bound
  <2>2. m = b - 1
    BY DEF b
  <2> HIDE DEF m
  <2>3. m \in (first - 1)..n /\ m + 1 = b
    BY <1>1, <1>3, <2>1, <2>2
  <2> QED BY <2>1, <2>3
<1> HIDE DEF m
<1>7. \A i \in first..m : list[i].at <= now
  <2> SUFFICES ASSUME NEW i \in first..m PROVE list[i].at <= now
    OBVIOUS
  <2>1. i \in first..n /\ ~(m + 1 <= i)
    BY <1>1, <1>3, <1>6
  <2>2. i \notin late
    BY <1>6, <2>1
  <2> QED BY <2>1, <2>2 DEF Due
<1>8. m < n => list[m + 1].at > now
  <2> SUFFICES ASSUME m < n PROVE list[m + 1].at > now
    OBVIOUS
  <2>1. m + 1 # n + 1 /\ m + 1 \in 1..n
    BY <1>1, <1>3, <1>6
  <2>2. ~(list[m + 1].at <= now)
    BY <1>6, <2>1 DEF Due
  <2> QED BY <1>1, <2>1, <2>2
<1>9. /\ SubSeq(list, first, m) \in Seq(Stimulus)
      /\ Len(SubSeq(list, first, m)) = m - first + 1
      /\ \A i \in 1..(m - first + 1) : SubSeq(list, first, m)[i] = list[first + i - 1]
  <2>1. \A i \in first..m : list[i] \in Stimulus
    BY <1>1, <1>3, <1>6
  <2>2. first \in Int /\ m \in Int /\ (IF first <= m THEN m - first + 1 ELSE 0) = m - first + 1
    BY <1>1, <1>3, <1>6
  <2> QED BY <2>1, <2>2, SubSeqProperties
<1> QED BY <1>2, <1>6, <1>7, <1>8, <1>9 DEF list, first, n

\* The stimuli that are applied are those before the first refused one.
LEMMA AcceptedPrefix ==
    ASSUME NEW stimuli \in Seq(Stimulus)
    PROVE  /\ Accepted(stimuli) \in Seq(Stimulus) /\ Len(Accepted(stimuli)) <= Len(stimuli)
           /\ \A i \in 1..Len(Accepted(stimuli)) :
                 Accepted(stimuli)[i] = stimuli[i] /\ Accepted(stimuli)[i].pin \in BoardPin
           /\ ~Refused(stimuli) => Accepted(stimuli) = stimuli
<1> DEFINE n == Len(stimuli)
           bad == Bad(stimuli)
           bound == bad \cup {n + 1}
           m == Min(bound) - 1
<1>1. n \in Nat /\ DOMAIN stimuli = 1..n /\ \A i \in 1..n : stimuli[i] \in Stimulus
  BY LenProperties, ElementOfSeq
<1>2. Accepted(stimuli) = SubSeq(stimuli, 1, m)
  BY DEF Accepted
<1>3. bad = {i \in 1..n : stimuli[i].pin \notin BoardPin}
  BY <1>1 DEF Bad
<1>4. ~Refused(stimuli) => m = n /\ SubSeq(stimuli, 1, n) = stimuli
  <2> SUFFICES ASSUME ~Refused(stimuli) PROVE m = n /\ SubSeq(stimuli, 1, n) = stimuli
    OBVIOUS
  <2>1. bound = {n + 1}
    BY DEF Refused
  <2>2. Min({n + 1}) = n + 1
    <3>1. {n + 1} \in SUBSET Nat
      BY <1>1
    <3> HIDE DEF n
    <3> QED BY <3>1, MinOfNaturals
  <2>3. m = n
    <3> HIDE DEF n, bound
    <3> QED BY <1>1, <2>1, <2>2
  <2> QED BY <2>3, SubSeqFull
<1> HIDE DEF n, bad
<1>5. bound \in SUBSET Nat /\ bound # {} /\ \A x \in bound : x \in 1..(n + 1)
  BY <1>1, <1>3
<1>6. Min(bound) \in bound /\ \A y \in bound : Min(bound) <= y
  <2> HIDE DEF bound
  <2> QED BY <1>5, MinOfNaturals
<1>7. m \in 0..n /\ \A y \in bound : m + 1 <= y
  <2> DEFINE b == Min(bound)
  <2>1. b \in 1..(n + 1) /\ \A y \in bound : b <= y
    BY <1>5, <1>6
  <2> HIDE DEF b, bound
  <2>2. m = b - 1
    BY DEF b
  <2> HIDE DEF m
  <2>3. m \in 0..n /\ m + 1 = b
    BY <1>1, <2>1, <2>2
  <2> QED BY <2>1, <2>3
<1> HIDE DEF m
<1>8. \A i \in 1..m : i \in 1..n /\ stimuli[i].pin \in BoardPin
  <2>1. \A i \in 1..m : i \in 1..n /\ ~(m + 1 <= i)
    BY <1>1, <1>7
  <2> QED BY <1>3, <1>7, <2>1
<1>9. /\ SubSeq(stimuli, 1, m) \in Seq(Stimulus) /\ Len(SubSeq(stimuli, 1, m)) = m
      /\ \A i \in 1..m : SubSeq(stimuli, 1, m)[i] = stimuli[i]
  <2>1. \A i \in 1..m : stimuli[i] \in Stimulus
    BY <1>1, <1>8
  <2>2. /\ 1 \in Int /\ m \in Int /\ (IF 1 <= m THEN m - 1 + 1 ELSE 0) = m /\ m - 1 + 1 = m
        /\ \A i \in 1..m : 1 + i - 1 = i
    BY <1>1, <1>7
  <2>3. /\ SubSeq(stimuli, 1, m) \in Seq(Stimulus)
        /\ Len(SubSeq(stimuli, 1, m)) = IF 1 <= m THEN m - 1 + 1 ELSE 0
        /\ \A i \in 1..(m - 1 + 1) : SubSeq(stimuli, 1, m)[i] = stimuli[1 + i - 1]
    BY <2>1, <2>2, SubSeqProperties
  <2> QED BY <2>2, <2>3
<1> DEFINE r == Accepted(stimuli)
<1>10. /\ r \in Seq(Stimulus) /\ Len(r) = m
       /\ \A i \in 1..m : r[i] = stimuli[i]
  BY <1>2, <1>9
<1>11. ~Refused(stimuli) => r = stimuli
  BY <1>2, <1>4
<1>12. m <= n
  BY <1>1, <1>7
<1> HIDE DEF r
<1>13. Len(r) <= Len(stimuli)
  BY <1>10, <1>12 DEF n
<1> QED BY <1>8, <1>10, <1>11, <1>13 DEF r

(***************************************************************************)
(* The hub invariant.                                                       *)
(***************************************************************************)
HubInv ==
    /\ now \in Nat /\ dirty \in BOOLEAN /\ pio_on \in BOOLEAN
    /\ trace \in [shown : [Signal -> Logic], time : Nat] /\ trace.time <= now
    /\ board \in Hub(trace.shown, trace.time, now)
    /\ pads \in [ChipPin -> PadRegisters]
    /\ ~dirty => PadsMatch(board.net, pads)
    /\ control.stimuli \in Seq(Stimulus) /\ control.next \in 1..(Len(control.stimuli) + 1)

ExternalKept == \A t \in Signal : board'.net[t]["external"] = board.net[t]["external"]

\* The fields of an access.
LEMMA AccessFields ==
    ASSUME NEW a \in Access
    PROVE  /\ a.kind = "sio" => a.pin \in ChipPin /\ a.value \in SioValue
           /\ a.kind = "mux" => a.pin \in ChipPin /\ a.value \in {"sio", "pio"}
           /\ a.kind = "pull" => a.pin \in ChipPin /\ a.value \in PullValue
           /\ a.kind = "pio" => a.value \in BOOLEAN
<1>1. CASE a \in [kind : {"none", "data", "exit"}]
  BY <1>1
<1>2. CASE a \in [kind : {"sio"}, pin : ChipPin, value : SioValue]
  BY <1>2
<1>3. CASE a \in [kind : {"mux"}, pin : ChipPin, value : {"sio", "pio"}]
  BY <1>3
<1>4. CASE a \in [kind : {"pull"}, pin : ChipPin, value : PullValue]
  BY <1>4
<1>5. CASE a \in [kind : {"pio"}, value : BOOLEAN]
  BY <1>5
<1>6. CASE a \in [kind : {"launch"}, entry : PC \cup {None}]
  BY <1>6
<1> QED BY <1>1, <1>2, <1>3, <1>4, <1>5, <1>6 DEF Access

\* What an access does to the hub and the pads; one that pio_runtime_access does
\* not count does nothing to either.
LEMMA AccessInHub ==
    ASSUME HubInv, NEW a \in Access
    PROVE  /\ BoardAfter(a) \in Hub(trace.shown, trace.time, now)
           /\ \A t \in Signal : BoardAfter(a).net[t]["external"] = board.net[t]["external"]
           /\ PadsAfter(a) \in [ChipPin -> PadRegisters]
           /\ PioAfter(a) \in BOOLEAN
           /\ ~RuntimeAccess(a) => BoardAfter(a) = board /\ PadsAfter(a) = pads
<1>1. PadsAfter(a) \in [ChipPin -> PadRegisters]
  <2>1. pads \in [ChipPin -> PadRegisters]
    BY DEF HubInv
  <2>2. CASE a.kind = "sio"
    <3>1. a.pin \in ChipPin /\ a.value \in Logic
      BY <2>2, AccessFields, ValuesAssumption
    <3>2. PadsAfter(a) = [pads EXCEPT ![a.pin].sio = a.value]
      BY <2>2 DEF PadsAfter
    <3> QED BY <2>1, <3>1, <3>2 DEF PadRegisters
  <2>3. CASE a.kind = "mux"
    <3>1. a.pin \in ChipPin /\ a.value \in {"sio", "pio"}
      BY <2>3, AccessFields
    <3>2. PadsAfter(a) = [pads EXCEPT ![a.pin].mux = a.value]
      BY <2>3 DEF PadsAfter
    <3> QED BY <2>1, <3>1, <3>2 DEF PadRegisters
  <2>4. CASE a.kind = "pull"
    <3>1. a.pin \in ChipPin /\ a.value \in Logic
      BY <2>4, AccessFields, ValuesAssumption
    <3>2. PadsAfter(a) = [pads EXCEPT ![a.pin].pull = a.value]
      BY <2>4 DEF PadsAfter
    <3> QED BY <2>1, <3>1, <3>2 DEF PadRegisters
  <2>5. CASE a.kind \notin {"sio", "mux", "pull"}
    BY <2>1, <2>5 DEF PadsAfter
  <2> QED BY <2>2, <2>3, <2>4, <2>5
<1>2. /\ BoardAfter(a) \in Hub(trace.shown, trace.time, now)
      /\ \A t \in Signal : BoardAfter(a).net[t]["external"] = board.net[t]["external"]
  <2>1. /\ trace.shown \in [Signal -> Logic] /\ trace.time \in Nat /\ now \in Nat
        /\ trace.time <= now /\ board \in Hub(trace.shown, trace.time, now)
    BY DEF HubInv
  <2>2. CASE a.kind = "sio"
    <3> DEFINE value == [p \in ChipPin |-> PadsAfter(a)[p].sio]
    <3>1. value \in [ChipPin -> Logic]
      BY <1>1, DrivesOfPad
    <3>2. BoardAfter(a) = DriveEach(board, "sio", value, now)
      BY <2>2 DEF BoardAfter, RefreshSio
    <3>3. "sio" \in Driver /\ "external" \in Driver
      BY DEF Driver, StrongDriver
    <3> HIDE DEF value
    <3>4. /\ DriveEach(board, "sio", value, now) \in Hub(trace.shown, trace.time, now)
          /\ \A t \in Signal, d \in Driver :
                d # "sio" => DriveEach(board, "sio", value, now).net[t][d] = board.net[t][d]
      BY <2>1, <3>1, <3>3, EachDriven
    <3> QED BY <3>2, <3>3, <3>4
  <2>3. CASE a.kind # "sio"
    BY <2>1, <2>3 DEF BoardAfter
  <2> QED BY <2>2, <2>3
<1>3. PioAfter(a) \in BOOLEAN
  BY AccessFields DEF PioAfter, HubInv
<1>4. ~RuntimeAccess(a) => BoardAfter(a) = board /\ PadsAfter(a) = pads
  BY DEF RuntimeAccess, BoardAfter, PadsAfter
<1> QED BY <1>1, <1>2, <1>3, <1>4

\* record_signals drains the hub, and its reader then knows the values.
LEMMA RecordInHub ==
    ASSUME HubInv, NEW b \in Hub(trace.shown, trace.time, now), Record(b)
    PROVE  /\ trace' \in [shown : [Signal -> Logic], time : Nat] /\ trace'.time <= now
           /\ board' \in Hub(trace'.shown, trace'.time, now) /\ board'.net = b.net
<1>1. /\ trace.shown \in [Signal -> Logic] /\ trace.time \in Nat /\ now \in Nat
      /\ trace.time <= now
  BY DEF HubInv
<1>2. b \in Board /\ Ordered(b.changes, trace.time, now)
  BY DEF Hub
<1>3. b.changes \in Seq(Change) /\ b.values \in [Signal -> Logic]
  BY <1>2 DEF Board
<1>4. Replay(trace.shown, b.changes) = b.values
  BY <1>1, ReplayTells
<1> DEFINE last == IF b.changes = << >> THEN trace.time ELSE Last(b.changes).at
<1>5. trace' = [shown |-> b.values, time |-> last]
  BY <1>4 DEF Record, Streamed
<1>6. last \in Nat /\ last <= now
  <2>1. CASE b.changes = << >>
    BY <1>1, <2>1
  <2>2. CASE b.changes # << >>
    <3>1. Len(b.changes) \in 1..Len(b.changes)
      BY <1>3, <2>2, EmptySeq
    <3>2. Last(b.changes) = b.changes[Len(b.changes)]
      BY DEF Last
    <3>3. b.changes[Len(b.changes)].at \in Nat
      BY <1>3, <3>1, ElementOfSeq, ChangeFields
    <3>4. b.changes[Len(b.changes)].at <= now
      BY <1>2, <3>1 DEF Ordered
    <3> QED BY <2>2, <3>2, <3>3, <3>4
  <2> QED BY <2>1, <2>2
<1> HIDE DEF last
<1>7. trace'.shown = b.values /\ trace'.time = last
      /\ trace' \in [shown : [Signal -> Logic], time : Nat]
  BY <1>3, <1>5, <1>6
<1>8. /\ board' \in Board /\ board'.net = b.net /\ board'.values = b.values
      /\ board'.changes = << >>
  <2>1. board' = [b EXCEPT !.changes = << >>]
    BY DEF Record
  <2>2. << >> \in Seq(Change)
    BY EmptySeq
  <2> QED BY <1>2, <2>1, <2>2 DEF Board
<1>9. board' \in Hub(b.values, last, now)
  <2>1. Len(board'.changes) = 0 /\ 1..0 = {}
    BY <1>8
  <2>2. Tells(board', b.values)
    BY <1>8, <2>1 DEF Tells
  <2>3. Ordered(board'.changes, last, now)
    BY <2>1 DEF Ordered
  <2> QED BY <1>8, <2>2, <2>3 DEF Hub
<1> QED BY <1>6, <1>7, <1>8, <1>9

\* Time passes, and the queue stays in order.
LEMMA HubLater ==
    ASSUME NEW shown, NEW from, NEW at \in Nat, NEW b \in Hub(shown, from, at)
    PROVE  b \in Hub(shown, from, at + 1)
<1>1. b \in Board /\ Tells(b, shown) /\ Ordered(b.changes, from, at)
  BY DEF Hub
<1>2. \A i \in 1..Len(b.changes) : b.changes[i].at \in Nat
  BY <1>1, ElementOfSeq, ChangeFields DEF Board
<1>3. Ordered(b.changes, from, at + 1)
  BY <1>1, <1>2 DEF Ordered
<1> QED BY <1>1, <1>3 DEF Hub

\* A run that begins starts its trace with the values as they are: changes that
\* are still queued from the run before lead to those values.
LEMMA HubRestart ==
    ASSUME NEW shown, NEW from \in Nat, NEW at \in Nat, NEW b \in Hub(shown, from, at)
    PROVE  b \in Hub(b.values, 0, at)
<1>1. b \in Board /\ Tells(b, shown) /\ Ordered(b.changes, from, at)
  BY DEF Hub
<1>2. \A i \in 1..Len(b.changes) : b.changes[i].at \in Nat
  BY <1>1, ElementOfSeq, ChangeFields DEF Board
<1>3. Ordered(b.changes, 0, at)
  BY <1>1, <1>2 DEF Ordered
<1>4. Tells(b, b.values)
  BY <1>1 DEF Tells
<1> QED BY <1>1, <1>3, <1>4 DEF Hub

\* An instruction of either core, whether its changes are recorded or not.
LEMMA CoreHub ==
    ASSUME HubInv, NEW a \in Access, Devices(a), now' = now \/ now' = now + 1, UNCHANGED control,
           (board' = BoardAfter(a) /\ UNCHANGED trace) \/ Record(BoardAfter(a))
    PROVE  HubInv' /\ ExternalKept
<1> DEFINE b == BoardAfter(a)
<1>1. /\ b \in Hub(trace.shown, trace.time, now)
      /\ \A t \in Signal : b.net[t]["external"] = board.net[t]["external"]
      /\ PadsAfter(a) \in [ChipPin -> PadRegisters]
      /\ PioAfter(a) \in BOOLEAN
      /\ ~RuntimeAccess(a) => b = board /\ PadsAfter(a) = pads
  BY AccessInHub
<1>2. (board' = b /\ UNCHANGED trace) \/ Record(b)
  OBVIOUS
<1> HIDE DEF b
<1>3. /\ trace' \in [shown : [Signal -> Logic], time : Nat] /\ trace'.time <= now
      /\ board' \in Hub(trace'.shown, trace'.time, now) /\ board'.net = b.net
  <2>1. CASE board' = b /\ UNCHANGED trace
    BY <1>1, <2>1 DEF HubInv
  <2>2. CASE Record(b)
    BY <1>1, <2>2, RecordInHub
  <2> QED BY <1>2, <2>1, <2>2
<1>4. pads' = PadsAfter(a) /\ pio_on' = PioAfter(a) /\ dirty' = (dirty \/ RuntimeAccess(a))
  BY DEF Devices
<1>5. dirty' \in BOOLEAN /\ (~dirty' => ~dirty /\ ~RuntimeAccess(a))
  <2>1. dirty \in BOOLEAN
    BY DEF HubInv
  <2> QED BY <1>4, <2>1
<1>6. ~dirty' => PadsMatch(board'.net, pads')
  BY <1>1, <1>3, <1>4, <1>5 DEF HubInv
<1>7. now' \in Nat /\ trace'.time <= now' /\ board' \in Hub(trace'.shown, trace'.time, now')
  <2>1. now \in Nat /\ trace'.time \in Nat
    BY <1>3 DEF HubInv
  <2>2. CASE now' = now
    BY <1>3, <2>1, <2>2
  <2>3. CASE now' = now + 1
    <3>1. board' \in Hub(trace'.shown, trace'.time, now + 1)
      BY <1>3, <2>1, HubLater
    <3> QED BY <1>3, <2>1, <2>3, <3>1
  <2> QED BY <2>2, <2>3
<1>8. ExternalKept
  BY <1>1, <1>3 DEF ExternalKept
<1> QED BY <1>1, <1>3, <1>4, <1>5, <1>6, <1>7, <1>8 DEF HubInv

\* Only external drivers move: the pads match as before.
LEMMA PadsMatchKept ==
    ASSUME NEW old, NEW new, NEW regs, PadsMatch(old, regs),
           \A t \in Signal, d \in Driver : d # "external" => new[t][d] = old[t][d]
    PROVE  PadsMatch(new, regs)
<1>1. {"pull", "sio", "pio"} \subseteq Driver
  BY DEF Driver, StrongDriver, WeakDriver
<1> QED BY <1>1, SignalsDiffer DEF PadsMatch

\* Before the first run every net is released and nothing is queued.
LEMMA HubInitially ==
    ArmInit => HubInv
<1> SUFFICES ASSUME ArmInit PROVE HubInv
  OBVIOUS
<1>1. /\ board \in Board /\ board.changes = << >> /\ board.values = [s \in Signal |-> "Z"]
      /\ board.net = [s \in Signal |-> [d \in Driver |-> "Z"]]
  <2>1. << >> \in Seq(Change)
    BY EmptySeq
  <2> QED BY <2>1 DEF ArmInit, Released, Board, Logic
<1>2. /\ trace \in [shown : [Signal -> Logic], time : Nat]
      /\ trace.time = 0 /\ trace.shown = board.values /\ now = 0
  BY <1>1 DEF ArmInit, Logic
<1>3. board \in Hub(trace.shown, trace.time, now)
  <2>1. Len(board.changes) = 0 /\ 1..0 = {}
    BY <1>1
  <2> QED BY <1>1, <1>2, <2>1 DEF Hub, Tells, Ordered
<1>4. pads \in [ChipPin -> PadRegisters]
  BY DEF ArmInit, Pad, PadRegisters, Logic
<1>5. PadsMatch(board.net, pads)
  <2>1. {"pull", "sio", "pio"} \subseteq Driver
    BY DEF Driver, StrongDriver, WeakDriver
  <2>2. \A p \in ChipPin : pads[p] = [mux |-> "sio", sio |-> "Z", pio |-> "Z", pull |-> "Z"]
                           /\ ChipSignal(p) \in Signal
    BY SignalsDiffer DEF ArmInit, Pad
  <2>3. \A p \in ChipPin : pads[p].pull = "Z" /\ SioDrive(pads[p]) = "Z" /\ PioDrive(pads[p]) = "Z"
    BY <2>2 DEF SioDrive, PioDrive
  <2> QED BY <1>1, <2>1, <2>2, <2>3 DEF PadsMatch
<1>6. control.stimuli = << >> /\ control.next = 1 /\ << >> \in Seq(Stimulus) /\ Len(<< >>) = 0
  BY EmptySeq DEF ArmInit
<1>7. control.stimuli \in Seq(Stimulus) /\ control.next \in 1..(Len(control.stimuli) + 1)
  BY <1>6
<1>8. now \in Nat /\ dirty \in BOOLEAN /\ pio_on \in BOOLEAN /\ trace.time <= now
  <2>1. dirty = FALSE /\ pio_on = FALSE
    BY DEF ArmInit
  <2>2. dirty \in BOOLEAN /\ pio_on \in BOOLEAN
    BY <2>1, Zenon
  <2>3. now \in Nat /\ trace.time <= now
    BY <1>2
  <2> QED BY <2>2, <2>3
<1> QED BY <1>2, <1>3, <1>4, <1>5, <1>7, <1>8 DEF HubInv

\* The state the hub invariant reads.
HubSame == UNCHANGED <<now, dirty, pio_on, trace, board, pads, control>>

\* The invariant reads these variables only.
LEMMA HubUnchanged ==
    ASSUME HubInv, HubSame
    PROVE  HubInv' /\ ExternalKept
BY DEF HubInv, HubSame, ExternalKept

\* A new run restarts the trace; the host moves external drivers only.
LEMMA DebuggerHub ==
    ASSUME HubInv, Debugger
    PROVE  HubInv'
<1>1. ASSUME NEW limits \in Limits, NEW stimuli \in StimulusLists, Begin(limits, stimuli)
      PROVE  HubInv'
  <2>1. CASE limits.instructions = None /\ limits.deadline = None
    <3>1. HubSame
      BY <1>1, <2>1 DEF Begin, HubSame, hub_vars
    <3> QED BY <3>1, HubUnchanged
  <2>2. CASE ~(limits.instructions = None /\ limits.deadline = None)
    <3>1. /\ control' = [limits |-> limits, stimuli |-> StableSort(stimuli), next |-> 1]
          /\ trace' = [shown |-> board.values, time |-> 0]
          /\ dirty' = TRUE /\ UNCHANGED <<now, board, pads, pio_on>>
      BY <1>1, <2>2 DEF Begin, hub_vars
    <3>2. stimuli \in Seq(Stimulus)
      BY StimuliAssumption DEF Stimulus
    <3>3. StableSort(stimuli) \in Seq(Stimulus) /\ Len(StableSort(stimuli)) \in Nat
      BY <3>2, StableSortSorts, LenProperties
    <3>4. control'.stimuli \in Seq(Stimulus) /\ control'.next \in 1..(Len(control'.stimuli) + 1)
      BY <3>1, <3>3
    <3>5. board.values \in [Signal -> Logic] /\ board \in Hub(board.values, 0, now)
      <4>1. trace.time \in Nat /\ now \in Nat /\ board \in Hub(trace.shown, trace.time, now)
        BY DEF HubInv
      <4>2. board \in Board
        BY <4>1 DEF Hub
      <4> QED BY <4>1, <4>2, HubRestart DEF Board
    <3>6. /\ trace' \in [shown : [Signal -> Logic], time : Nat] /\ trace'.time <= now
          /\ trace'.shown = board.values /\ trace'.time = 0
      BY <3>1, <3>5 DEF HubInv
    <3> QED BY <3>1, <3>4, <3>5, <3>6 DEF HubInv
  <2> QED BY <2>1, <2>2
<1>2. ASSUME NEW setup \in DebugSetups, SetDebug(setup) PROVE HubInv'
  <2>1. HubSame
    BY <1>2 DEF SetDebug, HubSame, run_vars, hub_vars
  <2> QED BY <2>1, HubUnchanged
<1>3. CASE DebugMemory
  <2>1. HubSame
    BY <1>3 DEF DebugMemory, HostAccess, HubSame
  <2> QED BY <2>1, HubUnchanged
<1>4. ASSUME NEW pin \in BoardPin, NEW value \in HostValue, HostPin(pin, value) PROVE HubInv'
  <2> DEFINE s == [pin |-> pin, value |-> value]
  <2>1. /\ board' = SetPin(board, s, now)
        /\ UNCHANGED <<now, dirty, pio_on, trace, pads, control>>
    BY <1>4 DEF HostPin, HostAccess
  <2>2. s.pin \in BoardPin /\ s.value \in Logic
    BY ValuesAssumption
  <2> HIDE DEF s
  <2>3. /\ trace.shown \in [Signal -> Logic] /\ trace.time \in Nat /\ now \in Nat
        /\ trace.time <= now /\ board \in Hub(trace.shown, trace.time, now)
    BY DEF HubInv
  <2>4. /\ SetPin(board, s, now) \in Hub(trace.shown, trace.time, now)
        /\ \A t \in Signal, d \in Driver : d # "external" =>
              SetPin(board, s, now).net[t][d] = board.net[t][d]
    BY <2>2, <2>3, SetPinInHub
  <2>5. ~dirty => PadsMatch(board'.net, pads)
    BY <2>1, <2>4, PadsMatchKept DEF HubInv
  <2> QED BY <2>1, <2>4, <2>5 DEF HubInv
<1> QED BY <1>1, <1>2, <1>3, <1>4 DEF Debugger

\* What the top of a pass applies: the next stimuli that are due, up to position m,
\* all of them when the pass goes on.
Taken(m, acc) ==
    /\ Len(acc) <= m - control.next + 1
    /\ \A i \in 1..Len(acc) : /\ acc[i] = control.stimuli[control.next + i - 1]
                              /\ acc[i].pin \in BoardPin
    /\ \A i \in control.next..m : control.stimuli[i].at <= now
    /\ m < Len(control.stimuli) => control.stimuli[m + 1].at > now
    /\ phase' # "idle" => phase' = "service" /\ Len(acc) = m - control.next + 1
    /\ control' = [control EXCEPT !.next = @ + Len(acc)]
    /\ \/ board' = Apply(board, acc, now) /\ (dirty' \/ ~dirty)
       \/ board' = Refresh(Apply(board, acc, now), pads, now)
    /\ dirty' \in BOOLEAN
    /\ stats' = [stats EXCEPT !.events = @ + Len(acc)]

\* The top of a pass takes stimuli in this way.
LEMMA TopApplies ==
    ASSUME ControlInv, HubInv, Top
    PROVE  \E m \in (control.next - 1)..Len(control.stimuli), acc \in Seq(Stimulus) : Taken(m, acc)
<1> DEFINE due == DueStimuli
           acc == Accepted(due)
           touched == dirty \/ due # << >>
           limit == LimitReason(control.limits, stats.instructions, now)
           refresh == touched \/ pio_on
           goes_on == ~Refused(due) /\ ~exit /\ limit = None
<1>1. PICK m \in (control.next - 1)..Len(control.stimuli) :
              /\ due \in Seq(Stimulus)
              /\ Len(due) = m - control.next + 1
              /\ \A i \in 1..Len(due) : due[i] = control.stimuli[control.next + i - 1]
              /\ \A i \in control.next..m : control.stimuli[i].at <= now
              /\ m < Len(control.stimuli) => control.stimuli[m + 1].at > now
  BY DueIsNext DEF HubInv
<1>2. /\ acc \in Seq(Stimulus) /\ Len(acc) <= Len(due)
      /\ \A i \in 1..Len(acc) : acc[i] = due[i] /\ acc[i].pin \in BoardPin
      /\ ~Refused(due) => acc = due
  BY <1>1, AcceptedPrefix
<1>3. /\ control' = [control EXCEPT !.next = @ + Len(acc)]
      /\ stats' = [stats EXCEPT !.events = @ + Len(acc)]
      /\ board' = IF goes_on /\ refresh THEN Refresh(Apply(board, acc, now), pads, now)
                  ELSE Apply(board, acc, now)
      /\ dirty' = (touched /\ ~(goes_on /\ refresh))
      /\ phase' = "idle" \/ (phase' = "service" /\ ~Refused(due))
  BY DEF Top, Stop, Continue
<1> HIDE DEF due, limit
<1>4. dirty \in BOOLEAN
  BY DEF HubInv
<1>5. dirty' \in BOOLEAN
  BY <1>3
<1>6. \/ board' = Apply(board, acc, now) /\ (dirty' \/ ~dirty)
      \/ board' = Refresh(Apply(board, acc, now), pads, now)
  <2>1. CASE goes_on /\ refresh
    BY <1>3, <2>1
  <2>2. CASE ~(goes_on /\ refresh)
    <3>1. board' = Apply(board, acc, now)
      BY <1>3, <2>2
    <3>2. dirty' = touched
      BY <1>3, <2>2
    <3> QED BY <3>1, <3>2
  <2> QED BY <2>1, <2>2
<1>7. \A i \in 1..Len(acc) : i \in 1..Len(due)
  BY <1>1, <1>2, LenProperties
<1> HIDE DEF acc
<1> HIDE DEF touched, refresh, goes_on
<1>8. phase' # "idle" => phase' = "service" /\ Len(acc) = m - control.next + 1
  <2> SUFFICES ASSUME phase' # "idle" PROVE phase' = "service" /\ Len(acc) = m - control.next + 1
    OBVIOUS
  <2>1. phase' = "service" /\ ~Refused(due)
    BY <1>3
  <2>2. acc = due
    BY <1>2, <2>1
  <2>3. Len(acc) = Len(due)
    BY <2>2
  <2> QED BY <1>1, <2>1, <2>3
<1> acc \in Seq(Stimulus)
  BY <1>2
<1> WITNESS m \in (control.next - 1)..Len(control.stimuli), acc \in Seq(Stimulus)
<1> QED BY <1>1, <1>2, <1>3, <1>5, <1>6, <1>7, <1>8 DEF Taken

\* What the top of a pass leaves in the hub: the stimuli that it took hold.
LEMMA TopHub ==
    ASSUME ControlInv, HubInv, Top,
           NEW m \in (control.next - 1)..Len(control.stimuli), NEW acc \in Seq(Stimulus),
           Taken(m, acc)
    PROVE  /\ HubInv'
           /\ control'.stimuli = control.stimuli /\ control'.next = control.next + Len(acc)
           /\ \A p \in BoardPin : (\A i \in 1..Len(acc) : acc[i].pin # p) =>
                 board'.net[BoardSignal(p)]["external"] = board.net[BoardSignal(p)]["external"]
           /\ \A i \in 1..Len(acc) : (\A j \in 1..Len(acc) : j > i => acc[j].pin # acc[i].pin) =>
                 board'.net[BoardSignal(acc[i].pin)]["external"] = acc[i].value
<1> DEFINE c == Apply(board, acc, now)
<1>1. /\ trace.shown \in [Signal -> Logic] /\ trace.time \in Nat /\ now \in Nat
      /\ trace.time <= now /\ board \in Hub(trace.shown, trace.time, now)
      /\ pads \in [ChipPin -> PadRegisters] /\ pio_on \in BOOLEAN
      /\ trace \in [shown : [Signal -> Logic], time : Nat]
      /\ control.stimuli \in Seq(Stimulus) /\ control.next \in 1..(Len(control.stimuli) + 1)
  BY DEF HubInv
<1>2. UNCHANGED <<now, pads, pio_on, trace>>
  BY DEF Top
<1>3. \A i \in 1..Len(acc) : acc[i].pin \in BoardPin
  BY DEF Taken
<1>4. /\ c \in Hub(trace.shown, trace.time, now)
      /\ \A t \in Signal, d \in Driver \ {"external"} : c.net[t][d] = board.net[t][d]
      /\ \A p \in BoardPin : (\A i \in 1..Len(acc) : acc[i].pin # p) =>
            c.net[BoardSignal(p)]["external"] = board.net[BoardSignal(p)]["external"]
      /\ \A i \in 1..Len(acc) : (\A j \in 1..Len(acc) : j > i => acc[j].pin # acc[i].pin) =>
            c.net[BoardSignal(acc[i].pin)]["external"] = acc[i].value
  BY <1>1, <1>3, ApplyKeepsLast
<1>5. \/ board' = c /\ (dirty' \/ ~dirty)
      \/ board' = Refresh(c, pads, now)
  BY DEF Taken
<1> HIDE DEF c
<1>6. /\ board' \in Hub(trace.shown, trace.time, now)
      /\ \A t \in Signal : board'.net[t]["external"] = c.net[t]["external"]
      /\ ~dirty' => PadsMatch(board'.net, pads)
  <2>1. CASE board' = c /\ (dirty' \/ ~dirty)
    <3>1. ~dirty => PadsMatch(c.net, pads)
      <4>1. \A t \in Signal, d \in Driver : d # "external" => c.net[t][d] = board.net[t][d]
        BY <1>4
      <4> QED BY <4>1, PadsMatchKept DEF HubInv
    <3> QED BY <1>4, <2>1, <3>1
  <2>2. CASE board' = Refresh(c, pads, now)
    BY <1>1, <1>4, <2>2, RefreshSettles
  <2> QED BY <1>5, <2>1, <2>2
<1>7. \A p \in BoardPin : BoardSignal(p) \in Signal
  BY SignalsDiffer
<1>8. /\ control'.stimuli = control.stimuli /\ control'.next = control.next + Len(acc)
  <2>1. "next" \in DOMAIN control /\ "stimuli" \in DOMAIN control
    BY DEF ControlInv, WithinBudget
  <2> QED BY <2>1 DEF Taken
<1>9. control'.next \in 1..(Len(control'.stimuli) + 1)
  <2>1. Len(acc) \in Nat /\ Len(control.stimuli) \in Nat /\ Len(acc) <= m - control.next + 1
    BY <1>1, LenProperties DEF Taken
  <2> QED BY <1>1, <1>8, <2>1
<1>10. dirty' \in BOOLEAN
  BY DEF Taken
<1>11. HubInv'
  <2>1. /\ now' \in Nat /\ pio_on' \in BOOLEAN /\ trace' \in [shown : [Signal -> Logic], time : Nat]
        /\ trace'.time <= now' /\ pads' \in [ChipPin -> PadRegisters]
        /\ board' \in Hub(trace'.shown, trace'.time, now')
        /\ ~dirty' => PadsMatch(board'.net, pads')
    BY <1>1, <1>2, <1>6
  <2>2. control'.stimuli \in Seq(Stimulus)
    BY <1>1, <1>8
  <2> QED BY <1>9, <1>10, <2>1, <2>2 DEF HubInv
<1> QED BY <1>3, <1>4, <1>6, <1>7, <1>8, <1>11

\* A DMA transfer makes the pads stale, or fails before it does anything.
LEMMA DmaHub ==
    ASSUME HubInv, NEW a \in Access, Dma(a)
    PROVE  HubInv' /\ ExternalKept
<1>1. UNCHANGED <<now, control, trace>>
  BY DEF Dma
<1>2. CASE board' = BoardAfter(a) /\ pads' = PadsAfter(a) /\ pio_on' = PioAfter(a) /\ dirty' = TRUE
  <2>1. /\ BoardAfter(a) \in Hub(trace.shown, trace.time, now)
        /\ \A t \in Signal : BoardAfter(a).net[t]["external"] = board.net[t]["external"]
        /\ PadsAfter(a) \in [ChipPin -> PadRegisters]
        /\ PioAfter(a) \in BOOLEAN
    BY AccessInHub
  <2>2. dirty' \in BOOLEAN /\ dirty'
    BY <1>2
  <2>3. HubInv'
    BY <1>1, <1>2, <2>1, <2>2 DEF HubInv
  <2> QED BY <1>2, <2>1, <2>3 DEF ExternalKept
<1>3. CASE UNCHANGED <<hub_vars, dirty>>
  <2>1. HubSame
    BY <1>1, <1>3 DEF HubSame, hub_vars
  <2> QED BY <2>1, HubUnchanged
<1>4. (board' = BoardAfter(a) /\ pads' = PadsAfter(a) /\ pio_on' = PioAfter(a) /\ dirty' = TRUE)
      \/ UNCHANGED <<hub_vars, dirty>>
  BY DEF Dma
<1> QED BY <1>2, <1>3, <1>4

\* The service settles the pads before core 0 executes.
LEMMA ServiceHub ==
    ASSUME HubInv, NEW out \in PioValue, Service(out)
    PROVE  HubInv' /\ ExternalKept /\ (phase' = "core0" => ~dirty')
<1>1. UNCHANGED <<now, control, trace>>
  BY DEF Service
<1>2. CASE phase' = "idle" /\ UNCHANGED <<hub_vars, dirty>>
  <2>1. HubSame
    BY <1>1, <1>2 DEF HubSame, hub_vars
  <2> QED BY <1>2, <2>1, HubUnchanged
<1> DEFINE regs == IF pio_on THEN [p \in ChipPin |-> [pads[p] EXCEPT !.pio = out]] ELSE pads
<1>3. CASE /\ pads' = regs /\ dirty' = FALSE /\ UNCHANGED pio_on
           /\ board' = IF dirty \/ pio_on THEN Refresh(board, pads', now) ELSE board
  <2>1. /\ trace.shown \in [Signal -> Logic] /\ trace.time \in Nat /\ now \in Nat
        /\ trace.time <= now /\ board \in Hub(trace.shown, trace.time, now)
        /\ pads \in [ChipPin -> PadRegisters] /\ pio_on \in BOOLEAN
        /\ ~dirty => PadsMatch(board.net, pads)
    BY DEF HubInv
  <2>2. regs \in [ChipPin -> PadRegisters]
    <3>1. out \in Logic
      BY ValuesAssumption
    <3>2. \A p \in ChipPin : [pads[p] EXCEPT !.pio = out] \in PadRegisters
      BY <2>1, <3>1 DEF PadRegisters
    <3> QED BY <2>1, <3>2
  <2>3. pads' \in [ChipPin -> PadRegisters]
    BY <1>3, <2>2
  <2>4. ~pio_on => pads' = pads
    BY <1>3
  <2>5. /\ board' = IF dirty \/ pio_on THEN Refresh(board, pads', now) ELSE board
        /\ dirty' = FALSE /\ UNCHANGED pio_on
    BY <1>3
  <2> HIDE DEF regs
  <2>6. /\ board' \in Hub(trace.shown, trace.time, now)
        /\ PadsMatch(board'.net, pads')
        /\ ExternalKept
    <3>1. CASE dirty \/ pio_on
      <4>1. board' = Refresh(board, pads', now)
        BY <2>5, <3>1
      <4> QED BY <2>1, <2>3, <4>1, RefreshSettles DEF ExternalKept
    <3>2. CASE ~(dirty \/ pio_on)
      <4>1. board' = board /\ pads' = pads /\ ~dirty
        BY <2>4, <2>5, <3>2
      <4> QED BY <2>1, <4>1 DEF ExternalKept
    <3> QED BY <3>1, <3>2
  <2>7. dirty' \in BOOLEAN /\ ~dirty'
    BY <2>5
  <2>8. HubInv'
    BY <1>1, <2>1, <2>3, <2>5, <2>6, <2>7 DEF HubInv
  <2> QED BY <2>6, <2>7, <2>8
<1>4. \/ phase' = "idle" /\ UNCHANGED <<hub_vars, dirty>>
      \/ /\ pads' = regs /\ dirty' = FALSE /\ UNCHANGED pio_on
         /\ board' = IF dirty \/ pio_on THEN Refresh(board, pads', now) ELSE board
  BY DEF Service, Stop
<1> QED BY <1>2, <1>3, <1>4

\* What both cores do to the hub, and that they leave the stimuli alone.
LEMMA CoresHub ==
    ASSUME HubInv, NEW a \in Access, NEW pc \in PC, NEW outcome \in Outcome,
           Core0(a, pc, outcome) \/ Core1(a, pc, outcome)
    PROVE  HubInv' /\ ExternalKept
<1>1. Devices(a) /\ (now' = now \/ now' = now + 1) /\ UNCHANGED control
  BY DEF Core0, Core1, RomCall, Instruction, Faults, Advance
<1>2. (board' = BoardAfter(a) /\ UNCHANGED trace) \/ Record(BoardAfter(a))
  BY DEF Core0, Core1, RomCall, Instruction, Faults, Core1Stop
<1> QED BY <1>1, <1>2, CoreHub

\* A launch and a breakpoint of core 1 leave the hub alone.
LEMMA LaunchHub ==
    ASSUME HubInv, Launch \/ Core1Breakpoint
    PROVE  HubInv' /\ ExternalKept
<1>1. HubSame
  BY DEF Launch, Core1Breakpoint, HubSame, hub_vars
<1> QED BY <1>1, HubUnchanged

\* Every action keeps the hub invariant.
LEMMA HubStep ==
    ASSUME ControlInv, HubInv, ArmNext
    PROVE  HubInv'
<1>1. CASE Top
  <2>1. PICK m \in (control.next - 1)..Len(control.stimuli), acc \in Seq(Stimulus) : Taken(m, acc)
    BY <1>1, TopApplies
  <2> QED BY <1>1, <2>1, TopHub
<1>2. ASSUME NEW a \in Access, Dma(a) PROVE HubInv'
  BY <1>2, DmaHub
<1>3. ASSUME NEW out \in PioValue, Service(out) PROVE HubInv'
  BY <1>3, ServiceHub
<1>4. ASSUME NEW a \in Access, NEW pc \in PC, NEW outcome \in Outcome,
             Core0(a, pc, outcome) \/ Core1(a, pc, outcome)
      PROVE  HubInv'
  BY <1>4, CoresHub
<1>5. CASE Launch \/ Core1Breakpoint
  BY <1>5, LaunchHub
<1>6. CASE Debugger
  BY <1>6, DebuggerHub
<1> QED BY <1>1, <1>2, <1>3, <1>4, <1>5, <1>6 DEF ArmNext, Loop

(***************************************************************************)
(* The pads, the trace, the signal stops and the stimuli.                   *)
(***************************************************************************)

\* The service never lets core 0 execute with stale pads.
Settled == phase = "core0" => ~dirty

\* Where a step can lead, and when core 0 comes next.
LEMMA Phases ==
    ASSUME ArmNext
    PROVE  /\ phase' = "core0" => \E out \in PioValue : Service(out)
           /\ phase' \in {"service", "serviced"} => Top \/ \E a \in Access : Dma(a)
<1>1. CASE Top
  BY <1>1 DEF Top, Stop, Continue
<1>2. ASSUME NEW a \in Access, Dma(a) PROVE phase' \in {"idle", "serviced"}
  BY <1>2 DEF Dma, Stop, Continue
<1>3. ASSUME NEW out \in PioValue, Service(out) PROVE phase' \in {"idle", "core0"}
  BY <1>3 DEF Service, Stop, Continue
<1>4. ASSUME NEW a \in Access, NEW pc \in PC, NEW outcome \in Outcome,
             Core0(a, pc, outcome) \/ Core1(a, pc, outcome)
      PROVE  phase' \in {"idle", "top", "core1"}
  <2>1. CASE Core0(a, pc, outcome)
    BY <2>1 DEF Core0, RomCall, Instruction, Faults, Recorded, Stop, Continue
  <2>2. CASE Core1(a, pc, outcome)
    BY <2>2 DEF Core1, Faults, Core1Stop, Recorded, Stop, Continue
  <2> QED BY <1>4, <2>1, <2>2
<1>5. CASE Launch \/ Core1Breakpoint
  BY <1>5 DEF Launch, Core1Breakpoint, Stop, Continue
<1>6. CASE Debugger
  BY <1>6 DEF Debugger, Begin, SetDebug, DebugMemory, HostPin, HostAccess, Stop, run_vars
<1> QED BY <1>1, <1>2, <1>3, <1>4, <1>5, <1>6 DEF ArmNext, Loop

\* Every action keeps the pads settled for core 0.
LEMMA SettledStep ==
    ASSUME HubInv, ArmNext
    PROVE  Settled'
BY Phases, ServiceHub DEF Settled

\* The hub invariant holds in every state of every run: the queue of the hub is in
\* order and tells its reader every value, and clean pads match their registers.
THEOREM HubInvariance == ArmSpec => [](HubInv /\ Settled)
<1>1. ArmInit => HubInv /\ Settled
  BY HubInitially DEF ArmInit, Settled
<1>2. ControlInv /\ HubInv /\ Settled /\ [ArmNext]_arm_vars => (HubInv /\ Settled)'
  <2> SUFFICES ASSUME ControlInv, HubInv, Settled, [ArmNext]_arm_vars PROVE HubInv' /\ Settled'
    OBVIOUS
  <2>1. CASE ArmNext
    BY <2>1, HubStep, SettledStep
  <2>2. CASE UNCHANGED arm_vars
    <3>1. HubSame /\ UNCHANGED <<phase, dirty>>
      BY <2>2 DEF arm_vars, run_vars, hub_vars, HubSame
    <3> QED BY <3>1, HubUnchanged DEF Settled
  <2> QED BY <2>1, <2>2
<1> QED BY <1>1, <1>2, ControlInvariance, PTL DEF ArmSpec

\* When core 0 executes, every pad is driven by what the multiplexer selects from
\* the registers as they are now, although the refresh is skipped whenever
\* pio_runtime_dirty says that nothing moved.
THEOREM PadsCorrect == ArmSpec => []PadsCurrent
<1>1. HubInv /\ Settled => PadsCurrent
  BY DEF HubInv, Settled, PadsCurrent, PadsMatch
<1> QED BY <1>1, HubInvariance, PTL

\* The timestamps of the queue, between that of the last change streamed and the
\* time, never run backwards.
LEMMA StampsOrdered ==
    ASSUME NEW changes \in Seq(Change), NEW from \in Nat, NEW to \in Nat, from <= to,
           Ordered(changes, from, to)
    PROVE  LET stamps == <<from>> \o [i \in DOMAIN changes |-> changes[i].at] \o <<to>>
           IN  \A i \in 1..(Len(stamps) - 1) : stamps[i] <= stamps[i + 1]
<1> DEFINE n == Len(changes)
           middle == [i \in DOMAIN changes |-> changes[i].at]
           front == <<from>> \o middle
           back == <<to>>
           stamps == front \o back
<1>1. n \in Nat /\ DOMAIN changes = 1..n /\ \A i \in 1..n : changes[i].at \in Nat
  BY LenProperties, ElementOfSeq, ChangeFields
<1>2. middle \in Seq(Nat) /\ Len(middle) = n /\ \A i \in 1..n : middle[i] = changes[i].at
  <2>1. middle \in [1..n -> Nat]
    BY <1>1
  <2>2. middle \in Seq(Nat)
    BY <1>1, <2>1, SeqDef
  <2>3. DOMAIN middle = 1..n /\ DOMAIN middle = 1..Len(middle) /\ Len(middle) \in Nat
    BY <2>1, <2>2, LenProperties
  <2>4. Len(middle) = n
    <3> HIDE DEF middle, n
    <3> QED BY <1>1, <2>3
  <2> QED BY <1>1, <2>2, <2>4
<1>3. <<from>> \in Seq(Nat) /\ Len(<<from>>) = 1 /\ <<from>>[1] = from
      /\ back \in Seq(Nat) /\ Len(back) = 1 /\ back[1] = to
  OBVIOUS
<1> HIDE DEF n, middle, back
<1>4. /\ front \in Seq(Nat) /\ Len(front) = 1 + n /\ front[1] = from
      /\ \A i \in 1..n : front[1 + i] = changes[i].at
  <2>1. /\ front \in Seq(Nat) /\ Len(front) = 1 + n
        /\ \A i \in 1..(1 + n) : front[i] = IF i <= 1 THEN <<from>>[i] ELSE middle[i - 1]
    BY <1>2, <1>3, ConcatProperties
  <2>2. front[1] = from
    BY <1>1, <1>3, <2>1
  <2>3. \A i \in 1..n : front[1 + i] = middle[i]
    BY <1>1, <2>1
  <2> QED BY <1>2, <2>1, <2>2, <2>3
<1> HIDE DEF front
<1>5. /\ Len(stamps) = n + 2 /\ stamps[1] = from /\ stamps[n + 2] = to
      /\ \A i \in 1..n : stamps[1 + i] = changes[i].at
  <2>1. /\ Len(stamps) = (1 + n) + 1
        /\ \A i \in 1..((1 + n) + 1) : stamps[i] = IF i <= 1 + n THEN front[i] ELSE back[i - (1 + n)]
    <3>1. /\ Len(stamps) = Len(front) + Len(back)
          /\ \A i \in 1..(Len(front) + Len(back)) :
                stamps[i] = IF i <= Len(front) THEN front[i] ELSE back[i - Len(front)]
      BY <1>3, <1>4, ConcatProperties
    <3> HIDE DEF stamps
    <3>2. Len(front) = 1 + n /\ Len(back) = 1
      BY <1>3, <1>4
    <3> QED BY <3>1, <3>2, Zenon
  <2>2. stamps[n + 2] = to
    <3>1. n + 2 \in 1..((1 + n) + 1) /\ ~(n + 2 <= 1 + n) /\ (n + 2) - (1 + n) = 1
      BY <1>1
    <3> QED BY <1>3, <2>1, <3>1
  <2>3. \A i \in 1..(1 + n) : stamps[i] = front[i]
    BY <1>1, <2>1
  <2>4. \A i \in 1..n : 1 + i \in 1..(1 + n)
    BY <1>1
  <2>5. 1 \in 1..(1 + n)
    BY <1>1
  <2>6. Len(stamps) = n + 2
    BY <1>1, <2>1
  <2> HIDE DEF stamps
  <2> QED BY <1>4, <2>2, <2>3, <2>4, <2>5, <2>6
<1> HIDE DEF stamps
<1>6. /\ \A i \in 1..n : from <= changes[i].at /\ changes[i].at <= to
      /\ \A i, j \in 1..n : i <= j => changes[i].at <= changes[j].at
  BY DEF Ordered, n
<1>7. ASSUME NEW i \in 1..(n + 1) PROVE stamps[i] <= stamps[i + 1]
  <2>1. CASE n = 0
    <3>1. i = 1 /\ i + 1 = n + 2
      BY <2>1
    <3> QED BY <1>5, <3>1
  <2>2. CASE n # 0 /\ i = 1
    <3>1. 1 \in 1..n
      BY <1>1, <2>2
    <3> QED BY <1>5, <1>6, <2>2, <3>1
  <2>3. CASE n # 0 /\ i = n + 1
    <3>1. n \in 1..n /\ i = 1 + n /\ i + 1 = n + 2
      BY <1>1, <2>3
    <3> QED BY <1>5, <1>6, <3>1
  <2>4. CASE i \in 2..n
    <3>1. i - 1 \in 1..n /\ i \in 1..n /\ i - 1 <= i /\ i = 1 + (i - 1) /\ i + 1 = 1 + i
      BY <1>1, <2>4
    <3>2. stamps[i] = changes[i - 1].at /\ stamps[i + 1] = changes[i].at
      BY <1>5, <3>1
    <3>3. changes[i - 1].at <= changes[i].at
      BY <1>6, <3>1
    <3> QED BY <3>2, <3>3
  <2> QED BY <1>1, <2>1, <2>2, <2>3, <2>4
<1>8. \A i \in 1..(Len(stamps) - 1) : stamps[i] <= stamps[i + 1]
  <2>1. Len(stamps) - 1 = n + 1
    BY <1>1, <1>5
  <2> QED BY <1>7, <2>1
<1> QED BY <1>8 DEF stamps, front, middle, back

\* Whoever reads the trace of a run and adds the changes still in the hub knows
\* the value of every signal, and the timestamps never run backwards, so the VCD
\* writer never refuses a change.
THEOREM TraceCorrect == ArmSpec => []TraceFaithful
<1>1. HubInv => TraceFaithful
  <2> SUFFICES ASSUME HubInv PROVE TraceFaithful
    OBVIOUS
  <2>1. /\ trace.shown \in [Signal -> Logic] /\ trace.time \in Nat /\ now \in Nat
        /\ trace.time <= now /\ board \in Hub(trace.shown, trace.time, now)
    BY DEF HubInv
  <2>2. Replay(trace.shown, board.changes) = board.values
    BY <2>1, ReplayTells
  <2>3. board.changes \in Seq(Change) /\ Ordered(board.changes, trace.time, now)
    BY <2>1 DEF Hub, Board
  <2> DEFINE stamps == <<trace.time>> \o [i \in DOMAIN board.changes |-> board.changes[i].at]
                       \o <<now>>
  <2>4. \A i \in 1..(Len(stamps) - 1) : stamps[i] <= stamps[i + 1]
    BY <2>1, <2>3, StampsOrdered
  <2> QED BY <2>2, <2>4 DEF TraceFaithful
<1> QED BY <1>1, HubInvariance, PTL

\* The stops are a list, and what has matched is what the last run reported.
StopInv ==
    /\ debug.stops \in Seq([signal : Signal, edge : {"change", "rising", "falling"}])
    /\ matched \in Signal \cup {None}
    /\ SignalStopExact

\* A stop that matches names a signal.
LEMMA MatchingStopSignal ==
    ASSUME StopInv, NEW change
    PROVE  MatchingStop(change) \in Signal \cup {None}
<1> DEFINE fired == {i \in DOMAIN debug.stops : Triggers(debug.stops[i], change)}
<1>1. Len(debug.stops) \in Nat /\ DOMAIN debug.stops = 1..Len(debug.stops)
  BY LenProperties DEF StopInv
<1>2. MatchingStop(change) = IF fired = {} THEN None ELSE debug.stops[Min(fired)].signal
  BY DEF MatchingStop
<1>3. fired # {} => Min(fired) \in fired
  <2>1. fired \in SUBSET Nat /\ \A i \in fired : i \in 1..Len(debug.stops)
    BY <1>1
  <2> HIDE DEF fired
  <2> QED BY <2>1, MinOfNaturals
<1>4. fired # {} => Min(fired) \in 1..Len(debug.stops)
  BY <1>1, <1>3
<1> HIDE DEF fired
<1>5. fired # {} => debug.stops[Min(fired)].signal \in Signal
  <2> SUFFICES ASSUME fired # {} PROVE debug.stops[Min(fired)].signal \in Signal
    OBVIOUS
  <2>1. debug.stops[Min(fired)] \in [signal : Signal, edge : {"change", "rising", "falling"}]
    BY <1>4, ElementOfSeq DEF StopInv
  <2> QED BY <2>1
<1> QED BY <1>2, <1>5

\* A step that records nothing and ends no run with a signal stop.
LEMMA StopQuiet ==
    ASSUME StopInv, phase # "idle", UNCHANGED <<matched, debug>>,
           phase' # "idle" \/ reason'.kind # "Signal"
    PROVE  StopInv'
BY DEF StopInv, SignalStopExact

\* record_signals finds the first match, and the pass ends accordingly.
LEMMA StopRecorded ==
    ASSUME HubInv, StopInv, phase # "idle", UNCHANGED debug,
           NEW b \in Hub(trace.shown, trace.time, now), Record(b),
           \/ phase' = "idle" /\ reason' = [kind |-> "Error"]
           \/ /\ FirstMatch(b.changes) # None
              /\ phase' = "idle" /\ reason' = [kind |-> "Signal", path |-> FirstMatch(b.changes)]
           \/ FirstMatch(b.changes) = None /\ (phase' # "idle" \/ reason'.kind # "Signal")
    PROVE  StopInv'
<1> DEFINE hits == Matching(b.changes)
           first == MatchingStop(b.changes[Min(hits)])
<1>1. b.changes \in Seq(Change)
  BY DEF Hub, Board
<1>2. Len(b.changes) \in Nat /\ DOMAIN b.changes = 1..Len(b.changes)
  BY <1>1, LenProperties
<1>3. FirstMatch(b.changes) = IF hits = {} THEN None ELSE first
  BY <1>2, FirstMatchIsFirst
<1>4. matched = None
  BY DEF StopInv, SignalStopExact
<1>5. matched' = IF matched = None /\ hits # {} THEN first ELSE matched
  BY DEF Record
<1>6. first \in Signal \cup {None}
  BY MatchingStopSignal
<1> HIDE DEF hits, first
<1>7. matched' = FirstMatch(b.changes) /\ matched' \in Signal \cup {None}
  BY <1>3, <1>4, <1>5, <1>6
<1>8. SignalStopExact'
  BY <1>7 DEF SignalStopExact
<1> QED BY <1>7, <1>8 DEF StopInv

\* What an instruction of either core does to the signal stops.
LEMMA CoreStops ==
    ASSUME HubInv, StopInv, NEW a \in Access, NEW pc \in PC, NEW outcome \in Outcome,
           Core0(a, pc, outcome) \/ Core1(a, pc, outcome)
    PROVE  StopInv'
<1> DEFINE b == BoardAfter(a)
<1>1. b \in Hub(trace.shown, trace.time, now)
  BY AccessInHub
<1>2. phase # "idle" /\ UNCHANGED debug
  BY DEF Core0, Core1
<1>3. \/ UNCHANGED matched /\ (phase' # "idle" \/ reason'.kind # "Signal")
      \/ /\ Record(b)
         /\ \/ phase' = "idle" /\ reason' = [kind |-> "Error"]
            \/ /\ FirstMatch(b.changes) # None
               /\ phase' = "idle" /\ reason' = [kind |-> "Signal", path |-> FirstMatch(b.changes)]
            \/ FirstMatch(b.changes) = None /\ (phase' # "idle" \/ reason'.kind # "Signal")
  <2>1. CASE Core0(a, pc, outcome)
    BY <2>1 DEF Core0, RomCall, Instruction, Faults, Recorded, Stop, Continue
  <2>2. CASE Core1(a, pc, outcome)
    BY <2>2 DEF Core1, Faults, Core1Stop, Recorded, Stop, Continue
  <2> QED BY <2>1, <2>2
<1> HIDE DEF b
<1> QED BY <1>1, <1>2, <1>3, StopQuiet, StopRecorded

\* Every action keeps the stop invariant.
LEMMA StopStep ==
    ASSUME HubInv, StopInv, ArmNext
    PROVE  StopInv'
<1>1. CASE Top
  <2>1. phase' # "idle" \/ reason'.kind # "Signal"
    BY <1>1, LimitKinds, LimitsAssumption DEF Top, Stop, Continue
  <2>2. phase # "idle" /\ UNCHANGED <<matched, debug>>
    BY <1>1 DEF Top
  <2> QED BY <2>1, <2>2, StopQuiet
<1>2. ASSUME NEW a \in Access, Dma(a) PROVE StopInv'
  <2>1. /\ phase # "idle" /\ UNCHANGED <<matched, debug>>
        /\ phase' # "idle" \/ reason'.kind # "Signal"
    BY <1>2 DEF Dma, Stop, Continue
  <2> QED BY <2>1, StopQuiet
<1>3. ASSUME NEW out \in PioValue, Service(out) PROVE StopInv'
  <2>1. /\ phase # "idle" /\ UNCHANGED <<matched, debug>>
        /\ phase' # "idle" \/ reason'.kind # "Signal"
    BY <1>3 DEF Service, Stop, Continue
  <2> QED BY <2>1, StopQuiet
<1>4. ASSUME NEW a \in Access, NEW pc \in PC, NEW outcome \in Outcome,
             Core0(a, pc, outcome) \/ Core1(a, pc, outcome)
      PROVE  StopInv'
  BY <1>4, CoreStops
<1>5. CASE Launch \/ Core1Breakpoint
  <2>1. /\ phase # "idle" /\ UNCHANGED <<matched, debug>>
        /\ phase' # "idle" \/ reason'.kind # "Signal"
    BY <1>5 DEF Launch, Core1Breakpoint, Stop, Continue
  <2> QED BY <2>1, StopQuiet
<1>6. ASSUME NEW limits \in Limits, NEW stimuli \in StimulusLists, Begin(limits, stimuli)
      PROVE  StopInv'
  <2>1. /\ UNCHANGED debug
        /\ \/ matched' = None /\ phase' = "top"
           \/ UNCHANGED matched /\ phase' = "idle" /\ reason' = [kind |-> "Error"]
    BY <1>6 DEF Begin, Stop
  <2> QED BY <2>1 DEF StopInv, SignalStopExact
<1>7. ASSUME NEW setup \in DebugSetups, SetDebug(setup) PROVE StopInv'
  <2>1. debug' = setup /\ UNCHANGED <<phase, reason, matched>>
    BY <1>7 DEF SetDebug, run_vars
  <2>2. debug'.stops \in Seq([signal : Signal, edge : {"change", "rising", "falling"}])
    BY <2>1, StopsAssumption
  <2> QED BY <2>1, <2>2 DEF StopInv, SignalStopExact
<1>8. ASSUME HostAccess PROVE StopInv'
  BY <1>8 DEF HostAccess, StopInv, SignalStopExact
<1> QED BY <1>1, <1>2, <1>3, <1>4, <1>5, <1>6, <1>7, <1>8
        DEF ArmNext, Loop, Debugger, DebugMemory, HostPin

\* The stop invariant holds in every state: record_signals and the breaks of the
\* loop agree on whether, and for which signal, a run stopped.
THEOREM StopInvariance == ArmSpec => []StopInv
<1>1. ArmInit => StopInv
  <2>1. << >> \in Seq([signal : Signal, edge : {"change", "rising", "falling"}])
    BY EmptySeq
  <2> QED BY <2>1 DEF ArmInit, StopInv, SignalStopExact
<1>2. HubInv /\ StopInv /\ [ArmNext]_arm_vars => StopInv'
  <2> SUFFICES ASSUME HubInv, StopInv, [ArmNext]_arm_vars PROVE StopInv'
    OBVIOUS
  <2>1. CASE ArmNext
    BY <2>1, StopStep
  <2>2. CASE UNCHANGED arm_vars
    BY <2>2 DEF arm_vars, run_vars, StopInv, SignalStopExact
  <2> QED BY <2>1, <2>2
<1> QED BY <1>1, <1>2, HubInvariance, PTL DEF ArmSpec

\* A run stops for a signal exactly when a change it recorded triggers one of the
\* installed stops, it reports the first such change, and no run goes on past one.
THEOREM StopsCorrect == ArmSpec => []SignalStopExact
<1>1. StopInv => SignalStopExact
  BY DEF StopInv
<1> QED BY <1>1, StopInvariance, PTL

\* The stimuli of the run that are behind next_stimulus.
Passed == 1..(control.next - 1)

\* The list is the given one in order of time; what is behind next_stimulus was due,
\* and the last of it on each pin holds; after the top of a pass the rest is not due.
StimuliInv ==
    /\ given \in Seq(Stimulus)
    /\ phase # "idle" =>
          /\ SortOf(control.stimuli, given)
          /\ \A i \in Passed : control.stimuli[i].at <= now /\ control.stimuli[i].pin \in BoardPin
          /\ \A i \in Passed :
                (\A j \in Passed : j > i => control.stimuli[j].pin # control.stimuli[i].pin) =>
                   board.net[BoardSignal(control.stimuli[i].pin)]["external"]
                      = control.stimuli[i].value
    /\ phase \in {"service", "serviced", "core0"} =>
          \A i \in control.next..Len(control.stimuli) : control.stimuli[i].at > now

\* A sorted list is in order of time.
LEMMA SortedInTime ==
    ASSUME NEW stimuli \in Seq(Stimulus), NEW sorted \in Seq(Stimulus), SortOf(sorted, stimuli),
           NEW i \in 1..Len(sorted), NEW j \in 1..Len(sorted), i <= j
    PROVE  sorted[i].at <= sorted[j].at
<1> DEFINE n == Len(stimuli)
<1>1. PICK place \in [1..n -> 1..n] : SortedBy(sorted, stimuli, n, place)
  BY DEF SortOf
<1>2. n \in Nat /\ \A k \in 1..n : stimuli[k].at \in Nat
  BY LenProperties, ElementOfSeq, StimulusFields
<1> HIDE DEF n
<1>3. /\ i \in 1..n /\ j \in 1..n /\ sorted[i] = stimuli[place[i]] /\ sorted[j] = stimuli[place[j]]
      /\ i < j => Precedes(stimuli, place[i], place[j])
  BY <1>1 DEF SortedBy
<1>4. place[i] \in 1..n /\ place[j] \in 1..n
  BY <1>1, <1>3
<1>5. CASE i = j
  BY <1>2, <1>3, <1>4, <1>5
<1>6. CASE i < j
  BY <1>2, <1>3, <1>4, <1>6, PrecedesInTime
<1> QED BY <1>2, <1>3, <1>5, <1>6

\* A step of the loop that moves no external driver and lets time pass only where
\* the stimuli are looked at again before core 0.
LEMMA StimuliKept ==
    ASSUME HubInv, StimuliInv, phase # "idle", UNCHANGED <<control, given>>,
           now' = now \/ now' = now + 1, ExternalKept,
           phase' \in {"service", "serviced", "core0"} =>
              now' = now /\ phase \in {"service", "serviced", "core0"}
    PROVE  StimuliInv'
<1>1. now \in Nat /\ control.stimuli \in Seq(Stimulus) /\ control.next \in 1..(Len(control.stimuli) + 1)
  BY DEF HubInv
<1>2. Passed' = Passed
  BY DEF Passed
<1>3. \A i \in Passed : i \in 1..Len(control.stimuli)
  BY <1>1, LenProperties DEF Passed
<1>4. \A i \in Passed : control.stimuli[i].at \in Nat
  BY <1>1, <1>3, ElementOfSeq, StimulusFields
<1>5. \A i \in Passed : control.stimuli[i].at <= now /\ control.stimuli[i].pin \in BoardPin
  BY DEF StimuliInv
<1>6. \A i \in Passed : control.stimuli[i].at <= now'
  BY <1>1, <1>4, <1>5
<1>7. \A p \in BoardPin : board'.net[BoardSignal(p)]["external"] = board.net[BoardSignal(p)]["external"]
  BY SignalsDiffer DEF ExternalKept
<1>8. \A i \in Passed :
         (\A j \in Passed : j > i => control.stimuli[j].pin # control.stimuli[i].pin) =>
            board'.net[BoardSignal(control.stimuli[i].pin)]["external"] = control.stimuli[i].value
  BY <1>5, <1>7 DEF StimuliInv
<1>9. given' \in Seq(Stimulus) /\ SortOf(control'.stimuli, given')
  BY DEF StimuliInv
<1>10. phase' \in {"service", "serviced", "core0"} =>
          \A i \in control'.next..Len(control'.stimuli) : control'.stimuli[i].at > now'
  BY DEF StimuliInv
<1> QED BY <1>2, <1>5, <1>6, <1>8, <1>9, <1>10 DEF StimuliInv

\* The top of a pass takes everything that is due, in order.
LEMMA TopStimuli ==
    ASSUME ControlInv, HubInv, StimuliInv, Top
    PROVE  StimuliInv'
<1> DEFINE list == control.stimuli
           first == control.next
<1>1. PICK m \in (control.next - 1)..Len(control.stimuli), acc \in Seq(Stimulus) : Taken(m, acc)
  BY TopApplies
<1> DEFINE k == Len(acc)
<1>2. /\ control'.stimuli = list /\ control'.next = first + k
      /\ \A p \in BoardPin : (\A i \in 1..k : acc[i].pin # p) =>
            board'.net[BoardSignal(p)]["external"] = board.net[BoardSignal(p)]["external"]
      /\ \A i \in 1..k : (\A j \in 1..k : j > i => acc[j].pin # acc[i].pin) =>
            board'.net[BoardSignal(acc[i].pin)]["external"] = acc[i].value
  BY <1>1, TopHub
<1>3. /\ k <= m - first + 1
      /\ \A i \in 1..k : acc[i] = list[first + i - 1] /\ acc[i].pin \in BoardPin
      /\ \A i \in first..m : list[i].at <= now
      /\ m < Len(list) => list[m + 1].at > now
      /\ phase' # "idle" => phase' = "service" /\ k = m - first + 1
  BY <1>1 DEF Taken
<1>4. /\ k \in Nat /\ Len(list) \in Nat /\ first \in 1..(Len(list) + 1) /\ list \in Seq(Stimulus)
      /\ m \in (first - 1)..Len(list) /\ now \in Nat
  BY <1>1, LenProperties DEF HubInv
<1>5. phase = "top" /\ UNCHANGED <<given, now>>
  BY DEF Top
<1>6. /\ SortOf(list, given) /\ given \in Seq(Stimulus)
      /\ \A i \in 1..(first - 1) : list[i].at <= now /\ list[i].pin \in BoardPin
      /\ \A i \in 1..(first - 1) :
            (\A j \in 1..(first - 1) : j > i => list[j].pin # list[i].pin) =>
               board.net[BoardSignal(list[i].pin)]["external"] = list[i].value
  BY <1>5 DEF StimuliInv, Passed
<1>7. \A i \in 1..Len(list) : list[i].at \in Nat
  BY <1>4, ElementOfSeq, StimulusFields
<1> HIDE DEF list, first, k
<1>8. Passed' = 1..(first + k - 1)
  <2>1. control'.next = first + k
    BY <1>2
  <2> QED BY <1>4, <2>1 DEF Passed
<1>9. \A i \in 1..k : first + i - 1 \in first..(first + k - 1) /\ first + i - 1 \in 1..(first + k - 1)
  BY <1>4
<1>10. \A i \in 1..(first + k - 1) : i \in 1..(first - 1) \/ (i - first + 1 \in 1..k /\ i \in first..m
                                                            /\ first + (i - first + 1) - 1 = i)
  BY <1>3, <1>4
<1>11. \A i \in 1..(first + k - 1) : list[i].at <= now /\ list[i].pin \in BoardPin
  <2> SUFFICES ASSUME NEW i \in 1..(first + k - 1) PROVE list[i].at <= now /\ list[i].pin \in BoardPin
    OBVIOUS
  <2>1. CASE i \in 1..(first - 1)
    BY <1>6, <2>1
  <2>2. CASE i - first + 1 \in 1..k /\ i \in first..m /\ first + (i - first + 1) - 1 = i
    BY <1>3, <2>2
  <2> QED BY <1>10, <2>1, <2>2
<1>12. ASSUME NEW i \in 1..(first + k - 1),
              \A j \in 1..(first + k - 1) : j > i => list[j].pin # list[i].pin
       PROVE  board'.net[BoardSignal(list[i].pin)]["external"] = list[i].value
  <2>1. CASE i \in 1..(first - 1)
    <3>1. \A x \in 1..k : acc[x].pin # list[i].pin
      <4> SUFFICES ASSUME NEW x \in 1..k PROVE acc[x].pin # list[i].pin
        OBVIOUS
      <4>1. first + x - 1 \in 1..(first + k - 1) /\ first + x - 1 > i
        BY <1>4, <2>1
      <4>2. list[first + x - 1].pin # list[i].pin
        BY <1>12, <4>1
      <4> QED BY <1>3, <4>2
    <3>2. board'.net[BoardSignal(list[i].pin)]["external"] = board.net[BoardSignal(list[i].pin)]["external"]
      BY <1>2, <1>11, <3>1
    <3>3. \A j \in 1..(first - 1) : j > i => list[j].pin # list[i].pin
      <4>1. \A j \in 1..(first - 1) : j \in 1..(first + k - 1)
        BY <1>4
      <4> QED BY <1>12, <4>1
    <3>4. board.net[BoardSignal(list[i].pin)]["external"] = list[i].value
      BY <1>6, <2>1, <3>3
    <3> QED BY <3>2, <3>4
  <2>2. CASE i - first + 1 \in 1..k /\ i \in first..m /\ first + (i - first + 1) - 1 = i
    <3> DEFINE x == i - first + 1
    <3>1. x \in 1..k /\ acc[x] = list[i]
      BY <1>3, <2>2
    <3>2. \A j \in 1..k : j > x => acc[j].pin # acc[x].pin
      <4> SUFFICES ASSUME NEW j \in 1..k, j > x PROVE acc[j].pin # acc[x].pin
        OBVIOUS
      <4>1. first + j - 1 \in 1..(first + k - 1) /\ first + j - 1 > i
        BY <1>4, <2>2
      <4>2. list[first + j - 1].pin # list[i].pin
        BY <1>12, <4>1
      <4> HIDE DEF x
      <4> QED BY <1>3, <3>1, <4>2
    <3> HIDE DEF x
    <3> QED BY <1>2, <3>1, <3>2
  <2> QED BY <1>10, <2>1, <2>2
<1>13. phase' # "idle" => \A i \in (first + k)..Len(list) : list[i].at > now
  <2> SUFFICES ASSUME phase' # "idle", NEW i \in (first + k)..Len(list) PROVE list[i].at > now
    OBVIOUS
  <2>1. first + k = m + 1 /\ m < Len(list) /\ m + 1 \in 1..Len(list) /\ i \in 1..Len(list) /\ m + 1 <= i
    BY <1>3, <1>4
  <2>2. list[m + 1].at <= list[i].at
    BY <1>4, <1>6, <2>1, SortedInTime
  <2>3. list[m + 1].at > now /\ list[m + 1].at \in Nat /\ list[i].at \in Nat
    BY <1>3, <1>7, <2>1
  <2> QED BY <1>4, <2>2, <2>3
<1>14. /\ given' \in Seq(Stimulus) /\ SortOf(control'.stimuli, given')
       /\ \A i \in Passed' : control'.stimuli[i].at <= now' /\ control'.stimuli[i].pin \in BoardPin
  BY <1>2, <1>5, <1>6, <1>8, <1>11
<1>15. \A i \in Passed' :
          (\A j \in Passed' : j > i => control'.stimuli[j].pin # control'.stimuli[i].pin) =>
             board'.net[BoardSignal(control'.stimuli[i].pin)]["external"] = control'.stimuli[i].value
  BY <1>2, <1>8, <1>12
<1>16. phase' \in {"service", "serviced", "core0"} =>
          \A i \in control'.next..Len(control'.stimuli) : control'.stimuli[i].at > now'
  BY <1>2, <1>5, <1>13
<1> QED BY <1>14, <1>15, <1>16 DEF StimuliInv

\* A run begins with its list sorted and nothing passed.
LEMMA BeginStimuli ==
    ASSUME StimuliInv, NEW limits \in Limits, NEW stimuli \in StimulusLists, Begin(limits, stimuli)
    PROVE  StimuliInv'
<1>1. \/ phase' = "idle" /\ UNCHANGED given
      \/ /\ phase' = "top" /\ given' = stimuli
         /\ control' = [limits |-> limits, stimuli |-> StableSort(stimuli), next |-> 1]
  BY DEF Begin, Stop
<1>2. CASE phase' = "idle" /\ UNCHANGED given
  BY <1>2 DEF StimuliInv
<1>3. CASE /\ phase' = "top" /\ given' = stimuli
           /\ control' = [limits |-> limits, stimuli |-> StableSort(stimuli), next |-> 1]
  <2>1. stimuli \in Seq(Stimulus)
    BY StimuliAssumption DEF Stimulus
  <2>2. SortOf(StableSort(stimuli), stimuli)
    BY <2>1, StableSortSorts
  <2>3. Passed' = {}
    BY <1>3 DEF Passed
  <2>4. given' \in Seq(Stimulus) /\ SortOf(control'.stimuli, given')
    BY <1>3, <2>1, <2>2
  <2> QED BY <1>3, <2>3, <2>4 DEF StimuliInv
<1> QED BY <1>1, <1>2, <1>3

\* Every action keeps the stimuli invariant.
LEMMA StimuliStep ==
    ASSUME ControlInv, HubInv, StimuliInv, ArmNext
    PROVE  StimuliInv'
<1>1. CASE Top
  BY <1>1, TopStimuli
<1>2. ASSUME NEW a \in Access, Dma(a) PROVE StimuliInv'
  <2>1. phase = "service" /\ UNCHANGED <<now, control, given>>
    BY <1>2 DEF Dma
  <2> QED BY <1>2, <2>1, DmaHub, StimuliKept
<1>3. ASSUME NEW out \in PioValue, Service(out) PROVE StimuliInv'
  <2>1. phase \in {"service", "serviced"} /\ UNCHANGED <<now, control, given>>
    BY <1>3 DEF Service
  <2> QED BY <1>3, <2>1, ServiceHub, StimuliKept
<1>4. ASSUME NEW a \in Access, NEW pc \in PC, NEW outcome \in Outcome,
             Core0(a, pc, outcome) \/ Core1(a, pc, outcome)
      PROVE  StimuliInv'
  <2>1. phase # "idle" /\ (now' = now \/ now' = now + 1) /\ UNCHANGED <<control, given>>
    BY <1>4 DEF Core0, Core1, RomCall, Instruction, Faults, Advance
  <2>2. phase' \notin {"service", "serviced", "core0"}
    <3>1. CASE Core0(a, pc, outcome)
      BY <3>1 DEF Core0, RomCall, Instruction, Faults, Recorded, Stop, Continue
    <3>2. CASE Core1(a, pc, outcome)
      BY <3>2 DEF Core1, Faults, Core1Stop, Recorded, Stop, Continue
    <3> QED BY <1>4, <3>1, <3>2
  <2> QED BY <1>4, <2>1, <2>2, CoresHub, StimuliKept
<1>5. CASE Launch \/ Core1Breakpoint
  <2>1. phase # "idle" /\ UNCHANGED <<now, control, given>>
        /\ phase' \notin {"service", "serviced", "core0"}
    BY <1>5 DEF Launch, Core1Breakpoint, Stop, Continue
  <2> QED BY <1>5, <2>1, LaunchHub, StimuliKept
<1>6. ASSUME NEW limits \in Limits, NEW stimuli \in StimulusLists, Begin(limits, stimuli)
      PROVE  StimuliInv'
  BY <1>6, BeginStimuli
<1>7. ASSUME NEW setup \in DebugSetups, SetDebug(setup) PROVE StimuliInv'
  <2>1. phase' = "idle" /\ UNCHANGED given
    BY <1>7 DEF SetDebug, run_vars
  <2> QED BY <2>1 DEF StimuliInv
<1>8. ASSUME HostAccess PROVE StimuliInv'
  <2>1. phase' = "idle" /\ UNCHANGED given
    BY <1>8 DEF HostAccess
  <2> QED BY <2>1 DEF StimuliInv
<1> QED BY <1>1, <1>2, <1>3, <1>4, <1>5, <1>6, <1>7, <1>8
        DEF ArmNext, Loop, Debugger, DebugMemory, HostPin

\* The stimuli invariant holds in every state: apply_stimuli takes the sorted list
\* in order, each stimulus once, when it is due.
THEOREM StimuliInvariance == ArmSpec => [](HubInv /\ StimuliInv)
<1>1. ArmInit => StimuliInv
  BY EmptySeq DEF ArmInit, StimuliInv
<1>2. ControlInv /\ HubInv /\ StimuliInv /\ [ArmNext]_arm_vars => StimuliInv'
  <2> SUFFICES ASSUME ControlInv, HubInv, StimuliInv, [ArmNext]_arm_vars PROVE StimuliInv'
    OBVIOUS
  <2>1. CASE ArmNext
    BY <2>1, StimuliStep
  <2>2. CASE UNCHANGED arm_vars
    BY <2>2 DEF arm_vars, run_vars, hub_vars, StimuliInv, Passed
  <2> QED BY <2>1, <2>2
<1> QED BY <1>1, <1>2, ControlInvariance, HubInvariance, PTL DEF ArmSpec

\* When core 0 executes, the external driver of each pin holds the value of the
\* latest stimulus that is due: the one with the greatest timestamp and, among
\* equal timestamps, the last in the order in which they were given.
THEOREM StimuliCorrect == ArmSpec => []StimuliCurrent
<1>1. HubInv /\ StimuliInv => StimuliCurrent
  <2> SUFFICES ASSUME HubInv, StimuliInv, phase = "core0", NEW p \in BoardPin,
                      NEW i \in DOMAIN given, given[i].pin = p, given[i].at <= now,
                      \A j \in {x \in DOMAIN given : given[x].pin = p /\ given[x].at <= now} \ {i} :
                         \/ given[i].at > given[j].at
                         \/ given[i].at = given[j].at /\ i > j
               PROVE  board.net[BoardSignal(p)]["external"] = given[i].value
    BY DEF StimuliCurrent
  <2> DEFINE list == control.stimuli
             n == Len(given)
  <2>1. /\ given \in Seq(Stimulus) /\ n \in Nat /\ DOMAIN given = 1..n
        /\ \A x \in 1..n : given[x].at \in Nat
    BY LenProperties, ElementOfSeq, StimulusFields DEF StimuliInv
  <2>2. PICK place \in [1..n -> 1..n] : SortedBy(list, given, n, place)
    BY DEF StimuliInv, SortOf
  <2>3. /\ \A x \in Passed : list[x].at <= now
        /\ \A x \in Passed : (\A y \in Passed : y > x => list[y].pin # list[x].pin) =>
              board.net[BoardSignal(list[x].pin)]["external"] = list[x].value
        /\ \A x \in control.next..Len(list) : list[x].at > now
    BY DEF StimuliInv
  <2>4. control.next \in 1..(Len(list) + 1) /\ now \in Nat
    BY DEF HubInv
  <2> HIDE DEF list, n
  <2>5. /\ Len(list) = n /\ \A x \in 1..n : list[x] = given[place[x]]
        /\ \A x, y \in 1..n : x < y => Precedes(given, place[x], place[y])
    BY <2>2 DEF SortedBy
  <2>6. PICK q \in 1..n : place[q] = i
    BY <2>1, <2>2 DEF SortedBy
  <2>7. list[q] = given[i]
    BY <2>5, <2>6
  <2>8. q \in Passed
    <3>1. given[i].at \in Nat
      BY <2>1
    <3>2. ~(list[q].at > now)
      BY <2>4, <2>7, <3>1
    <3>3. q \notin control.next..n
      BY <2>3, <2>5, <3>2
    <3> QED BY <2>1, <2>4, <2>5, <3>3 DEF Passed
  <2>9. ASSUME NEW y \in Passed, y > q, list[y].pin = p PROVE FALSE
    <3>1. y \in 1..n
      BY <2>1, <2>4, <2>5, <2>9 DEF Passed
    <3>2. list[y] = given[place[y]] /\ place[y] \in 1..n /\ q < y
      BY <2>2, <2>5, <2>9, <3>1
    <3>3. given[place[y]].pin = p /\ given[place[y]].at <= now
      BY <2>3, <2>9, <3>2
    <3>4. Precedes(given, i, place[y])
      BY <2>5, <2>6, <3>1, <3>2
    <3>5. given[i].at \in Nat /\ given[place[y]].at \in Nat /\ i \in Nat /\ place[y] \in Nat
      <4>1. i \in 1..n /\ \A x \in 1..n : x \in Nat
        BY <2>1
      <4> QED BY <2>1, <3>2, <4>1
    <3>6. place[y] # i
      BY <3>4, <3>5 DEF Precedes
    <3>7. \/ given[i].at > given[place[y]].at
          \/ given[i].at = given[place[y]].at /\ i > place[y]
      BY <2>1, <3>2, <3>3, <3>6
    <3> QED BY <3>4, <3>5, <3>7 DEF Precedes
  <2>10. \A y \in Passed : y > q => list[y].pin # list[q].pin
    BY <2>7, <2>9
  <2> QED BY <2>3, <2>7, <2>8, <2>10
<1> QED BY <1>1, StimuliInvariance, PTL

\* How a run can end, and the variables that no other invariant mentions.
KindInv ==
    /\ reason.kind \in {"None", "Error", "Halted", "InstructionLimit", "TimeLimit", "Fault",
                        "Breakpoint", "Watchpoint", "Signal", "HostInputComplete"}
    /\ stats \in [instructions : Nat, events : Nat] /\ exit \in BOOLEAN
    /\ hit \in {None, "core0", "core1", "dma", "debugger"}

\* Every action keeps the kinds.
LEMMA KindStep ==
    ASSUME ControlInv, HubInv, KindInv, ArmNext
    PROVE  KindInv'
<1>1. stats \in [instructions : Nat, events : Nat]
  BY DEF KindInv
<1>2. CASE Top
  <2>1. PICK m \in (control.next - 1)..Len(control.stimuli), acc \in Seq(Stimulus) : Taken(m, acc)
    BY <1>2, TopApplies
  <2>2. stats' = [stats EXCEPT !.events = @ + Len(acc)] /\ Len(acc) \in Nat
    BY <2>1, LenProperties DEF Taken
  <2>3. stats' \in [instructions : Nat, events : Nat]
    BY <1>1, <2>2 DEF KindInv
  <2>4. reason' = reason \/ reason'.kind \in {"Error", "Halted", "InstructionLimit", "TimeLimit"}
    BY <1>2, LimitKinds DEF Top, Stop, Continue
  <2>5. UNCHANGED <<exit, hit>>
    BY <1>2 DEF Top
  <2> QED BY <2>3, <2>4, <2>5 DEF KindInv
<1>3. ASSUME NEW a \in Access, Dma(a) PROVE KindInv'
  <2>1. stats' = [stats EXCEPT !.events = @ + 1] \/ UNCHANGED stats
    BY <1>3 DEF Dma
  <2>2. stats' \in [instructions : Nat, events : Nat]
    BY <1>1, <2>1 DEF KindInv
  <2>3. reason' = reason \/ reason' = [kind |-> "Error"]
    BY <1>3 DEF Dma, Stop, Continue
  <2>4. exit' \in BOOLEAN
    <3>1. exit' = (exit \/ a.kind = "exit") \/ exit' = exit
      BY <1>3 DEF Dma
    <3> QED BY <3>1 DEF KindInv
  <2>5. hit' \in {None, "core0", "core1", "dma", "debugger"}
    BY <1>3 DEF Dma, HitAfter, KindInv
  <2> QED BY <2>2, <2>3, <2>4, <2>5 DEF KindInv
<1>4. ASSUME NEW out \in PioValue, Service(out) PROVE KindInv'
  <2>1. /\ UNCHANGED <<stats, exit>> /\ (hit' = None \/ hit' = hit)
        /\ reason' = reason \/ reason'.kind \in {"Fault", "Breakpoint", "HostInputComplete"}
    BY <1>4 DEF Service, Stop, Continue, ClearHit
  <2> QED BY <2>1 DEF KindInv
<1>5. ASSUME NEW a \in Access, NEW pc \in PC, NEW outcome \in Outcome,
             Core0(a, pc, outcome) \/ Core1(a, pc, outcome)
      PROVE  KindInv'
  <2>1. UNCHANGED stats \/ stats' = [stats EXCEPT !.instructions = @ + 1]
    BY <1>5 DEF Core0, Core1, RomCall, Instruction, Faults, Advance
  <2>2. stats' \in [instructions : Nat, events : Nat]
    BY <1>1, <2>1 DEF KindInv
  <2>3. exit' \in BOOLEAN
    <3>1. exit' = (exit \/ a.kind = "exit")
      BY <1>5 DEF Core0, Core1, RomCall, Instruction, Devices
    <3> QED BY <3>1 DEF KindInv
  <2>4. /\ hit' \in {None, hit, "core0", "core1"}
        /\ reason' = reason
           \/ reason'.kind \in {"Error", "Fault", "Breakpoint", "Watchpoint", "Signal"}
    <3>1. CASE Core0(a, pc, outcome)
      BY <3>1 DEF Core0, RomCall, Instruction, Faults, Recorded, Stop, Continue, HitAfter, CoreName
    <3>2. CASE Core1(a, pc, outcome)
      BY <3>2 DEF Core1, Faults, Core1Stop, Recorded, Stop, Continue, HitAfter, CoreName
    <3> QED BY <1>5, <3>1, <3>2
  <2> QED BY <2>2, <2>3, <2>4 DEF KindInv
<1>6. CASE Launch \/ Core1Breakpoint
  <2>1. UNCHANGED stats \/ stats' = [stats EXCEPT !.events = @ + 1]
    BY <1>6 DEF Launch, Core1Breakpoint
  <2>2. stats' \in [instructions : Nat, events : Nat]
    BY <1>1, <2>1 DEF KindInv
  <2>3. /\ UNCHANGED <<exit, hit>>
        /\ reason' = reason \/ reason'.kind \in {"Fault", "Breakpoint"}
    BY <1>6 DEF Launch, Core1Breakpoint, Stop, Continue
  <2> QED BY <2>2, <2>3 DEF KindInv
<1>7. CASE Debugger
  <2>1. ASSUME NEW limits \in Limits, NEW stimuli \in StimulusLists, Begin(limits, stimuli)
        PROVE  KindInv'
    BY <2>1 DEF Begin, Stop, cpu_vars, KindInv
  <2>2. ASSUME NEW setup \in DebugSetups, SetDebug(setup) PROVE KindInv'
    BY <2>2 DEF SetDebug, run_vars, cpu_vars, KindInv
  <2>3. CASE DebugMemory
    BY <2>3 DEF DebugMemory, HostAccess, HitAfter, KindInv
  <2>4. ASSUME NEW pin \in BoardPin, NEW value \in HostValue, HostPin(pin, value) PROVE KindInv'
    BY <2>4 DEF HostPin, HostAccess, KindInv
  <2> QED BY <1>7, <2>1, <2>2, <2>3, <2>4 DEF Debugger
<1> QED BY <1>2, <1>3, <1>4, <1>5, <1>6, <1>7 DEF ArmNext, Loop

\* Every variable of the run loop has its type in every state.
THEOREM ArmTypes == ArmSpec => []ArmTypeOK
<1>1. ArmInit => KindInv
  <2> SUFFICES ASSUME ArmInit PROVE KindInv
    OBVIOUS
  <2>1. exit \in BOOLEAN
    BY Zenon DEF ArmInit
  <2>2. reason.kind = "None" /\ stats \in [instructions : Nat, events : Nat] /\ hit = None
    BY DEF ArmInit
  <2> QED BY <2>1, <2>2 DEF KindInv
<1>2. ControlInv /\ HubInv /\ KindInv /\ [ArmNext]_arm_vars => KindInv'
  <2> SUFFICES ASSUME ControlInv, HubInv, KindInv, [ArmNext]_arm_vars PROVE KindInv'
    OBVIOUS
  <2>1. CASE ArmNext
    BY <2>1, KindStep
  <2>2. CASE UNCHANGED arm_vars
    BY <2>2 DEF arm_vars, run_vars, cpu_vars, KindInv
  <2> QED BY <2>1, <2>2
<1>3. ControlInv /\ HubInv /\ StopInv /\ KindInv => ArmTypeOK
  <2> SUFFICES ASSUME ControlInv, HubInv, StopInv, KindInv PROVE ArmTypeOK
    OBVIOUS
  <2>1. /\ phase \in {"idle", "top", "service", "serviced", "core0", "core1"}
        /\ control.limits \in Limits \cup {[instructions |-> None, deadline |-> None]}
        /\ sio \in [selected : 0..1, pending : Access \cup {None}, launched : BOOLEAN]
        /\ cpu \in [pc : [0..1 -> PC], active : BOOLEAN]
    BY DEF ControlInv, LaunchOnce, WithinBudget
  <2>2. board \in Board
    BY DEF HubInv, Hub
  <2>3. \A i \in DOMAIN board.changes :
           board.changes[i] \in [at : Nat, signal : Signal, previous : Logic, value : Logic]
    <3>1. board.changes \in Seq(Change)
      BY <2>2 DEF Board
    <3> QED BY <3>1, LenProperties, ElementOfSeq DEF Change
  <2>4. board.net \in [Signal -> [Driver -> Logic]] /\ board.values \in [Signal -> Logic]
    BY <2>2 DEF Board
  <2>5. stats \in [instructions : Nat, events : Nat]
    BY DEF KindInv
  <2>6. {pio_on, dirty, exit, sio.launched, cpu.active} \subseteq BOOLEAN
    BY <2>1 DEF HubInv, KindInv
  <2>7. /\ now \in Nat /\ control.next \in 1..(Len(control.stimuli) + 1)
        /\ pads \in [ChipPin -> [mux : {"sio", "pio"}, sio : Logic, pio : Logic, pull : Logic]]
    BY DEF HubInv, PadRegisters
  <2> QED BY <2>1, <2>3, <2>4, <2>5, <2>6, <2>7 DEF ArmTypeOK, KindInv, StopInv
<1> QED BY <1>1, <1>2, <1>3, ControlInvariance, HubInvariance, StopInvariance, PTL DEF ArmSpec

===============================================================================
