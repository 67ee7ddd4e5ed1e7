------------------------------- MODULE Sched -------------------------------
(***************************************************************************)
(* Emulated time: sched.c, the CPU's loop as far as it spends cycles       *)
(* (cpu_run), channel 0 of the timer (pit.c), which re-arms its own event, *)
(* one event that is armed from outside (the keyboard's), and one that     *)
(* interrupts nobody: the end of a wait by INT 15h (bios.c), which halts   *)
(* and is executed again whenever some other interrupt has been handled.   *)
(*                                                                         *)
(* Time has two hands.  emu_ns moves when a piece of a slice ends;         *)
(* emu_now_ns adds the cycles executed since.  The timer converts both     *)
(* ways between nanoseconds and ticks, rounding down each time.            *)
(*                                                                         *)
(* The guest is any sequence of instructions.  The interrupt controllers   *)
(* are one bit here (module Pic has them in full): pending, with handlers  *)
(* that end their service at once.                                         *)
(***************************************************************************)
EXTENDS Integers, FiniteSets

CONSTANTS
    Second,       \* ns per second
    PitHz,        \* PIT_HZ
    Mega,         \* 1000000: Khz cycles take Mega ns
    Khz,          \* cpu_khz
    IoCost,       \* cycles of a port access (sched_io_cost)
    IntCost,      \* cycles of an interrupt (cpu_hw_interrupt)
    Full,         \* the period that a reload of 0 stands for
    Reloads,      \* the counts the guest loads
    KbdDelay,     \* ns from a queued byte to its delivery
    Waits,        \* ns the guest asks INT 15h to wait
    Abandons,     \* whether the guest gives a wait up and begins another
    Slices,       \* ns the host asks for at a time
    MaskedHalt,   \* whether the guest halts with interrupts disabled
    MaxNs,        \* bound: no slice starts later
    MaxTicks,     \* bound of the count of ticks
    MaxResets     \* bound: how often the machine is reset

ASSUME RatesAssumption ==
    {Second, PitHz, Mega, Khz, Full, IntCost} \subseteq Nat \ {0}
ASSUME CostsAssumption == {IoCost, KbdDelay} \subseteq Nat
ASSUME InputsAssumption ==
    /\ Reloads \subseteq Nat /\ Waits \subseteq Nat
    /\ Slices \subseteq Nat \ {0}
    /\ {MaskedHalt, Abandons} \subseteq BOOLEAN
ASSUME BoundsAssumption == {MaxNs, MaxTicks, MaxResets} \subseteq Nat

VARIABLES
    emu_ns, ns_rem, cycles, cycles_anchor,   \* sched.c's clock and cpu.cycles
    events,           \* what is armed, by device
    ch0,              \* the timer's channel 0
    iflag, inhibit, halted, pending,         \* the CPU, and the controllers
    wait_done,        \* the BIOS's flag
    asked,            \* the register of the INT 15h call that waits, NoWait if none
    phase,            \* host: between slices; loop: sched_run_ns; cpu: cpu_run
    end, start, target,                      \* their locals
    reset_pending,
    since,            \* ghost: when that call was made
    slept,            \* ghost: ns that passed over a halted CPU
    ticks,            \* ghost: timer interrupts since the count was loaded
    resets

clock == <<emu_ns, ns_rem, cycles_anchor>>
cpu == <<iflag, inhibit, halted>>
bios == <<wait_done, asked, since>>
run == <<phase, end, start, target>>
ghosts == <<slept, ticks, resets>>
vars == <<clock, cycles, events, ch0, cpu, pending, bios, run, reset_pending, ghosts>>

----------------------------------------------------------------------------
(* Time.                                                                   *)

\* Division in C rounds towards zero.
CDiv(a, b) == IF a >= 0 THEN a \div b ELSE -((-a) \div b)

NsOfCycles(n) == CDiv(n * Mega, Khz)
CyclesOfNs(ns) == CDiv(ns * Khz, Mega)

\* emu_now_ns after n cycles; the difference is negative while the anchor is
\* ahead of the cycle counter.
NowAt(n) == emu_ns + NsOfCycles(n - cycles_anchor)
emu_now_ns == NowAt(cycles)

\* The exact rate conversions: splitting off whole seconds changes nothing.
ns_to_tick(ns) == CDiv(ns * PitHz, Second)
tick_to_ns(tick) == CDiv(tick * Second, PitHz)

----------------------------------------------------------------------------
(* Events, and channel 0 of the timer.                                     *)

Devices == {"pit0", "kbd", "wait"}
Off == [at |-> 0, active |-> FALSE]
Armed(t) == [at |-> t, active |-> TRUE]
Due(d, t) == events[d].active /\ events[d].at <= t

\* next_event, the slice's end if no event is earlier.
Upcoming ==
    LET times == {end} \union {events[d].at : d \in {x \in Devices : events[x].active}}
    IN  CHOOSE t \in times : \A u \in times : t <= u

Modes == {0, 2}
PitInit == [mode |-> 2, loaded |-> FALSE, reload |-> 0, load_tick |-> 0]
Period(c) == IF c.reload = 0 THEN Full ELSE c.reload
Periodic(c) == c.mode = 2

\* The bugs of re-arming for the period that is ending, and of counting the
\* next period from now.
NextTickSame(c, now) == c.load_tick + CDiv(now - c.load_tick, Period(c)) * Period(c)
NextTickFromNow(c, now) == now + Period(c)

\* The tick at which a periodic count next ends.
NextTick(c, now) ==
    LET elapsed == now - c.load_tick
        n == IF elapsed < 0 THEN 0 ELSE elapsed \div Period(c) + 1
    IN  c.load_tick + n * Period(c)

\* schedule_irq0 at time t.
schedule_irq0(c, t) ==
    IF ~c.loaded THEN Off
    ELSE Armed(tick_to_ns(IF Periodic(c) THEN NextTick(c, ns_to_tick(t))
                                         ELSE c.load_tick + Period(c)))

Counted == IF ticks < MaxTicks THEN ticks + 1 ELSE ticks

\* fire_due at time t: the timer's handler re-arms itself, the others do not, and
\* the wait's sets its flag, without an interrupt.  No handler arms another's event.
fire_due(t) ==
    /\ events' = [pit0 |-> IF ~Due("pit0", t) THEN events["pit0"]
                           ELSE IF Periodic(ch0) THEN schedule_irq0(ch0, t) ELSE Off,
                  kbd  |-> IF Due("kbd", t) THEN Off ELSE events["kbd"],
                  wait |-> IF Due("wait", t) THEN Off ELSE events["wait"]]
    /\ pending' = (pending \/ Due("pit0", t) \/ Due("kbd", t))
    /\ wait_done' = (wait_done \/ Due("wait", t))
    /\ ticks' = IF Due("pit0", t) THEN Counted ELSE ticks

\* queue_byte: the keyboard's event, unless it is armed.
QueueByte ==
    events' = IF events["kbd"].active THEN events
              ELSE [events EXCEPT !["kbd"] = Armed(emu_ns + KbdDelay)]

NoWait == -1
Nobody == asked' = NoWait /\ since' = 0

\* The bug of a reset that forgets the wait but not its flag.
bios_post_resetKeepsFlag == UNCHANGED wait_done /\ Nobody

bios_post_reset == wait_done' = FALSE /\ Nobody

----------------------------------------------------------------------------
(* The host.                                                               *)

Init ==
    /\ emu_ns = 0 /\ ns_rem = 0 /\ cycles = 0 /\ cycles_anchor = 0
    /\ events = [d \in Devices |-> Off]
    /\ ch0 = PitInit
    /\ iflag = FALSE /\ inhibit = FALSE /\ halted = FALSE /\ pending = FALSE
    /\ wait_done = FALSE /\ asked = NoWait /\ since = 0
    /\ phase = "host" /\ end = 0 /\ start = 0 /\ target = 0
    /\ reset_pending = FALSE
    /\ slept = 0 /\ ticks = 0 /\ resets = 0

\* core_run_us.
RunUs ==
    /\ phase = "host" /\ emu_ns < MaxNs
    /\ \E ns \in Slices : end' = emu_ns + ns
    /\ phase' = "loop"
    /\ UNCHANGED <<clock, cycles, events, ch0, cpu, pending, bios, start, target,
                   reset_pending, ghosts>>

HostKey ==
    /\ phase = "host"
    /\ QueueByte
    /\ UNCHANGED <<clock, cycles, ch0, cpu, pending, bios, run, reset_pending, ghosts>>

\* machine_reset: sched_init takes the anchor from the cycle counter that
\* cpu_init clears afterwards.
machine_reset ==
    /\ resets < MaxResets
    /\ resets' = resets + 1
    /\ emu_ns' = 0 /\ ns_rem' = 0 /\ cycles_anchor' = cycles
    /\ events' = [d \in Devices |-> Off]
    /\ pending' = FALSE
    /\ ch0' = PitInit
    /\ cycles' = 0 /\ iflag' = FALSE /\ inhibit' = FALSE /\ halted' = FALSE
    /\ bios_post_reset
    /\ reset_pending' = FALSE
    /\ slept' = 0 /\ ticks' = 0

\* core_reset.
HostReset ==
    /\ phase = "host"
    /\ machine_reset
    /\ UNCHANGED run

----------------------------------------------------------------------------
(* sched_run_ns.                                                           *)

MoreToRun == phase = "loop" /\ emu_ns < end
Woken == halted /\ iflag /\ pending
Halted == halted /\ ~Woken

\* A halted CPU: time goes to the next event at once.
Sleep ==
    /\ MoreToRun
    /\ Halted
    /\ emu_ns' = Upcoming
    /\ slept' = slept + (Upcoming - emu_ns)
    /\ cycles_anchor' = cycles
    /\ fire_due(Upcoming)
    /\ UNCHANGED <<ns_rem, cycles, ch0, cpu, asked, since, run, reset_pending, resets>>

\* The bug of a budget that is not rounded up.
BudgetZero(t) == CyclesOfNs(t - emu_ns)

Budget(t) == IF CyclesOfNs(t - emu_ns) < 1 THEN 1 ELSE CyclesOfNs(t - emu_ns)

\* The CPU gets the cycles to the next event.
StartCpu ==
    /\ MoreToRun
    /\ ~Halted
    /\ halted' = FALSE
    /\ start' = cycles
    /\ target' = cycles + Budget(Upcoming)
    /\ phase' = "cpu"
    /\ UNCHANGED <<clock, cycles, events, ch0, iflag, inhibit, pending, bios, end,
                   reset_pending, ghosts>>

Leaves == halted \/ cycles >= target
Total == (cycles - start) * Mega + ns_rem

\* The bugs of taking the budget for what was spent, and of dropping the fraction.
SettleClockPlanned == emu_ns' = emu_ns + NsOfCycles(target - start) /\ ns_rem' = 0
SettleClockNoCarry == emu_ns' = emu_ns + Total \div Khz /\ ns_rem' = 0

\* The cycles that cpu_run reports become time; the fraction is carried over.
SettleClock == emu_ns' = emu_ns + Total \div Khz /\ ns_rem' = Total % Khz

\* cpu_run returns: time is brought up to date and what is due fires.
EndCpu ==
    /\ phase = "cpu" /\ Leaves
    /\ SettleClock
    /\ cycles_anchor' = cycles
    /\ fire_due(emu_ns')
    /\ phase' = "loop"
    /\ UNCHANGED <<cycles, ch0, cpu, asked, since, end, start, target, reset_pending, slept, resets>>

\* The slice is over; a reset the guest asked for is done now.
EndSlice ==
    /\ phase = "loop" /\ emu_ns >= end
    /\ phase' = "host"
    /\ UNCHANGED <<end, start, target>>
    /\ \/ reset_pending /\ machine_reset
       \/ ~reset_pending /\ UNCHANGED <<clock, cycles, events, ch0, cpu, pending,
                                        bios, reset_pending, ghosts>>

----------------------------------------------------------------------------
(* cpu_run.                                                                *)

Running == phase = "cpu" /\ ~Leaves
Interrupting == ~inhibit /\ iflag /\ pending

AcceptInterrupt ==
    /\ Running /\ Interrupting
    /\ pending' = FALSE
    /\ iflag' = FALSE /\ inhibit' = FALSE
    /\ cycles' = cycles + IntCost
    /\ UNCHANGED <<clock, events, ch0, halted, bios, run, reset_pending, ghosts>>

Executes(cost) == Running /\ ~Interrupting /\ cycles' = cycles + cost

\* An instruction that changes no more than the flags and the halted state.
Plain ==
    /\ Executes(1)
    /\ \/ UNCHANGED <<iflag, halted>> /\ inhibit' = FALSE
       \/ iflag' = FALSE /\ inhibit' = FALSE /\ UNCHANGED halted
       \/ iflag' = TRUE /\ inhibit' = ~iflag /\ UNCHANGED halted
       \/ (iflag \/ MaskedHalt) /\ halted' = TRUE /\ inhibit' = FALSE /\ UNCHANGED iflag
    /\ UNCHANGED <<clock, events, ch0, pending, bios, run, reset_pending, ghosts>>

\* A port write: its cost comes before its effect.
Out ==
    /\ Executes(IoCost + 1)
    /\ inhibit' = FALSE
    /\ UNCHANGED <<clock, iflag, pending, bios, run, slept, resets>>

WriteControl ==
    /\ Out
    /\ \E mode \in Modes : ch0' = [ch0 EXCEPT !.mode = mode, !.loaded = FALSE]
    /\ events' = [events EXCEPT !["pit0"] = Off]
    /\ UNCHANGED <<halted, reset_pending, ticks>>

\* pit_write_count: the write that completes a count.
WriteCount ==
    /\ Out
    /\ \E v \in Reloads : ch0' = [ch0 EXCEPT !.reload = v, !.loaded = TRUE,
                                             !.load_tick = ns_to_tick(NowAt(cycles + IoCost))]
    /\ events' = [events EXCEPT !["pit0"] = schedule_irq0(ch0', NowAt(cycles + IoCost))]
    /\ ticks' = 0
    /\ UNCHANGED <<halted, reset_pending>>

\* A command that the keyboard answers.
WriteKbd ==
    /\ Out
    /\ QueueByte
    /\ UNCHANGED <<ch0, halted, reset_pending, ticks>>

\* machine_reset_request, by the keyboard controller's port or port 92h.
RequestReset ==
    /\ resets < MaxResets
    /\ Out
    /\ reset_pending' = TRUE
    /\ halted' = FALSE
    /\ UNCHANGED <<events, ch0, ticks>>

\* INT 15h, function 86h, with the instruction of its stub: its flag ends it, and
\* otherwise it arms the event, unless that is armed, and halts to be executed again.
Wait86(ns, t) ==
    /\ Executes(1)
    /\ inhibit' = FALSE
    /\ IF wait_done
       THEN /\ wait_done' = FALSE /\ Nobody
            /\ iflag' \in BOOLEAN        \* the caller's
            /\ UNCHANGED <<events, halted>>
       ELSE /\ events' = IF events["wait"].active THEN events
                         ELSE [events EXCEPT !["wait"] = Armed(emu_ns + ns)]
            /\ asked' = ns /\ since' = t
            /\ iflag' = TRUE /\ halted' = TRUE
            /\ UNCHANGED wait_done
    /\ UNCHANGED <<clock, ch0, pending, run, reset_pending, ghosts>>

\* What runs between two tries is the handler of the interrupt that ended the halt.
\* A program that gives a wait up, as Ctrl-Break makes it, may call while it is on.
CallWait == (asked = NoWait \/ Abandons) /\ \E ns \in Waits : Wait86(ns, emu_ns)
RetryWait == asked # NoWait /\ iflag /\ Wait86(asked, since)

Emulate ==
    \/ Sleep \/ StartCpu \/ EndCpu \/ EndSlice
    \/ AcceptInterrupt \/ Plain
    \/ WriteControl \/ WriteCount \/ WriteKbd \/ RequestReset
    \/ CallWait \/ RetryWait

Next == RunUs \/ HostKey \/ HostReset \/ Emulate

\* A slice, once begun, is computed to its end.
Spec == Init /\ [][Next]_vars /\ WF_vars(Emulate)

----------------------------------------------------------------------------
(* Properties.                                                             *)

\* Every variable has its type; the carried fraction is less than a ns.
TypeOK ==
    /\ emu_ns \in Nat /\ ns_rem \in 0..(Khz - 1) /\ cycles \in Nat /\ cycles_anchor \in Nat
    /\ events \in [Devices -> [at : Int, active : BOOLEAN]]
    /\ ch0 \in [mode : Modes, loaded : BOOLEAN, reload : Reloads \union {0}, load_tick : Int]
    /\ iflag \in BOOLEAN /\ inhibit \in BOOLEAN /\ halted \in BOOLEAN
    /\ pending \in BOOLEAN /\ reset_pending \in BOOLEAN
    /\ wait_done \in BOOLEAN /\ asked \in Waits \union {NoWait} /\ since \in Nat
    /\ phase \in {"host", "loop", "cpu"}
    /\ end \in Nat /\ start \in Nat /\ target \in Nat
    /\ slept \in Nat /\ ticks \in 0..MaxTicks /\ resets \in 0..MaxResets

\* Whenever the loop looks for the next event, none is in the past: a halted
\* CPU would take emu_ns back to it (sched_run_ns, "emu_ns = next").  It rests
\* on the timer never re-arming itself earlier than now, through two roundings.
NothingOverdue ==
    phase # "cpu" =>
        \A d \in Devices : events[d].active => events[d].at >= emu_ns

\* A call of INT 15h that waits has its event armed or its flag set: the halted
\* program does not try again in vain for ever, a reset included.
WaitIsTimed == asked # NoWait => wait_done \/ events["wait"].active

\* The loop starts each piece from a sound state: the types, NothingOverdue and
\* WaitIsTimed.
Consistent == TypeOK /\ NothingOverdue /\ WaitIsTimed

\* The time that devices and guests read never runs back, neither while
\* instructions execute nor when a piece of a slice is settled and the CPU has
\* overshot its budget.
NowNeverRunsBack == [][resets' = resets => emu_now_ns' >= emu_now_ns]_vars

\* The one flag of INT 15h's waits is set only for the call that waits, when the time
\* it asked for has passed on emu_ns: no call is ended early by what another one, or
\* one before a reset, has left.
WaitsInFull == wait_done => asked # NoWait /\ since + asked <= emu_ns

\* No cycle is lost or counted twice over any number of pieces and slices:
\* the clock is the cycles executed plus the time slept, to the fraction.
TimeIsCycles ==
    phase # "cpu" => emu_ns * Khz + ns_rem = cycles * Mega + slept * Khz

\* A periodic count that is loaded always has its next tick armed, a whole
\* number of periods after the load, and not beyond the first that has not
\* passed: late delivery neither drifts nor loses the timer.
TicksOnGrid ==
    ch0.loaded /\ Periodic(ch0) =>
        /\ events["pit0"].active
        /\ \E n \in 1..(ns_to_tick(events["pit0"].at + 1) - ch0.load_tick) :
              /\ events["pit0"].at = tick_to_ns(ch0.load_tick + n * Period(ch0))
              /\ n > 1 => tick_to_ns(ch0.load_tick + (n - 1) * Period(ch0)) <= emu_ns

\* core_run_us returns, whatever the guest does (while a halted guest can be
\* interrupted).
SliceEnds == phase # "host" ~> phase = "host"

\* pit.c, "modes 2/3: periodic": one interrupt per period that has passed.  It
\* does not hold when time lands exactly on a tick.
TickOncePerPeriod ==
    ch0.loaded /\ Periodic(ch0) =>
        ticks <= Cardinality({n \in 1..(MaxNs + 1) :
                                tick_to_ns(ch0.load_tick + n * Period(ch0)) <= emu_ns})
=============================================================================
