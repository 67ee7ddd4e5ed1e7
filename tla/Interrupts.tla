----------------------------- MODULE Interrupts -----------------------------
(***************************************************************************)
(* Interrupt delivery: the CPU's check between two instructions (cpu_run), *)
(* the wake-up of a halted CPU (sched_run_ns), the BIOS's interrupt stubs  *)
(* (build_stub) and the interrupt controllers, after POST.                 *)
(*                                                                         *)
(* The interrupted program is a guest's idle loop: it disables interrupts, *)
(* looks for work left by the handlers, and if there is none executes STI; *)
(* HLT.  The guest is not part of the code; the loop is the idiom that the *)
(* interrupt shadow of STI exists for.  Guest code called from a stub (INT *)
(* 1Ch, the mouse callback) may enable interrupts before the stub's EOI.   *)
(***************************************************************************)
EXTENDS Pic, Sequences

CONSTANTS
    Lines,        \* the device lines, all unmasked by POST
    MaxRaises     \* bound: how many interrupts the devices request in all

ASSUME LinesAssumption == Lines \subseteq {0, 1, 6, 12, 13, 14}
ASSUME RaisesAssumption == MaxRaises \in Nat

VARIABLES
    pics,       \* the controllers
    iflag,      \* cpu.eflags & F_IF
    inhibit,    \* cpu.inhibit: no interrupt before the next instruction
    halted,     \* cpu.halted
    frames,     \* interrupts entered and not yet returned from, innermost last
    pc,         \* the idle loop's next instruction
    work,       \* lines whose handler ran since the idle loop last looked
    raises      \* requests made so far

cpu == <<iflag, inhibit, halted>>
vars == <<pics, iflag, inhibit, halted, frames, pc, work, raises>>

\* Where a stub is: its HLE body, the guest code it calls, the EOIs, the IRET.
Stages == {"hle", "hook", "eoi_slave", "eoi_master", "iret"}
Frame == [line : Lines, stage : Stages, saved : BOOLEAN]
Loop == {"cli", "look", "sti", "hlt"}

Init ==
    /\ pics = PostPics
    /\ iflag = TRUE /\ inhibit = FALSE /\ halted = FALSE
    /\ frames = << >>
    /\ pc = "cli" /\ work = {} /\ raises = 0

----------------------------------------------------------------------------
(* The CPU between two instructions.                                       *)

\* cpu_run's test.  It reads, and so refreshes, the controllers only when it
\* would accept.
CanInterrupt == ~inhibit /\ iflag
Interrupting == CanInterrupt /\ pic_has_pending(pics)
Looked == IF CanInterrupt THEN update_cascade(pics) ELSE pics

\* cpu_hw_interrupt through a real-mode gate: flags pushed, IF cleared.
AcceptInterrupt ==
    /\ ~halted
    /\ Interrupting
    /\ pics' = AckState(pics)
    /\ frames' = Append(frames, [line |-> AckLine(pics), stage |-> "hle", saved |-> iflag])
    /\ iflag' = FALSE
    /\ inhibit' = FALSE
    /\ UNCHANGED <<halted, pc, work, raises>>

\* sched_run_ns: a halted CPU resumes for an interrupt it may take.
Wake ==
    /\ halted
    /\ iflag /\ pic_has_pending(pics)
    /\ pics' = update_cascade(pics)
    /\ halted' = FALSE
    /\ UNCHANGED <<iflag, inhibit, frames, pc, work, raises>>

\* An instruction runs only when no interrupt is taken first; it ends the shadow.
Executes == ~halted /\ ~Interrupting

----------------------------------------------------------------------------
(* The interrupt stubs.                                                    *)

Top == frames[Len(frames)]

\* The bug of a stub for a slave line that only ends the master's service.
NextStageNoSlaveEoi(f) ==
    CASE f.stage = "hle"  -> IF f.line \in {0, 12} THEN "hook" ELSE "eoi_master"
      [] f.stage = "hook" -> "eoi_master"
      [] f.stage = "eoi_slave"  -> "eoi_master"
      [] f.stage = "eoi_master" -> "iret"

\* build_stub: the instruction that follows in the stub of a line.
NextStage(f) ==
    CASE f.stage = "hle"  -> IF f.line \in {0, 12} THEN "hook"
                             ELSE IF f.line >= 8 THEN "eoi_slave" ELSE "eoi_master"
      [] f.stage = "hook" -> IF f.line >= 8 THEN "eoi_slave" ELSE "eoi_master"
      [] f.stage = "eoi_slave"  -> "eoi_master"
      [] f.stage = "eoi_master" -> "iret"

Advance == frames' = [frames EXCEPT ![Len(frames)].stage = NextStage(Top)]

InStub(stage) == Executes /\ frames # << >> /\ Top.stage = stage

StubHle ==
    /\ InStub("hle")
    /\ Advance
    /\ work' = work \union {Top.line}
    /\ pics' = Looked /\ inhibit' = FALSE
    /\ UNCHANGED <<iflag, halted, pc, raises>>

\* The guest's hook may execute STI, whose shadow covers the next instruction.
StubHook ==
    /\ InStub("hook")
    /\ Advance
    /\ \E sti \in BOOLEAN : /\ iflag' = (iflag \/ sti)
                            /\ inhibit' = (sti /\ ~iflag)
    /\ pics' = Looked
    /\ UNCHANGED <<halted, pc, work, raises>>

StubEoi(c) ==
    /\ InStub(IF c = "master" THEN "eoi_master" ELSE "eoi_slave")
    /\ Advance
    /\ pics' = [Looked EXCEPT ![c] = EoiNonSpecific(@)]
    /\ inhibit' = FALSE
    /\ UNCHANGED <<iflag, halted, pc, work, raises>>

StubIret ==
    /\ InStub("iret")
    /\ frames' = SubSeq(frames, 1, Len(frames) - 1)
    /\ iflag' = Top.saved
    /\ pics' = Looked /\ inhibit' = FALSE
    /\ UNCHANGED <<halted, pc, work, raises>>

----------------------------------------------------------------------------
(* The idle loop.                                                          *)

InLoop(at) == Executes /\ frames = << >> /\ pc = at

Cli ==
    /\ InLoop("cli")
    /\ iflag' = FALSE /\ inhibit' = FALSE /\ pc' = "look" /\ pics' = Looked
    /\ UNCHANGED <<halted, frames, work, raises>>

\* Work is done and the loop starts over with interrupts enabled, or there is
\* none and the loop goes to sleep.
Look ==
    /\ InLoop("look")
    /\ IF work = {} THEN pc' = "sti" /\ UNCHANGED iflag
                    ELSE pc' = "cli" /\ iflag' = TRUE
    /\ work' = {} /\ inhibit' = (work # {}) /\ pics' = Looked
    /\ UNCHANGED <<halted, frames, raises>>

\* The bug of an STI without its interrupt shadow.
StiNoShadow ==
    /\ InLoop("sti")
    /\ iflag' = TRUE /\ inhibit' = FALSE /\ pc' = "hlt" /\ pics' = Looked
    /\ UNCHANGED <<halted, frames, work, raises>>

\* STI delays interrupts by one instruction when it turns them on.
Sti ==
    /\ InLoop("sti")
    /\ iflag' = TRUE /\ inhibit' = ~iflag /\ pc' = "hlt" /\ pics' = Looked
    /\ UNCHANGED <<halted, frames, work, raises>>

Hlt ==
    /\ InLoop("hlt")
    /\ halted' = TRUE /\ inhibit' = FALSE /\ pc' = "cli" /\ pics' = Looked
    /\ UNCHANGED <<iflag, frames, work, raises>>

----------------------------------------------------------------------------
\* A device requests an interrupt, at any time.
Raise(irq) ==
    /\ raises < MaxRaises
    /\ raises' = raises + 1
    /\ pics' = pic_raise_irq(pics, irq)
    /\ UNCHANGED <<iflag, inhibit, halted, frames, pc, work>>

CpuStep ==
    \/ AcceptInterrupt \/ Wake
    \/ StubHle \/ StubHook \/ (\E c \in Chips : StubEoi(c)) \/ StubIret
    \/ Cli \/ Look \/ Sti \/ Hlt

Next == CpuStep \/ \E irq \in Lines : Raise(irq)

\* The emulation loop keeps running the CPU; devices owe nothing.
Spec == Init /\ [][Next]_vars /\ WF_vars(CpuStep)

----------------------------------------------------------------------------
TypeOK ==
    /\ pics \in [Chips -> PicState]
    /\ iflag \in BOOLEAN /\ inhibit \in BOOLEAN /\ halted \in BOOLEAN
    /\ frames \in Seq(Frame)
    /\ pc \in Loop /\ work \in SUBSET Lines /\ raises \in 0..MaxRaises

\* Line 2 of the master stands for every slave line.
MasterBit(irq) == IF irq < 8 THEN irq ELSE CascadeLine

\* The frames that still owe an EOI to the master, or to the slave.
OweMaster == {i \in 1..Len(frames) : frames[i].stage # "iret"}
OweSlave == {i \in 1..Len(frames) : /\ frames[i].line >= 8
                                    /\ frames[i].stage \in {"hle", "hook", "eoi_slave"}}

\* The controllers and the stack of handlers agree: a line is in service exactly
\* when a handler still owes its EOI, and a handler only ever interrupts handlers
\* of lower priority.  So each non-specific EOI, which names no line, ends the
\* service of the handler that executes it.
ServiceMatchesStack ==
    /\ pics["master"].isr = {MasterBit(frames[i].line) : i \in OweMaster}
    /\ pics["slave"].isr = {frames[i].line - 8 : i \in OweSlave}
    /\ \A i, j \in OweMaster : i < j => MasterBit(frames[j].line) < MasterBit(frames[i].line)

\* The CPU never sleeps on work: it is halted only with interrupts enabled and
\* nothing left by a handler (the shadow of STI makes STI; HLT one step).
SleepsOnlyWhenIdle == halted => iflag /\ work = {} /\ frames = << >>

\* Controllers, CPU, stubs and the program agree on who is being served: the types,
\* ServiceMatchesStack and SleepsOnlyWhenIdle.
Consistent == TypeOK /\ ServiceMatchesStack /\ SleepsOnlyWhenIdle

\* A requested interrupt is eventually handled.
RequestsAreHandled ==
    \A irq \in Lines : (irq % 8 \in pics[ChipOf(irq)].irr) ~> (irq \in work)

\* Every handler returns and its work is picked up: the CPU does not end up
\* spinning in or masked behind a service that nobody ends.
WorkIsDone == \A irq \in Lines : (irq \in work) ~> (irq \notin work)
============================================================================
