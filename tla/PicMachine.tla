----------------------------- MODULE PicMachine -----------------------------
(***************************************************************************)
(* The interrupt controllers of core/pic.c under every order of device     *)
(* requests, CPU acknowledges and guest port writes.  The guest is         *)
(* unconstrained: it may start an initialisation sequence at any time and  *)
(* leave it half done.                                                     *)
(***************************************************************************)
EXTENDS Pic

CONSTANTS
    DeviceLines,   \* the IRQ lines that devices drive
    GuestBases,    \* the vector bases the guest programs with ICW2
    GuestMasks     \* the interrupt masks the guest programs with OCW1

ASSUME DeviceLinesAssumption == DeviceLines \subseteq (0..15) \ {CascadeLine}
ASSUME GuestBasesAssumption == GuestBases \subseteq {8 * k : k \in 0..31}
ASSUME GuestMasksAssumption == GuestMasks \subseteq SUBSET (0..7)

VARIABLE pair     \* pair["master"], pair["slave"]: the two PIC structs

PairInit == pair = PicInit

\* A device drives its line (pic_raise_irq, pic_lower_irq).
DeviceRaises(irq) == pair' = pic_raise_irq(pair, irq)
DeviceLowers(irq) == pair' = pic_lower_irq(pair, irq)

\* The CPU looks without accepting: a halted CPU about to be woken (sched.c) or
\* a string instruction between two iterations (cpu.c).
Poll == pair' = update_cascade(pair)

\* The CPU accepts: cpu_run only calls pic_ack when pic_has_pending said so.
Acknowledge ==
    /\ pic_has_pending(pair)
    /\ pair' = AckState(pair)

WriteIcw1(c) == \E need4 \in BOOLEAN : pair' = [pair EXCEPT ![c] = ICW1(@, need4)]

WriteOcw3(c) == \E isr \in BOOLEAN : pair' = [pair EXCEPT ![c] = OCW3(@, isr)]

WriteOcw2(c) ==
    \/ pair' = [pair EXCEPT ![c] = EoiNonSpecific(@)]
    \/ \E i \in 0..7 : pair' = [pair EXCEPT ![c] = EoiSpecific(@, i)]

\* A write to register 1 is an ICW while an initialisation is under way.
WriteData(c) ==
    \/ /\ pair[c].icw_step = 2
       /\ \E base \in GuestBases : pair' = [pair EXCEPT ![c] = ICW2(@, base)]
    \/ /\ pair[c].icw_step = 3
       /\ pair' = [pair EXCEPT ![c] = ICW3(@)]
    \/ /\ pair[c].icw_step = 4
       /\ \E aeoi \in BOOLEAN : pair' = [pair EXCEPT ![c] = ICW4(@, aeoi)]
    \/ /\ pair[c].icw_step = 0
       /\ \E mask \in GuestMasks : pair' = [pair EXCEPT ![c] = OCW1(@, mask)]

PairNext ==
    \/ \E irq \in DeviceLines : DeviceRaises(irq) \/ DeviceLowers(irq)
    \/ Poll
    \/ Acknowledge
    \/ \E c \in Chips : WriteIcw1(c) \/ WriteOcw2(c) \/ WriteOcw3(c) \/ WriteData(c)

PairSpec == PairInit /\ [][PairNext]_pair

----------------------------------------------------------------------------
Requested(ps, irq) == irq % 8 \in ps[ChipOf(irq)].irr
Masked(ps, irq) == irq % 8 \in ps[ChipOf(irq)].imr
InService(ps, irq) == irq % 8 \in ps[ChipOf(irq)].isr

\* Every field of both controllers keeps its range.
PairTypeOK == pair \in [Chips -> PicState]

\* Whenever pic_has_pending tells the CPU that an interrupt waits, the pic_ack
\* that follows answers for a line that a device requested, that is unmasked and
\* that is not already being served: the spurious branches of pic_ack are never
\* taken, although the cascade bit may have gone stale since the last look.
PendingAckIsReal ==
    pic_has_pending(pair) =>
        LET irq == AckLine(pair)
        IN  /\ irq \in DeviceLines
            /\ Requested(pair, irq) /\ ~Masked(pair, irq) /\ ~InService(pair, irq)
            /\ irq >= 8 => ~Masked(pair, CascadeLine) /\ ~InService(pair, CascadeLine)

\* The pair as the CPU and the guest find it: the types and PendingAckIsReal.
PairConsistent == PairTypeOK /\ PendingAckIsReal

\* A request is never lost: a line stops requesting only because its device
\* lowered it, because the CPU accepted that very line, or because the guest
\* restarted its controller with ICW1.
RequestsStick ==
    [][\A irq \in DeviceLines :
          Requested(pair, irq) /\ ~Requested(pair', irq) =>
              \/ DeviceLowers(irq)
              \/ Acknowledge /\ AckLine(pair) = irq
              \/ WriteIcw1(ChipOf(irq))]_pair
============================================================================
