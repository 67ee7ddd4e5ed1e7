-------------------------------- MODULE Pic --------------------------------
(***************************************************************************)
(* The two cascaded 8259 interrupt controllers of core/pic.c.              *)
(*                                                                         *)
(* irr, isr and imr are sets of line numbers 0..7 of one controller.  The  *)
(* slave's request reaches the CPU as line 2 of the master.  As in the     *)
(* code the cascade line is not wired: it is recomputed from the slave     *)
(* whenever the CPU looks (update_cascade), so between two looks the       *)
(* master's bit 2 may be out of date.                                      *)
(*                                                                         *)
(* The operators on a controller p, or on the pair ps of both, are the     *)
(* functions of pic.c.  PicMachine drives them with an arbitrary guest;    *)
(* Interrupts and KeyPath with the BIOS's handlers.                        *)
(***************************************************************************)
EXTENDS Integers, FiniteSets

CascadeLine == 2

Chips == {"master", "slave"}

IcwStates == {0, 2, 3, 4}     \* icw_step: 0 = idle, otherwise the ICW awaited

PicState ==
    [irr : SUBSET (0..7), isr : SUBSET (0..7), imr : SUBSET (0..7),
     icw_step : IcwStates, icw4_needed : BOOLEAN,
     vector_base : 0..255, auto_eoi : BOOLEAN, read_isr : BOOLEAN]

Controller(base) ==
    [irr |-> {}, isr |-> {}, imr |-> 0..7, icw_step |-> 0, icw4_needed |-> FALSE,
     vector_base |-> base, auto_eoi |-> FALSE, read_isr |-> FALSE]

\* pic_init: everything masked, the vector bases of the AT.
PicInit == [c \in Chips |-> Controller(IF c = "master" THEN 8 ELSE 112)]

----------------------------------------------------------------------------
(* Priority resolution.                                                    *)

NoLine == -1

\* Unmasked requests of higher priority than everything in service.
Deliverable(p) == {i \in p.irr \ p.imr : \A j \in p.isr : i < j}

\* pic_highest: the highest-priority deliverable line of a controller, or -1.
pic_highest(p) ==
    IF Deliverable(p) = {} THEN NoLine
    ELSE CHOOSE i \in Deliverable(p) : \A j \in Deliverable(p) : i <= j

\* The bug of never withdrawing the cascade request.
UpdateCascadeSticky(ps) ==
    IF pic_highest(ps["slave"]) # NoLine
    THEN [ps EXCEPT !["master"].irr = @ \union {CascadeLine}] ELSE ps

\* update_cascade: the master's line 2 follows the slave's output.
update_cascade(ps) ==
    IF pic_highest(ps["slave"]) # NoLine
    THEN [ps EXCEPT !["master"].irr = @ \union {CascadeLine}]
    ELSE [ps EXCEPT !["master"].irr = @ \ {CascadeLine}]

ChipOf(irq) == IF irq < 8 THEN "master" ELSE "slave"

pic_raise_irq(ps, irq) == [ps EXCEPT ![ChipOf(irq)].irr = @ \union {irq % 8}]
pic_lower_irq(ps, irq) == [ps EXCEPT ![ChipOf(irq)].irr = @ \ {irq % 8}]

\* pic_has_pending refreshes the cascade (so its caller must keep the new pair)
\* and reports whether the master would interrupt.
pic_has_pending(ps) == pic_highest(update_cascade(ps)["master"]) # NoLine

----------------------------------------------------------------------------
(* The interrupt acknowledge cycle.                                        *)

\* The bug of accepting every pending request with the one that is served.
AcceptAll(p, i) ==
    [p EXCEPT !.irr = {}, !.isr = IF p.auto_eoi THEN @ ELSE @ \union {i}]

\* One controller accepts line i: request cleared, in service unless auto-EOI.
Accept(p, i) ==
    [p EXCEPT !.irr = @ \ {i}, !.isr = IF p.auto_eoi THEN @ ELSE @ \union {i}]

\* What pic_ack leaves behind.  The cascade request is not cleared by hand: it
\* is recomputed after the slave has accepted.
AckState(ps) ==
    LET q == update_cascade(ps)
        m == pic_highest(q["master"])
        s == pic_highest(q["slave"])
    IN  IF m = NoLine \/ (m = CascadeLine /\ s = NoLine) THEN q
        ELSE IF m = CascadeLine
        THEN update_cascade(
                 [q EXCEPT !["slave"] = Accept(@, s),
                           !["master"].isr = IF q["master"].auto_eoi
                                             THEN @ ELSE @ \union {CascadeLine}])
        ELSE [q EXCEPT !["master"] = Accept(@, m)]

\* The line pic_ack answers for; -1 is its spurious interrupt.
AckLine(ps) ==
    LET q == update_cascade(ps)
        m == pic_highest(q["master"])
        s == pic_highest(q["slave"])
    IN  IF m # CascadeLine THEN m
        ELSE IF s = NoLine THEN NoLine ELSE 8 + s

\* The vector pic_ack returns; a spurious interrupt is the master's line 7.
AckVector(ps) ==
    LET irq == AckLine(ps)
    IN  IF irq = NoLine THEN ps["master"].vector_base + 7
        ELSE ps[ChipOf(irq)].vector_base + (irq % 8)

----------------------------------------------------------------------------
(* pic_write, register 0: ICW1, OCW2 and OCW3.                             *)

\* ICW1 restarts initialisation and forgets requests, services and masks.
ICW1(p, need4) ==
    [p EXCEPT !.icw_step = 2, !.icw4_needed = need4, !.imr = {}, !.isr = {},
              !.irr = {}, !.auto_eoi = FALSE, !.read_isr = FALSE]

\* The bug of ending the service that has waited longest in priority order.
EoiLowest(p) ==
    [p EXCEPT !.isr = {i \in @ : \E j \in @ : j > i}]

\* Non-specific EOI ends the highest-priority service.
EoiNonSpecific(p) ==
    [p EXCEPT !.isr = {i \in @ : \E j \in @ : j < i}]

EoiSpecific(p, i) == [p EXCEPT !.isr = @ \ {i}]

OCW3(p, isr) == [p EXCEPT !.read_isr = isr]

(* pic_write, register 1: the meaning of the byte depends on icw_step.     *)

ICW2(p, base) == [p EXCEPT !.vector_base = base, !.icw_step = 3]
ICW3(p)       == [p EXCEPT !.icw_step = IF p.icw4_needed THEN 4 ELSE 0]
ICW4(p, aeoi) == [p EXCEPT !.auto_eoi = aeoi, !.icw_step = 0]
OCW1(p, mask) == [p EXCEPT !.imr = mask]

\* The BIOS's POST programs both controllers: bases 08h and 70h, no auto-EOI,
\* and masks 0B8h and 8Fh (IRQ 0, 1, 2, 6 and 12 to 14 enabled).
PostController(base, mask) ==
    OCW1(ICW4(ICW3(ICW2(ICW1(Controller(base), TRUE), base)), FALSE), mask)

PostPics == [c \in Chips |-> IF c = "master"
                             THEN PostController(8, {3, 4, 5, 7})
                             ELSE PostController(112, {0, 1, 2, 3, 7})]

\* pic_read: the register a read of port 0 shows.
pic_read0(p) == IF p.read_isr THEN p.isr ELSE p.irr
============================================================================
