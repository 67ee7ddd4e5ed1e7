------------------------------ MODULE Keyboard ------------------------------
(***************************************************************************)
(* The 8042 keyboard controller of core/kbd.c, with its event in the       *)
(* scheduler (EV_KBD), its request line at the interrupt controller (IRQ   *)
(* 1), the host that pushes scan codes and a guest that programs it.       *)
(*                                                                         *)
(* Bytes the controller or the keyboard answers with are Ack (FAh) or Data *)
(* (any other value): nothing here depends on which.  Of the               *)
(* command byte only bit 0, the interrupt enable, has an effect; the       *)
(* disable bit, the LEDs, the scan set, the status bits are only read      *)
(* back, and kbd_enabled is never cleared.                                 *)
(*                                                                         *)
(* port is a history variable: the bytes queue_byte was called with, or    *)
(* the byte a read of port 60h answered with.  KbdNext sets it, and no     *)
(* step depends on it.                                                     *)
(***************************************************************************)
EXTENDS Naturals, Sequences

CONSTANTS
    Codes,     \* scan codes the host pushes
    Ack, Data, \* bytes that answer a command
    QSize      \* QSIZE, 256 in the code

ASSUME QSizeAssumption == QSize \in Nat \ {0}

Byte == Codes \union {Ack, Data}

VARIABLES
    queue,        \* kc.queue from qhead to qtail
    out,          \* kc.out, which keeps its value after it is read
    obf,          \* kc.obf: out holds an unread byte
    irq_enable,   \* kc.cmdbyte & 1
    pending_cmd,  \* kc.pending_cmd: the controller command awaiting a byte
    kbd_cmd,      \* kc.kbd_cmd: the keyboard command awaiting a byte
    event,        \* sched_active(EV_KBD)
    irq1,         \* the request line at the interrupt controller
    reset_pending,\* machine.c: a reset was requested
    port          \* history: what the last step passed to or from the controller

ctl == <<irq_enable, pending_cmd, kbd_cmd>>
kbdVars == <<queue, out, obf, irq_enable, pending_cmd, kbd_cmd, event, irq1, reset_pending,
             port>>

None == "none"
ControllerCmds == {"write_cmdbyte", "output_port", "echo_byte", "to_mouse"}
KeyboardCmds == {"leds", "scan_set", "rate"}

\* kbd_init, with the scheduler and the interrupt controllers reset alike.
KbdInit ==
    /\ queue = << >> /\ out = Data /\ obf = FALSE
    /\ irq_enable = TRUE /\ pending_cmd = None /\ kbd_cmd = None
    /\ event = FALSE /\ irq1 = FALSE /\ reset_pending = FALSE
    /\ port = [op |-> "none", bytes |-> << >>]

----------------------------------------------------------------------------
(* Filling and emptying the queue.                                         *)

\* The bug of checking the room once for all the bytes of a key.
FittingFirst(bs) == IF Len(queue) < QSize THEN bs ELSE << >>

\* The bug of giving up the last place of the queue, as a ring does that tells
\* full from empty by its pointers alone.
FittingOneShort(bs) ==
    IF Len(bs) < QSize - Len(queue) THEN bs ELSE SubSeq(bs, 1, QSize - Len(queue) - 1)

\* What is left of the bytes bs after queue_byte has dropped those that do not
\* fit.
Fitting(bs) ==
    IF Len(bs) <= QSize - Len(queue) THEN bs ELSE SubSeq(bs, 1, QSize - Len(queue))

\* queue_byte for each of bs in turn: the first byte that fits starts the
\* delivery event unless the output buffer is occupied or it is running.
QueueBytes(bs) ==
    /\ queue' = queue \o Fitting(bs)
    /\ event' = (event \/ (~obf /\ Fitting(bs) # << >>))

\* The bug of delivering a byte without advancing qhead.
DeliverKeepsByte ==
    /\ event
    /\ event' = FALSE
    /\ IF obf \/ queue = << >>
       THEN UNCHANGED <<out, obf, irq1>>
       ELSE /\ out' = Head(queue)
            /\ obf' = TRUE
            /\ irq1' = (irq1 \/ irq_enable)
    /\ UNCHANGED <<queue, ctl, reset_pending>>

\* kbd_deliver, when fire_due finds the event due.
Deliver ==
    /\ event
    /\ event' = FALSE
    /\ IF obf \/ queue = << >>
       THEN UNCHANGED <<queue, out, obf, irq1>>
       ELSE /\ out' = Head(queue)
            /\ queue' = Tail(queue)
            /\ obf' = TRUE
            /\ irq1' = (irq1 \/ irq_enable)
    /\ UNCHANGED <<ctl, reset_pending>>

\* kbd_push_scancode: the host pushes the codes of one key together.
PushScancodes(bs) ==
    /\ QueueBytes(bs)
    /\ UNCHANGED <<out, obf, ctl, irq1, reset_pending>>

\* The bug of a read that leaves the next byte to the next key press.
ReadNoRearm ==
    /\ obf' = FALSE
    /\ irq1' = (irq1 /\ ~obf)
    /\ UNCHANGED <<queue, out, ctl, event, reset_pending>>

\* The bug of a read that leaves the request standing.
ReadKeepsIrq ==
    /\ obf' = FALSE
    /\ event' = (event \/ (obf /\ queue # << >>))
    /\ UNCHANGED <<queue, out, irq1, ctl, reset_pending>>

\* rd_60.  A read without a byte waiting returns the last one again and changes
\* nothing.
ReadData ==
    /\ obf' = FALSE
    /\ irq1' = (irq1 /\ ~obf)
    /\ event' = (event \/ (obf /\ queue # << >>))
    /\ UNCHANGED <<queue, out, ctl, reset_pending>>

----------------------------------------------------------------------------
(* Commands.                                                               *)

\* Ports 20h/21h: the interrupt controller forgets the request, because the CPU
\* accepted it or the guest reinitialised the controller.
ForgetIrq ==
    /\ irq1' = FALSE
    /\ UNCHANGED <<queue, out, obf, ctl, event, reset_pending>>

\* wr_64: a command that answers at once (20h, A9h, AAh, ABh, C0h, D0h, E0h).
CommandReply ==
    /\ QueueBytes(<<Data>>)
    /\ UNCHANGED <<out, obf, ctl, irq1, reset_pending>>

\* wr_64: a command that takes a data byte replaces whichever was waiting.
CommandParam(c) ==
    /\ pending_cmd' = c
    /\ UNCHANGED <<queue, out, obf, irq_enable, kbd_cmd, event, irq1, reset_pending>>

\* wr_64 FEh, and wr_60 after D1h with bit 0 clear.
RequestReset ==
    /\ reset_pending' = TRUE
    /\ UNCHANGED <<queue, out, obf, ctl, event, irq1>>

\* wr_60 while a controller command waits for its byte; bs is what it queues.
DataForController(bs) ==
    /\ pending_cmd # None
    /\ pending_cmd' = None
    /\ \/ /\ pending_cmd = "write_cmdbyte" /\ bs = << >>
          /\ irq_enable' \in BOOLEAN
          /\ UNCHANGED reset_pending
       \/ /\ pending_cmd = "output_port" /\ bs = << >>
          /\ \E reset \in BOOLEAN : reset_pending' = (reset_pending \/ reset)
          /\ UNCHANGED irq_enable
       \/ /\ pending_cmd = "echo_byte" /\ Len(bs) = 1
          /\ UNCHANGED <<irq_enable, reset_pending>>
       \/ /\ pending_cmd = "to_mouse" /\ bs = << >>
          /\ UNCHANGED <<irq_enable, reset_pending>>
    /\ QueueBytes(bs)
    /\ UNCHANGED <<out, obf, kbd_cmd, irq1>>

\* The answers of kbd_device_cmd to a command, and to a parameter.
CommandAnswers == {<<Ack>>, <<Data>>, <<Ack, Data>>, <<Ack, Data, Data>>}
ParamAnswers(c) == IF c = "scan_set" THEN {<<Ack>>, <<Ack, Data>>} ELSE {<<Ack>>}

\* wr_60 otherwise: kbd_device_cmd, which answers with bs.
DataForKeyboard(bs) ==
    /\ pending_cmd = None
    /\ \/ /\ kbd_cmd # None /\ bs \in ParamAnswers(kbd_cmd)
          /\ kbd_cmd' = None
       \/ /\ kbd_cmd = None /\ bs = <<Ack>>
          /\ kbd_cmd' \in KeyboardCmds
       \/ /\ kbd_cmd = None /\ bs \in CommandAnswers
          /\ UNCHANGED kbd_cmd
    /\ QueueBytes(bs)
    /\ UNCHANGED <<out, obf, irq_enable, pending_cmd, irq1, reset_pending>>

\* machine_run_ns carries the reset out between two slices.
Reset ==
    /\ reset_pending
    /\ queue' = << >> /\ out' = Data /\ obf' = FALSE
    /\ irq_enable' = TRUE /\ pending_cmd' = None /\ kbd_cmd' = None
    /\ event' = FALSE /\ irq1' = FALSE /\ reset_pending' = FALSE

----------------------------------------------------------------------------
\* The codes of one key press: one byte, or a prefix and a byte.
KeyCodes == {<<a>> : a \in Codes} \union {<<a, b>> : a, b \in Codes}

\* What wr_60 may queue.
Replies == CommandAnswers \union {<<b>> : b \in Byte} \union {<< >>}

\* The calls by which bytes reach and leave the controller.
Offers(bs) == port' = [op |-> "offer", bytes |-> bs]
Reads == port' = [op |-> "read", bytes |-> <<out>>]
Resets == port' = [op |-> "reset", bytes |-> << >>]
Silent == port' = [op |-> "none", bytes |-> << >>]

KbdNext ==
    \/ \E bs \in KeyCodes : PushScancodes(bs) /\ Offers(bs)
    \/ Deliver /\ Silent
    \/ ReadData /\ Reads
    \/ ForgetIrq /\ Silent
    \/ CommandReply /\ Offers(<<Data>>)
    \/ \E c \in ControllerCmds : CommandParam(c) /\ Silent
    \/ RequestReset /\ Silent
    \/ \E bs \in Replies : DataForController(bs) /\ Offers(bs)
    \/ \E bs \in Replies : DataForKeyboard(bs) /\ Offers(bs)
    \/ Reset /\ Resets

\* Emulated time passes, so a scheduled event fires.
KbdSpec == KbdInit /\ [][KbdNext]_kbdVars /\ WF_kbdVars(Deliver /\ Silent)

----------------------------------------------------------------------------
\* port is left to ImplementsChannel, which says what each step passes.
KbdTypeOK ==
    /\ queue \in Seq(Byte) /\ Len(queue) <= QSize
    /\ out \in Byte /\ obf \in BOOLEAN
    /\ irq_enable \in BOOLEAN
    /\ pending_cmd \in ControllerCmds \union {None}
    /\ kbd_cmd \in KeyboardCmds \union {None}
    /\ event \in BOOLEAN /\ irq1 \in BOOLEAN /\ reset_pending \in BOOLEAN

\* No byte is stranded: while bytes wait in the queue either the guest still has
\* one to read, whose read will fetch the next, or the delivery event is running.
NoStrandedByte == queue # << >> => obf \/ event

\* The event never runs for nothing: not over a byte the guest has not read and
\* not with an empty queue.  So no delivery is ever swallowed by the early return
\* of kbd_deliver.
EventIsUseful == event => ~obf /\ queue # << >>

\* An interrupt request always stands for an unread byte, so a handler that reads
\* port 60h never gets a stale code.
IrqMeansByte == irq1 => obf

\* The bytes the guest has yet to read: the output buffer, then the queue.
Unread == (IF obf THEN <<out>> ELSE << >>) \o queue

Channel == INSTANCE ByteChannel WITH chan <- Unread, ready <- obf, Size <- QSize

\* The controller is a bounded FIFO, call by call.  What queue_byte is offered goes in
\* up to the room there is, and no further; a read of port 60h takes the byte in the
\* output buffer or, with none there, nothing; and no other step takes, drops or
\* reorders a byte: above all not the event, which moves one into the output buffer.
ImplementsChannel == Channel!Spec
=============================================================================
