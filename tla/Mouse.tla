-------------------------------- MODULE Mouse --------------------------------
(***************************************************************************)
(* The mouse driver of core/mouse.c between the page, the interrupt        *)
(* controllers and a program: host events wait in a queue and raise IRQ    *)
(* 12; the BIOS's handler (INT 74h) applies one event and may call the     *)
(* program's own; the program asks for the rest through INT 33h.           *)
(*                                                                         *)
(* Events arrive between two instructions, so anywhere in the handler.     *)
(* One axis stands for both; a mickey is a unit of position.  The cursor's *)
(* shape and visibility, the sensitivity, and saving and restoring the     *)
(* driver's state (functions 01h, 02h, 09h, 0Ah, 0Fh, 13h, 16h, 17h, 1Ah)  *)
(* are left out, and so is the range below 0.                              *)
(***************************************************************************)
EXTENDS Pic, Sequences, SequencesExt

CONSTANTS
    Buttons,    \* the buttons, of the three there are
    Moves,      \* the motion of an event
    Modes,      \* the greatest position in each of the video modes
    MQ,         \* events that the queue can hold
    MaxEvents,  \* bound: events from the host
    MaxCalls    \* bound: calls of the program that change the driver's state

ASSUME QueueAssumption == MQ \in Nat \ {0}
ASSUME RangeAssumption ==
    /\ Modes \subseteq Nat /\ Moves \subseteq Int
    /\ \E max \in Modes : \A other \in Modes : other <= max
ASSUME BoundsAssumption == MaxEvents \in Nat /\ MaxCalls \in Nat

VARIABLES
    pics,    \* the interrupt controllers
    mq,      \* the events not yet applied, oldest first
    ms,      \* the driver's state
    frames,  \* INT 74h handlers entered and not left, innermost last
    iflag,   \* cpu.eflags & F_IF
    sent,    \* what the host has sent: buttons, and whether the last event was dropped
    total,   \* presses, releases and motion of the events that were queued
    told,    \* those the program was told of, or has discarded with a reset
    count    \* events and calls so far

vars == <<pics, mq, ms, frames, iflag, sent, total, told, count>>

IRQ == 12
Stages == {"hle", "handler", "eoi_slave", "eoi_master", "iret"}

None == [b \in Buttons |-> 0]
Tally(press, release, mick) == [press |-> press, release |-> release, mick |-> mick]
Nothing == Tally(None, None, 0)

Plus(s, t) == Tally([b \in Buttons |-> s.press[b] + t.press[b]],
                    [b \in Buttons |-> s.release[b] + t.release[b]], s.mick + t.mick)

\* What an event adds when the buttons were these.
Effect(buttons, e) ==
    Tally([b \in Buttons |-> IF b \in e.buttons \ buttons THEN 1 ELSE 0],
          [b \in Buttons |-> IF b \in buttons \ e.buttons THEN 1 ELSE 0], e.dx)

----------------------------------------------------------------------------
(* Positions.                                                              *)

Least(a, b) == IF a < b THEN a ELSE b
Greatest(a, b) == IF a < b THEN b ELSE a

Clamped(m) == [m EXCEPT !.x = Greatest(m.min, Least(m.max, @))]

\* set_defaults: the position is the middle of the range, the counts are zero and
\* no handler is called.
Defaults(m) ==
    [m EXCEPT !.x = (m.min + m.max + 1) \div 2, !.tally = Nothing, !.mask = {}]

\* mouse_on_mode_change.
ModeChanged(m, max) == [m EXCEPT !.min = 0, !.max = max, !.x = (max + 1) \div 2]

Started == [x |-> 0, min |-> 0, max |-> 0, buttons |-> {}, tally |-> Nothing, mask |-> {}]
TextMax == CHOOSE max \in Modes : \A other \in Modes : other <= max

\* mouse_init; the BIOS has programmed the controllers.
Init ==
    /\ pics = PostPics
    /\ mq = << >>
    /\ ms = Defaults(ModeChanged(Started, TextMax))
    /\ frames = << >> /\ iflag = TRUE
    /\ sent = [buttons |-> {}, dropped |-> FALSE]
    /\ total = Nothing /\ told = Nothing
    /\ count = [events |-> 0, calls |-> 0]

----------------------------------------------------------------------------
(* The host.                                                               *)

LastQueued == IF mq = << >> THEN ms.buttons ELSE Last(mq).buttons

\* mouse_host_event: the event is queued and requests an interrupt, or is dropped
\* without one when the queue is full.
HostEvent(dx, buttons) ==
    /\ count.events < MaxEvents
    /\ count' = [count EXCEPT !.events = @ + 1]
    /\ IF Len(mq) >= MQ
       THEN /\ sent' = [buttons |-> buttons, dropped |-> TRUE]
            /\ UNCHANGED <<mq, pics, total>>
       ELSE LET e == [dx |-> dx, buttons |-> buttons]
            IN  /\ mq' = Append(mq, e)
                /\ pics' = pic_raise_irq(pics, IRQ)
                /\ sent' = [buttons |-> buttons, dropped |-> FALSE]
                /\ total' = Plus(total, Effect(LastQueued, e))
    /\ UNCHANGED <<ms, frames, iflag, told>>

----------------------------------------------------------------------------
(* INT 74h.                                                                *)

\* The CPU takes the interrupt.
Enter ==
    /\ iflag /\ pic_has_pending(pics)
    /\ pics' = AckState(pics)
    /\ frames' = Append(frames, "hle")
    /\ iflag' = FALSE
    /\ UNCHANGED <<mq, ms, sent, total, told, count>>

Top == Last(frames)
At(stage) == frames # << >> /\ Top = stage
GoTo(stage) == frames' = Append(Front(frames), stage)

\* The bug of counting a held button as pressed again.
AppliedHeld(m, e) ==
    [Clamped([m EXCEPT !.x = @ + e.dx])
        EXCEPT !.buttons = e.buttons,
               !.tally = Plus(@, [Effect(m.buttons, e) EXCEPT
                                    !.press = [b \in Buttons |-> IF b \in e.buttons THEN 1 ELSE 0]])]

\* The bug of adding a released button to those still held.
AppliedSticky(m, e) ==
    [Clamped([m EXCEPT !.x = @ + e.dx])
        EXCEPT !.buttons = @ \union e.buttons, !.tally = Plus(@, Effect(m.buttons, e))]

\* apply_event.
Applied(m, e) ==
    [Clamped([m EXCEPT !.x = @ + e.dx])
        EXCEPT !.buttons = e.buttons, !.tally = Plus(@, Effect(m.buttons, e))]

\* What the program may ask to be called for.
EventMask(m, e) ==
    (IF e.dx # 0 THEN {"move"} ELSE {})
    \union (IF e.buttons \ m.buttons # {} THEN {"press"} ELSE {})
    \union (IF m.buttons \ e.buttons # {} THEN {"release"} ELSE {})

\* The bug of requesting no interrupt for the events left in the queue.
RaisedOnce(ps, rest) == ps

\* The handler requests an interrupt for the events left in the queue.
Raised(ps, rest) == IF rest # << >> THEN pic_raise_irq(ps, IRQ) ELSE ps

\* The bug of ending the service before the program's handler is called.
HleEoiFirst ==
    /\ At("hle")
    /\ IF mq = << >> THEN GoTo("eoi_slave") /\ UNCHANGED <<mq, ms, pics>>
       ELSE /\ mq' = Tail(mq)
            /\ ms' = Applied(ms, Head(mq))
            /\ pics' = [c \in Chips |-> EoiNonSpecific(Raised(pics, Tail(mq))[c])]
            /\ GoTo(IF EventMask(ms, Head(mq)) \intersect ms.mask # {}
                    THEN "handler" ELSE "eoi_slave")
    /\ UNCHANGED <<iflag, sent, total, told, count>>

\* mouse_hle_irq: one event is applied, and the program's handler is called if it
\* wants to know of it.
Hle ==
    /\ At("hle")
    /\ IF mq = << >> THEN GoTo("eoi_slave") /\ UNCHANGED <<mq, ms, pics>>
       ELSE /\ mq' = Tail(mq)
            /\ ms' = Applied(ms, Head(mq))
            /\ pics' = Raised(pics, Tail(mq))
            /\ GoTo(IF EventMask(ms, Head(mq)) \intersect ms.mask # {}
                    THEN "handler" ELSE "eoi_slave")
    /\ UNCHANGED <<iflag, sent, total, told, count>>

\* The program's handler may enable interrupts; it returns to the stub.
HandlerSti ==
    /\ At("handler") /\ ~iflag
    /\ iflag' = TRUE
    /\ UNCHANGED <<pics, mq, ms, frames, sent, total, told, count>>
HandlerReturns ==
    /\ At("handler")
    /\ GoTo("eoi_slave")
    /\ UNCHANGED <<pics, mq, ms, iflag, sent, total, told, count>>

\* The stub's two EOIs and its IRET.
EoiSlave ==
    /\ At("eoi_slave")
    /\ pics' = [pics EXCEPT !["slave"] = EoiNonSpecific(@)]
    /\ GoTo("eoi_master")
    /\ UNCHANGED <<mq, ms, iflag, sent, total, told, count>>
EoiMaster ==
    /\ At("eoi_master")
    /\ pics' = [pics EXCEPT !["master"] = EoiNonSpecific(@)]
    /\ GoTo("iret")
    /\ UNCHANGED <<mq, ms, iflag, sent, total, told, count>>
Iret ==
    /\ At("iret")
    /\ frames' = Front(frames) /\ iflag' = TRUE
    /\ UNCHANGED <<pics, mq, ms, sent, total, told, count>>

----------------------------------------------------------------------------
(* INT 33h, called by the program or by its handler.                       *)

Calls(m, heard) ==
    /\ frames = << >> \/ At("handler")
    /\ count.calls < MaxCalls
    /\ count' = [count EXCEPT !.calls = @ + 1]
    /\ ms' = m /\ told' = Plus(told, heard)
    /\ UNCHANGED <<pics, mq, frames, iflag, sent, total>>

\* 00h, reset: text mode's range and the defaults.  What is in the queue stays.
ResetDriver == Calls(Defaults(ModeChanged(ms, TextMax)), ms.tally)

\* 21h, software reset.
SoftwareReset == Calls(Defaults(ms), ms.tally)

\* INT 10h sets a video mode.
SetMode(max) == Calls(ModeChanged(ms, max), Nothing)

\* 04h, set the position.
SetPosition(x) == Calls(Clamped([ms EXCEPT !.x = x]), Nothing)

\* 05h and 06h, the presses or releases of a button since the last such call.
PressInfo(b) ==
    /\ ms.tally.press[b] # 0
    /\ Calls([ms EXCEPT !.tally.press[b] = 0],
             [Nothing EXCEPT !.press[b] = ms.tally.press[b]])
ReleaseInfo(b) ==
    /\ ms.tally.release[b] # 0
    /\ Calls([ms EXCEPT !.tally.release[b] = 0],
             [Nothing EXCEPT !.release[b] = ms.tally.release[b]])

\* 07h and 08h, the range, in either order.
SetRange(a, b) ==
    Calls(Clamped([ms EXCEPT !.min = Least(a, b), !.max = Greatest(a, b)]), Nothing)

\* 0Bh, the motion since the last such call.
ReadMotion ==
    /\ ms.tally.mick # 0
    /\ Calls([ms EXCEPT !.tally.mick = 0], [Nothing EXCEPT !.mick = ms.tally.mick])

\* 0Ch and 14h, the handler and what it is called for.
SetHandler(mask) == Calls([ms EXCEPT !.mask = mask], Nothing)

----------------------------------------------------------------------------
Masks == {{}, {"press", "release"}, {"move", "press", "release"}}
Positions == 0..TextMax

Program ==
    \/ ResetDriver \/ SoftwareReset \/ ReadMotion
    \/ \E max \in Modes : SetMode(max)
    \/ \E x, y \in Positions : SetPosition(x) \/ SetRange(x, y)
    \/ \E b \in Buttons : PressInfo(b) \/ ReleaseInfo(b)
    \/ \E mask \in Masks : SetHandler(mask)

Stub == Hle \/ HandlerReturns \/ EoiSlave \/ EoiMaster \/ Iret

Next ==
    \/ \E dx \in Moves, buttons \in SUBSET Buttons : HostEvent(dx, buttons)
    \/ Enter \/ Stub \/ HandlerSti
    \/ Program

\* The CPU runs on, handlers return, and the program lets interrupts in.
Fairness == WF_vars(Enter) /\ WF_vars(Stub)

Spec == Init /\ [][Next]_vars /\ Fairness

----------------------------------------------------------------------------
Tallies == [press : [Buttons -> Nat], release : [Buttons -> Nat], mick : Int]
Events == [dx : Moves, buttons : SUBSET Buttons]
DriverStates == [x : Int, min : Nat, max : Nat, buttons : SUBSET Buttons, tally : Tallies,
                 mask : SUBSET {"move", "press", "release"}]

TypeOK ==
    /\ pics \in [Chips -> PicState]
    /\ mq \in Seq(Events) /\ Len(mq) <= MQ
    /\ ms \in DriverStates
    /\ frames \in Seq(Stages) /\ iflag \in BOOLEAN
    /\ sent \in [buttons : SUBSET Buttons, dropped : BOOLEAN]
    /\ total \in Tallies /\ told \in Tallies
    /\ count \in [events : 0..MaxEvents, calls : 0..MaxCalls]

\* However a program resets the driver, changes the mode or narrows the range while
\* the mouse moves, the position is within the range.
InRange == ms.min <= ms.x /\ ms.x <= ms.max

\* An event in the queue has an interrupt to come for it, also when it arrives while
\* the handler of an earlier one runs.
NoneStranded ==
    mq # << >> => \/ IRQ - 8 \in pics["slave"].irr
                  \/ \E i \in DOMAIN frames : frames[i] = "hle"

\* The effects of the events in the queue, when the buttons are these at first.
Coming ==
    LET upto[i \in 0..Len(mq)] ==
            IF i = 0 THEN Nothing
            ELSE Plus(upto[i - 1], Effect(IF i = 1 THEN ms.buttons ELSE mq[i - 1].buttons, mq[i]))
    IN  upto[Len(mq)]

\* Each press, each release and each mickey of a queued event reaches the program
\* once: what it was told, what it could ask for now and what is still in the
\* queue add up to what the host has sent, but for the events that were dropped.
EachCountedOnce == Plus(Plus(told, ms.tally), Coming) = total

\* A button is stuck only if its release found the queue full: with the queue empty
\* the program sees the buttons as they are, unless the last event was dropped.
StuckOnlyIfDropped == mq = << >> /\ ~sent.dropped => ms.buttons = sent.buttons

\* The program's handler is not entered again before it has returned, even if it
\* enables interrupts.
HandlerNotReentered ==
    \A i \in DOMAIN frames : frames[i] = "handler" => i = Len(frames)

\* Driver, queue, stub and controllers agree: the types, InRange, NoneStranded and
\* HandlerNotReentered.
Consistent == TypeOK /\ InRange /\ NoneStranded /\ HandlerNotReentered

\* Every queued event is applied in the end, however many arrive together.
QueueDrains == (mq # << >>) ~> (mq = << >>)
=============================================================================
