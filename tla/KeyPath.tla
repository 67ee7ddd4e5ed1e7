------------------------------ MODULE KeyPath ------------------------------
(***************************************************************************)
(* A key on its way from the host to a DOS program: the keyboard           *)
(* controller (Keyboard), IRQ 1 at the interrupt controllers (Pic), the    *)
(* CPU's interrupt check, the BIOS's INT 9 handler and its ring buffer,    *)
(* and a program that waits for keys in INT 16h, function 0.               *)
(*                                                                         *)
(* The state is that after POST, which leaves the controller's self-test   *)
(* answer in its queue.  The timer interrupts too, and wakes the CPU       *)
(* without a key.  Between its calls the program may turn interrupts on or *)
(* off.  The program is external; the BIOS below it is the code.           *)
(*                                                                         *)
(* Events of the host are numbered.  A scan code is a key, whether it goes *)
(* up, and the number of the event it belongs to; a word in the ring is    *)
(* the number of the key that put it there, 0 for Ctrl-Break's.  Ctrl      *)
(* stands for the shift keys that come in a plain and an E0-prefixed form. *)
(***************************************************************************)
EXTENDS Pic, Sequences, SequencesExt

CONSTANTS
    QSize,       \* QSIZE of kbd.c: 256 in the code
    Slots,       \* words in the ring buffer: 16 in the code
    MaxEvents,   \* bound: host events
    MaxTicks     \* bound: timer interrupts

ASSUME SizesAssumption == QSize \in Nat \ {0} /\ Slots \in Nat \ {0, 1}
ASSUME BoundsAssumption == MaxEvents \in Nat /\ MaxTicks \in Nat

VARIABLES
    queue, out, obf, event, irq_enable, pending_cmd, kbd_cmd, reset_pending,
                               \* the keyboard controller, as in Keyboard
    pics,                      \* the interrupt controllers
    iflag, inhibit, halted,    \* the CPU, as in Interrupts
    handler,                   \* the hardware interrupt being handled
    pc, saved,                 \* the program: where it is, the IF it calls INT 16h with
    shifts,                    \* the BIOS's kstate.e0 and Ctrl bits of 40:17h to 40:96h
    slots, head, tail,         \* the ring at 40:1Eh and its pointers 40:1Ah, 40:1Ch
    held,                      \* the Ctrl keys that are physically down
    events, ticks,             \* host events and timer interrupts so far
    received,                  \* what INT 16h has returned, in order
    gone,                      \* keys dropped at a full queue or ring, or flushed by Ctrl-Break
    cut                        \* a full queue has taken only part of some event

kbc == <<queue, out, obf, event, irq_enable, pending_cmd, kbd_cmd, reset_pending>>
ring == <<slots, head, tail>>
bios == <<shifts, slots, head, tail>>
prog == <<pc, saved, received>>
host == <<held, events, cut>>
vars == <<kbc, pics, iflag, inhibit, halted, handler, pc, saved,
          shifts, slots, head, tail, held, events, ticks, received, gone, cut>>

Keys == {"letter", "ctrl", "e0", "scroll"}
Codes == [key : Keys, up : BOOLEAN, num : 1..MaxEvents]
NoKey == [key |-> "none", up |-> FALSE, num |-> 0]     \* 55h, the self-test answer
Code(key, up) == [key |-> key, up |-> up, num |-> events + 1]

\* The controller of Keyboard.tla, whose request is IRQ 1 of the master.  Its history
\* variable is not used here.
Kbd == INSTANCE Keyboard WITH
    Codes <- Codes, Ack <- NoKey, Data <- NoKey, irq1 <- 1 \in pics["master"].irr,
    port <- NoKey

NoHandler == [line |-> NoLine, stage |-> "none", if |-> FALSE]
BothUp == [left |-> FALSE, right |-> FALSE]

Init ==
    /\ queue = <<NoKey>> /\ out = NoKey /\ obf = FALSE /\ event = TRUE
    /\ irq_enable = TRUE /\ pending_cmd = "none" /\ kbd_cmd = "none" /\ reset_pending = FALSE
    /\ pics = PostPics
    /\ iflag = TRUE /\ inhibit = FALSE /\ halted = FALSE /\ handler = NoHandler
    /\ pc = "between" /\ saved = TRUE
    /\ shifts = [e0 |-> FALSE, left |-> FALSE, right |-> FALSE]
    /\ slots = [i \in 0..(Slots - 1) |-> 0] /\ head = 0 /\ tail = 0
    /\ held = BothUp /\ events = 0 /\ ticks = 0
    /\ received = << >> /\ gone = {} /\ cut = FALSE

----------------------------------------------------------------------------
(* The host and the devices.                                               *)

\* The codes of one host event (main.ts sendKey), and the keys held after it.
Letter == <<Code("letter", FALSE)>>
LeftCtrl == <<Code("ctrl", held.left)>>
RightCtrl == <<Code("e0", FALSE), Code("ctrl", held.right)>>
Break == <<Code("e0", FALSE), Code("scroll", FALSE)>>

Push(bs, after) ==
    /\ events < MaxEvents
    /\ events' = events + 1
    /\ held' = after
    /\ UNCHANGED pics
    /\ Kbd!PushScancodes(bs)
    /\ gone' = IF Kbd!Fitting(bs) = bs THEN gone ELSE gone \union {events + 1}
    /\ cut' = (cut \/ Kbd!Fitting(bs) # bs)
    /\ UNCHANGED <<iflag, inhibit, halted, handler, bios, ticks, prog>>

HostKey ==
    \/ Push(Letter, held)
    \/ Push(LeftCtrl, [held EXCEPT !.left = ~@])
    \/ Push(RightCtrl, [held EXCEPT !.right = ~@])
    \/ Push(Break, held)

\* EV_KBD fires.
Deliver ==
    /\ pics' = IF obf \/ queue = << >> THEN pics ELSE pic_raise_irq(pics, 1)
    /\ Kbd!Deliver
    /\ UNCHANGED <<iflag, inhibit, halted, handler, bios, host, ticks, prog, gone>>

\* The timer requests an interrupt.
Tick ==
    /\ ticks < MaxTicks
    /\ ticks' = ticks + 1
    /\ pics' = pic_raise_irq(pics, 0)
    /\ UNCHANGED <<kbc, iflag, inhibit, halted, handler, bios, host, prog, gone>>

----------------------------------------------------------------------------
(* The CPU between two instructions; see Interrupts.                       *)

CanInterrupt == ~inhibit /\ iflag
Interrupting == CanInterrupt /\ pic_has_pending(pics)
Looked == IF CanInterrupt THEN update_cascade(pics) ELSE pics

AcceptInterrupt ==
    /\ ~halted /\ Interrupting
    /\ pics' = AckState(pics)
    /\ handler' = [line |-> AckLine(pics), stage |-> "hle", if |-> iflag]
    /\ iflag' = FALSE /\ inhibit' = FALSE
    /\ UNCHANGED <<kbc, halted, bios, host, ticks, prog, gone>>

Wake ==
    /\ halted /\ iflag /\ pic_has_pending(pics)
    /\ pics' = update_cascade(pics)
    /\ halted' = FALSE
    /\ UNCHANGED <<kbc, iflag, inhibit, handler, bios, host, ticks, prog, gone>>

Executes == ~halted /\ ~Interrupting

----------------------------------------------------------------------------
(* The ring buffer.                                                        *)

\* The slot after another.
After(i) == IF i + 1 >= Slots THEN 0 ELSE i + 1

\* The words from head to tail.
Waiting == LET n == (tail - head + Slots) % Slots
           IN  [i \in 1..n |-> slots[(head + i - 1) % Slots]]

\* The bug of telling a full ring from the slot after the next one.
PushFillsRing(word) ==
    /\ slots' = [slots EXCEPT ![tail] = word]
    /\ tail' = After(tail)
    /\ UNCHANGED <<head, gone>>

\* kbuf_push: one slot stays free, and a word that would take it is dropped.
kbuf_push(word) ==
    IF After(tail) = head
    THEN gone' = gone \union {word} /\ UNCHANGED ring
    ELSE /\ slots' = [slots EXCEPT ![tail] = word]
         /\ tail' = After(tail)
         /\ UNCHANGED <<head, gone>>

\* The bug of function 1 in place of function 0: the word stays.
PopKeeps == received' = Append(received, slots[head]) /\ UNCHANGED head

\* kbuf_pop, for the program.
kbuf_pop == received' = Append(received, slots[head]) /\ head' = After(head)

----------------------------------------------------------------------------
(* INT 9 and INT 8.                                                        *)

\* The bug of forgetting the prefix only when the code is used.
ShiftedKeepsE0(s, code) ==
    CASE code.key = "e0"   -> [s EXCEPT !.e0 = TRUE]
      [] code.key = "ctrl" -> IF s.e0 THEN [s EXCEPT !.right = ~code.up]
                                      ELSE [s EXCEPT !.left = ~code.up]
      [] OTHER             -> [s EXCEPT !.e0 = FALSE]

\* The shift state after a code: E0 is remembered for one code.
Shifted(s, code) ==
    CASE code.key = "e0"   -> [s EXCEPT !.e0 = TRUE]
      [] code.key = "ctrl" -> IF s.e0 THEN [s EXCEPT !.right = ~code.up, !.e0 = FALSE]
                                      ELSE [s EXCEPT !.left = ~code.up]
      [] OTHER             -> [s EXCEPT !.e0 = FALSE]

\* bios_kbd_scancode.  A byte that is no key's code ends a prefix and does
\* nothing else; Ctrl-Break empties the ring and leaves a zero word in it.
bios_kbd_scancode(code) ==
    /\ shifts' = Shifted(shifts, code)
    /\ IF code.key = "letter" /\ ~code.up
       THEN kbuf_push(code.num)
       ELSE IF /\ code.key = "scroll" /\ ~code.up
               /\ shifts.e0 /\ (shifts.left \/ shifts.right)
       THEN /\ head' = 0 /\ tail' = After(0)
            /\ slots' = [slots EXCEPT ![0] = 0]
            /\ gone' = gone \union (ToSet(Waiting) \ {0})
       ELSE UNCHANGED <<ring, gone>>

InStub(stage) == Executes /\ handler.stage = stage

\* int09 reads port 60h, which withdraws the request, and decodes the byte.
Int9 ==
    /\ InStub("hle") /\ handler.line = 1
    /\ handler' = [handler EXCEPT !.stage = "eoi"]
    /\ pics' = IF obf THEN pic_lower_irq(Looked, 1) ELSE Looked
    /\ Kbd!ReadData
    /\ bios_kbd_scancode(out)
    /\ inhibit' = FALSE
    /\ UNCHANGED <<iflag, halted, host, ticks, prog>>

\* int08 keeps the time of day.
Int8 ==
    /\ InStub("hle") /\ handler.line = 0
    /\ handler' = [handler EXCEPT !.stage = "eoi"]
    /\ pics' = Looked /\ inhibit' = FALSE
    /\ UNCHANGED <<kbc, iflag, halted, bios, host, ticks, prog, gone>>

StubEoi ==
    /\ InStub("eoi")
    /\ handler' = [handler EXCEPT !.stage = "iret"]
    /\ pics' = [Looked EXCEPT !["master"] = EoiNonSpecific(@)]
    /\ inhibit' = FALSE
    /\ UNCHANGED <<kbc, iflag, halted, bios, host, ticks, prog, gone>>

StubIret ==
    /\ InStub("iret")
    /\ handler' = NoHandler
    /\ iflag' = handler.if
    /\ pics' = Looked /\ inhibit' = FALSE
    /\ UNCHANGED <<kbc, halted, bios, host, ticks, prog, gone>>

----------------------------------------------------------------------------
(* The program and INT 16h, function 0.                                    *)

At(where) == InStub("none") /\ pc = where

\* The program goes its way and comes to its next call with interrupts on or off.
Compute ==
    /\ At("between")
    /\ pc' = "call"
    /\ \E on \in BOOLEAN : iflag' = on /\ inhibit' = (on /\ ~iflag)
    /\ pics' = Looked
    /\ UNCHANGED <<kbc, halted, handler, bios, host, ticks, saved, received, gone>>

\* INT 16h saves the flags and disables interrupts.
Call ==
    /\ At("call")
    /\ pc' = "int16"
    /\ saved' = iflag /\ iflag' = FALSE
    /\ pics' = Looked /\ inhibit' = FALSE
    /\ UNCHANGED <<kbc, halted, handler, bios, host, ticks, received, gone>>

\* The bug of waiting without enabling interrupts.
HleWaitKeepsIf == halted' = TRUE /\ UNCHANGED <<iflag, pc>>

\* hle_wait: the CPU halts, interrupts enabled, and executes the same hook again
\* after the next one.
HleWait == halted' = TRUE /\ iflag' = TRUE /\ UNCHANGED pc

\* int16: the word at the ring's head, or wait.
Int16 ==
    /\ At("int16")
    /\ IF head = tail
       THEN HleWait /\ UNCHANGED <<head, received>>
       ELSE /\ kbuf_pop
            /\ pc' = "return"
            /\ UNCHANGED <<iflag, halted>>
    /\ pics' = Looked /\ inhibit' = FALSE
    /\ UNCHANGED <<kbc, handler, shifts, slots, tail, host, ticks, saved, gone>>

\* The stub's IRET.
Return ==
    /\ At("return")
    /\ pc' = "between"
    /\ iflag' = saved
    /\ pics' = Looked /\ inhibit' = FALSE
    /\ UNCHANGED <<kbc, halted, handler, bios, host, ticks, saved, received, gone>>

----------------------------------------------------------------------------
CpuStep ==
    \/ AcceptInterrupt \/ Wake
    \/ Int9 \/ Int8 \/ StubEoi \/ StubIret
    \/ Compute \/ Call \/ Int16 \/ Return

Next == HostKey \/ Deliver \/ Tick \/ CpuStep

\* Emulated time passes and the CPU runs; the host and the timer owe nothing.
Spec == Init /\ [][Next]_vars /\ WF_vars(CpuStep) /\ WF_vars(Deliver)

----------------------------------------------------------------------------
Numbers == 0..MaxEvents

TypeOK ==
    /\ Kbd!KbdTypeOK
    /\ pics \in [Chips -> PicState]
    /\ iflag \in BOOLEAN /\ inhibit \in BOOLEAN /\ halted \in BOOLEAN
    /\ handler \in [line : {0, 1, NoLine}, stage : {"hle", "eoi", "iret", "none"}, if : BOOLEAN]
    /\ pc \in {"between", "call", "int16", "return"} /\ saved \in BOOLEAN
    /\ shifts \in [e0 : BOOLEAN, left : BOOLEAN, right : BOOLEAN]
    /\ slots \in [0..(Slots - 1) -> Numbers] /\ head \in 0..(Slots - 1) /\ tail \in 0..(Slots - 1)
    /\ held \in [left : BOOLEAN, right : BOOLEAN]
    /\ events \in Numbers /\ ticks \in 0..MaxTicks
    /\ received \in Seq(Numbers) /\ gone \in SUBSET Numbers /\ cut \in BOOLEAN

\* Every place between the host and the program, the one nearest to the program
\* first: the number of the letter that is there, or 0 for anything else.
Numbered(codes) ==
    [i \in 1..Len(codes) |-> IF codes[i].key = "letter" THEN codes[i].num ELSE 0]
Pipeline == received \o Waiting \o Numbered(Kbd!Unread)

\* Keys reach the program in the order they were pressed and each at most once,
\* through both buffers and whatever is interrupted.
InOrder ==
    \A i, j \in 1..Len(Pipeline) :
        i < j /\ Pipeline[i] # 0 /\ Pipeline[j] # 0 => Pipeline[i] < Pipeline[j]

\* The CPU never sleeps on a key: when it halts in INT 16h the ring is empty, and
\* it can be interrupted.  A byte the controller has ready is then a pending
\* interrupt.
SleepsOnlyWithoutKey ==
    halted => /\ head = tail /\ iflag /\ handler = NoHandler
              /\ obf => pic_has_pending(pics)

\* The whole path keeps its types, and SleepsOnlyWithoutKey.
Consistent == TypeOK /\ SleepsOnlyWithoutKey

\* No shift key sticks: once the codes still in the controller are decoded, the
\* BIOS believes of both Ctrl keys what is true of them, unless a full queue has
\* cut an event short.
ShiftsFollowKeys ==
    LET codes == Kbd!Unread
        after[i \in 0..Len(codes)] ==
            IF i = 0 THEN shifts ELSE Shifted(after[i - 1], codes[i])
        believed == after[Len(codes)]
    IN  ~cut => believed.left = held.left /\ believed.right = held.right

\* A key that was pressed is returned by INT 16h, unless it is dropped or flushed.
KeysArrive ==
    \A n \in 1..MaxEvents :
        (n \in ToSet(Pipeline)) ~> (n \in ToSet(received) \union gone)
=============================================================================
