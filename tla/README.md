# DOS Mobile: a TLA+ model

DOS Mobile is an IBM PC emulator: a machine written in C (`src/core`), compiled
to WebAssembly, in a worker of a TypeScript shell (`src/web`) that paces it,
paints it and keeps its disks in the browser's database. This directory holds
TLA+ modules of the parts whose difficulty is in the order of things —
interrupts, queues, waits, asynchronous handlers, a database that may fail —,
the TLC runs that check them on small instances, and theorems that TLAPS proves
for every instance. `PROJECT.json` lists the runs, the theorems, and for every
definition the source lines it stands for.

    tlc -config Keyboard.cfg MCKeyboard.tla       model-check one run
    tlapm MouseProofs.tla                         check the proofs of a module

## 1. The system

| component | state | operations | interacts with |
|---|---|---|---|
| interrupt controllers, `core/pic.c` | irr, isr, imr, initialisation step of two 8259s | raise, lower, look, acknowledge, port writes | devices raise; the CPU looks and acknowledges; the guest programs |
| interrupt delivery, `core/cpu.c`, `core/sched.c` | IF, STI's shadow, halted | check between instructions, wake-up, gate, IRET | controllers, BIOS stubs |
| BIOS, `core/bios.c` | data area at 40:0, a few statics | stubs, INT 8/9/16h/1Ah/15h/13h, POST | devices by ports, CPU by `hle_wait` |
| keyboard controller, `core/kbd.c` | queue of 256 bytes, output buffer, pending commands | host push, delivery event, ports 60h and 64h | scheduler, IRQ 1, reset |
| scheduler, `core/sched.c` | emulated time, one event per device | run a slice, arm, cancel, fire | every device, the CPU's cycle counter |
| mouse, timer, RTC, DMA, Sound Blaster | registers, queues of their own | ports, events, IRQs 12, 0, 8, 5 | scheduler, controllers, audio ring |
| INT 13h, `core/bios_disk.c`, `core/disk.c` | geometry, a pending request | read, write, wait and try again | the worker's disks |
| store, `web/store.ts` | sparse image: chunks, dirty set; database: meta, chunks | read, write, takeDirty, transactions | IndexedDB |
| worker, `web/worker.ts` | running, paused, images, flush timer, tick chain | one async handler per message | all of the above |
| games folder, `web/localdrive.ts` | block cache, pending reads, overlay sectors | read, write, read-ahead, eviction | the folder's files, INT 13h |
| FAT, `web/fatfs.ts`, `fat.ts`, `hdd.ts` | FAT in memory, directories | allocate, write a file, flush | images |
| page, `web/main.ts`, `audio-worklet.ts` | keys down, overlay, audio buffer | messages to the worker | worker |

What is hard, and what makes each component correct:

* **interrupt controllers** — the cascade is recomputed, not wired, so it may be
  stale; EOIs name no line. Correct: an acknowledge always answers for a real
  request, no request is lost, services follow the nesting of handlers.
* **interrupt delivery** — STI; HLT is one step or the machine sleeps on work.
  Correct: every request is handled, the CPU sleeps only when idle.
* **keyboard** — a byte moves through a queue, an event, a buffer, an interrupt,
  a handler, a ring and a halted CPU, each with a limit and a way to miss its
  cue. Correct: bytes stay in order, none is stranded, none is read twice, no
  shift key sticks, a waiting program gets its key.
* **drive C:** — handlers stop at every `await` while the guest, the flush timer
  and other handlers go on; the page may go away at any moment; a transaction
  may fail. Correct: what DOS wrote is stored, newest last; a wipe leaves
  nothing; the drive is bootable whenever the machine runs.
* **scheduler and timer** — time runs by CPU cycles inside a slice and by events
  between slices. Correct: time never runs back and loses no cycle, the timer
  keeps its grid, a slice always ends.
* **waits in the BIOS** (INT 13h, 15h) — a service halts and is executed again
  after any interrupt, whose handler may call the same service. Correct: every
  call returns, with the content of one moment, and no timed wait is cut short.
* **games folder** — lazily loaded blocks under an overlay of written sectors.
  Correct: a read returns the newest content, errors and eviction included.
* **FAT writer** — directory entries are written at once, the FAT at the end.
  Correct: after any failure no chain is shared and no file is cut.
* **mouse** — host events arrive between any two instructions, also while the
  handler of an earlier one runs. Correct: each is applied once, none is left in
  the queue, no button sticks unless the queue was full.
* **worker** — one tick chain at a time, a machine that runs again after every
  handler, also a failed one.

## 2. The modules

| module | kind | what it models |
|---|---|---|
| `Pic` | operators | the functions of `pic.c` on a pair of controllers |
| `PicMachine` | specification | `pic.c` under an arbitrary guest |
| `PicProofs` | proofs | lemmas about `Pic` and about stacks of handlers, theorems about `PicMachine` |
| `Interrupts` | composition | `Pic`, the CPU's check, the BIOS stubs and an idle loop |
| `InterruptsProofs` | proofs | theorems about `Interrupts`, and from "The keyboard controller." on about `Keyboard` |
| `ByteChannel` | abstract specification | a bounded FIFO channel |
| `Keyboard` | specification | `kbd.c` under an arbitrary guest; implements `ByteChannel` |
| `KeyPath` | composition | `Keyboard` (by INSTANCE), `Pic`, the CPU, INT 9, the ring and INT 16h |
| `KeyPathProofs` | proofs | theorems about `KeyPath` |
| `Sched` | specification | `sched.c`, `cpu_run`'s cycles, the timer's channel 0, INT 15h's wait, a reset |
| `SchedProofs` | proofs | theorems about `Sched` |
| `DriveC` | specification | the store and the worker's handlers for drive C: |
| `DriveCProofs` | proofs | theorems about `DriveC` |
| `Blocks` | abstract specification | a disk whose reads take their time |
| `GamesDrive` | composition | `localdrive.ts` under INT 13h's waiting read; implements `Blocks` |
| `GamesMount` | specification | the worker's handlers that mount, unmount and flush a games folder |
| `GamesFolderProofs` | proofs | `GamesDrive` implements `Blocks` and keeps its cache consistent; theorems about `GamesMount` |
| `FileTree` | abstract specification | files that imports create, replace and never disturb |
| `FatFs` | specification | `fatfs.ts` and `importInto`; implements `FileTree` |
| `FatProofs` | proofs | theorems about `FatFs`, the refinement included |
| `Mouse` | composition | `mouse.c`, `Pic`, INT 74h's stub and a program that calls INT 33h |
| `MouseProofs` | proofs | theorems about `Mouse` |
| `MC*` | model checking | the instances for TLC |

The bugs named in the modules ("The bug of ...") are variants of a definition
that the code could plausibly have had. Each property is violated when one of
them takes the definition's place; nothing else uses them. Where a run checks
several invariants that are about one question — a service for every handler on
the stack, nobody asleep on work — the module names each, with what it means, and
joins them with its type invariant as `Consistent` (`PairConsistent` in
`PicMachine`, `DriveConsistent` in `GamesDrive`, `VolumeSound` in `FatFs`). The
names of these three and of `Keyboard`, such as `PairNext`, `DriveNext`, `FatNext`
and `KbdNext`, say whose they are, so that proofs about two specifications can stand
in one module.

**Pic, PicMachine.** A controller is a record with the fields of `PIC`; the
bytes irr, isr and imr are sets of lines. `pic_highest`, `update_cascade`,
`pic_raise_irq`, `pic_lower_irq`, `pic_has_pending` are the code's functions.
`pic_ack` both changes the pair and returns a vector, so it is three operators:
`AckState`, `AckLine`, `AckVector`. As `pic_has_pending` writes the cascade bit,
every caller's action keeps `update_cascade` of the pair (`Poll`, `Looked`).
`pic_write` is split by what the byte means. `PicMachine` lets devices raise and
lower lines and the guest write anything in any order.

**Interrupts.** One action is one instruction, or one acceptance between two
instructions, as in the loop of `cpu_run`: `Interrupting` is its test,
`Executes` its other branch, and `Wake` is the line of `sched_run_ns` that ends
a halt. A handler is a frame with the stage of its stub: the HLE body, guest
code it calls (INT 1Ch, the mouse callback, which may enable interrupts), its
EOIs, IRET. The idle loop is the guest's (external).

**Keyboard, ByteChannel.** The queue is the sequence from qhead to qtail;
`QueueBytes` is `queue_byte` once per byte of an answer. `event` is
`sched_active(EV_KBD)`; its delays are not modelled, so the event may fire at
any later time. `irq1` is the request bit; `ForgetIrq` stands for the acknowledge
and for an ICW1. Answers are `Ack` or `Data`, as no later step tells them apart;
of the command byte only the interrupt enable has an effect in the code. The
output buffer and the queue together are one channel (`Unread`) whose first byte is
presented while the buffer is full, with `QSize` places behind it. `Keyboard` implements
`ByteChannel` under that mapping, call by call: `port` is what the last step passed in
or out, and the abstract step must fit it. Bytes offered are taken as far as there is
room, only a read of port 60h takes a byte, and it takes the one it answers with; the
event, the interrupt controller and a command that queues nothing may change nothing
of the channel but present its next byte.

**KeyPath.** `Keyboard` is instantiated with its request line replaced by
bit 1 of the master's irr, so the two components constrain the same step. Keys
are a letter, a shift key with a plain and an E0 form (Ctrl), the prefix, and
Scroll Lock, which with Ctrl and E0 is Break: enough to tell apart what
`bios_kbd_scancode` does to the prefix, the shift state and the ring. Releases
that change nothing (letters, Scroll Lock) are not pressed. The ring is a function of slots with the head and
tail of 40:1Ah. `HleWait` halts without moving on, as `hle_wait` winds EIP back.
The INT 1Bh hook of Ctrl-Break (an IRET unless a program replaces it) and the
lock keys are left out.

**Sched.** One iteration of `sched_run_ns` is `Sleep` (the halted branch) or
`StartCpu` ... `EndCpu` around the instructions of `cpu_run`; each ends in
`fire_due`. Times are integers with the code's roundings: `Second`, `Mega`,
`PitHz` and `Khz` are constants, so that small rates can stand for the real
ones. Instructions are those that change what the loop reads; the guest picks
any. The timer's modes are one-shot (0) and periodic (2, which stands for 3
too); the keyboard's event stands for all that are armed for a time after
emu_ns. `Wait86` is INT 15h, function 86h: one flag and one event for every wait,
a halt, and the same instruction again (`RetryWait`) after whatever interrupt came;
`asked` is the register of the call that waits. The interrupt controllers are one bit, as `Interrupts` has them in full.
The count's two halves and the reading of counts are left out.

**DriveC.** A handler is a value of `flow`: the `await` it is at. A step of a
handler is the code from one `await` to the next. `txs` are the transactions in
the database in creation order; `settled` says what a handler's promise did. The
database is external: a transaction starts when no earlier one of overlapping
scope is unfinished, takes effect as a whole, or fails — with an error event, or
at commit without one that `store.ts` listens to. What a chunk contains is the
number of the write that made it. Reads are assumed not to fail; a wipe before
the store is open, floppies and export are not in this module.

**GamesDrive, Blocks.** `Read` and `Retry` are one INT 13h call from its entry to
its return or its halt; all of `LocalFatDrive.read` is in it: the overlay first,
the blocks touched and fetched, the read-ahead, an error only after every sector
was looked at. `calls` is the stack of reads that wait, as a handler that an
interrupt starts may call INT 13h before the interrupted call is executed again;
`cpu` says whether it runs, is about to return to a waiting call, or is halted.
`Arrives` and `ReadFails` are the two continuations of `fetch`. A sector's content
is the number of the last write, so a read that would return a stale or mixed
content is not one of `Blocks`, whose reads answer with the content of one
moment. The mapping takes the overlay for the content, and the sectors of failed
blocks that DOS has not written for the bad ones.

**GamesMount.** As in `DriveC`, a handler is at an `await` and `txs` are the
unfinished transactions; `mountLocal`'s loops over disks are one transaction per
turn. A folder whose files changed is another folder, as its signature is. What
DOS writes to an overlay is the number of the write, and `writer` remembers to
which folder it was written. `machine` counts the ticks that are scheduled.
Drive C:'s part of `flush` is only the wait it may cause. Of a disk's sectors one is
followed, as each is taken and saved by itself.

Each transaction may fail, as in `DriveC`. What becomes of its handler is the code's:
a mount's rejection is caught and the machine goes on without the folder, with the overlay
id and the drive as far as they had been changed (`MountFails`); nothing catches a
disconnect's, which leaves the machine stopped and the page showing the folder
(`DisconnectFails`); a flush ends with its disk's sectors taken and not saved
(`FlushFails`); `init` may fail before it comes to the folder (`StartFails`). A write that
is aborted at commit without an error event leaves its handler waiting for ever.
Two parts of the state only remember what failed: `lost`, the disks of the drive whose last
content went down with a put, and `stranded`, that a failed handler left the machine
stopped.

**FatFs, FileTree.** The operators on a volume are the methods of `FatFs`, with
the volume before and after and whether they returned or threw. A directory's
cluster holds entries, a file's a piece of a numbered write. `ImportFile` is one
turn of `importInto`'s loop — the directories it looks up or makes, and the file —
and `Finish` its `flush()`; nothing else runs between, as the code awaits nothing
there. DOS deletes files between imports (external). A name is a stem and what
`shortName` must do with it, so that collisions and numbers are the code's; archives
whose paths hold "." or ".." are left out (`NameAssumption`). `found`
holds what can be read back through directories and FAT, and `FileTree` says what
an import may change of that.

**Mouse.** The driver's state is reduced to one axis, the counts that INT 33h
reports and the handler's mask. `Hle` is `mouse_hle_irq`: it applies one event,
requests again if more are queued, and calls the program's handler, which may
enable interrupts and call INT 33h. `total` and `told` add up what the host sent
and what the program was told, for `EachCountedOnce`.

## 3. The runs

| run | checks | states |
|---|---|---|
| `pic_machine` | `PairConsistent` (with `PendingAckIsReal`), `RequestsStick` | 300,000 |
| `interrupts` | `Consistent` (with `ServiceMatchesStack`, `SleepsOnlyWhenIdle`), `RequestsAreHandled`, `WorkIsDone` | 8,400 |
| `keyboard` | `KbdTypeOK`, `NoStrandedByte`, `IrqMeansByte`, `ImplementsChannel` | 590,000 |
| `key_path` | `Consistent` (with `SleepsOnlyWithoutKey`), `InOrder`, `ShiftsFollowKeys`, `KeysArrive` | 176,000 |
| `mouse` | `Consistent` (with `InRange`, `NoneStranded`, `HandlerNotReentered`), `EachCountedOnce`, `StuckOnlyIfDropped`, `QueueDrains` | 259,000 |
| `sched` | `Consistent` (with `NothingOverdue`, `WaitIsTimed`), `TimeIsCycles`, `TicksOnGrid`, `WaitsInFull`, `NowNeverRunsBack`, `SliceEnds` | 861,000 |
| `drive_c` | `Consistent` (with `AckMeansWiped`, `NoOldDrive`), `CleanIsSaved`, `StoreNeverRegresses`, `WritesAreSaved`, `ImportEndsRunning` | 152,000 |
| `games_drive` | `DriveConsistent` (with `OnePlace`), `ImplementsDisk`, `CallsReturn` | 117,000 |
| `games_mount` | `Consistent` (with `ForgottenIsGone`, `RunningHasTick`), `OverlaysAreTheirFolders`, `CleanIsSaved`, `WritesAreSaved`, `RunsAgain` | 390,000 |
| `fat_fs` | `VolumeSound` (with `NoSharedClusters`, `NothingLost`), `PlacedTogether`, `FailsOnlyWhenFull`, `ImplementsTree` | 134,000 |

and two runs that find a disagreement between the code and what it says of
itself (section 6): `sched_double_tick` and `drive_c_closed_early`.

Bounds, and why they are enough:

* `pic_machine`: lines 5, 8 and 12 — one master line below the cascade and two
  slave lines, so that a slave request can overtake a master's and another
  slave's; masks that hide nothing, the cascade, a slave line, everything. Lines
  of one controller differ in priority only. No bound on the number of steps.
* `interrupts`: a master line on each side of priority (0 and 1), a slave line
  (12), five requests: three nest, two come again while they are in service.
* `keyboard`: a queue of three, so that an answer of three bytes fits, fits
  partly or not at all; two codes, so that order shows. No bound on steps.
* `key_path`: a queue of three and a ring of two words and the free slot; three
  key events fill either, make Ctrl-Break after a letter, and press and release
  a Ctrl around another key; one timer interrupt wakes the CPU without a key.
* `mouse`: one button and one axis; a queue of two, so that of three events one
  may find it full; moves to both sides; two modes, so that a mode change and a
  reset move the range; two calls of the program, anywhere between.
* `sched*`: rates that do not divide one another, 3 1/3 ns to a tick and 1 1/2 ns
  to a cycle, so that every rounding of the code happens; counts of two ticks and
  of the full period; slices of 5 and 8 ns that end within, at and beyond a
  tick; an interrupt that costs more than a tick; time to 12 ns and four ticks,
  several periods; waits of 0 and of 8 ns, longer than an interrupt and its handler,
  so that one spans several interrupts and a reset.
* `drive_c*`: a system chunk and a data chunk; three visits of the page (build,
  load, load after a wipe); four writes, so that a chunk is written again while
  its older content is on its way; one failing transaction; imports that throw.
* `games_drive`: metadata, a file of two blocks, the second of which the
  read-ahead brings, and two files of one; requests within a file, across files,
  across the metadata and beyond the end; a cache of three of the four blocks, so
  that eviction happens; one write, one failing read, calls nested two deep. A
  cache smaller than the blocks that the calls of a nest need together could be
  emptied for ever by handlers that keep reading; the code's 256 blocks are more
  than a request of 128 sectors and its read-ahead need.
* `games_mount`: two folders (or one before and after it changed) of two disks,
  so that a flush and a mount have a turn to be overtaken in; three visits, two
  writes, so that one is saved while a newer one is made, four things the user does,
  and two failures, so that a handler fails after another one did. One connect
  message is handled at a time, the user waits for a handler, and connects no folder
  while the drive of a mount that failed is attached (`Impatient`): section 6 says why.
* `fat_fs`: eight clusters, directories of three entries to a cluster (two are "."
  and ".."), so that each grows, a root of two entries, files of nothing and of
  one and a half clusters; two imports, three files, one deletion in between. The
  drives begin with one or two system files and with or without GAMES, so that
  each thing can be full.

`CHECK_DEADLOCK FALSE` is given where the model can come to rest: the bound of
time, interrupts
and keys that are all handled and a CPU that halts, a closed page that is not
opened again.

Fairness. The emulation loop runs the CPU as long as the machine runs:
weak fairness of `CpuStep` as a whole, never of one instruction. An armed event
fires, as time goes on: weak fairness of the delivery (`Deliver` in `Keyboard`). A slice is one call that is
computed to its end: weak fairness of `Emulate` in `Sched`, none of the host. The
host, devices and the user owe nothing. In `DriveC` the event loop resumes a
handler whose promise has settled, the database finishes its transactions, the
interval timer fires while it is set. The same holds in `GamesMount`, where the
flush that finds dirty sectors is strongly fair: the timer fires again and again,
though a flush may be under way or a drive unmounted in between; no failure is
fair, so none has to happen and none may be counted on. In `GamesDrive`
the folder answers each read and a handler returns; an interrupt ends a halt, which is an
assumption about the guest: its timer runs and some line is unmasked (section 6). In `Mouse` the CPU runs on and handlers return.

The switches of `DriveC` say what may go wrong: in `drive_c` the page closes at
any moment, a transaction and imports may fail, and the user waits for the machine
to start before wiping (`UserEarly`). The properties say what holds nevertheless:
after a failure the only chunks that are neither saved nor marked are those of
the failed transaction, the database never falls back to older content, what DOS
writes is saved unless its transaction failed, and an import ends with a running
machine unless it threw.

## 4. The proofs

`tlapm` proves these for every value of the constants; the assumptions are the
named ASSUMEs of the modules (lines are IRQ numbers other than the cascade's,
bases are multiples of 8, masks are sets of lines; queue sizes, rates and block
sizes are positive numbers; the bounds of the runs are any numbers).

* `PicProofs!TypeCorrect`, `AcknowledgeIsReal`, `RequestsAreKept`.
  `PendingAckIsReal` is about the pair as the CPU sees it at any moment, and is
  not inductive: that the line answered for belongs to a device needs
  `WiredRequests`, that only wired lines are ever requested, the cascade bit
  excepted. With it the argument is short: `pic_highest` of the refreshed
  master is an unmasked request; if it is the cascade, the refresh has just put
  it there because the slave has one, so neither spurious branch is taken.
  `RequestsAreKept` goes through the actions: each that takes a request away is
  one of the three the property names.
* `InterruptsProofs!KbdTypeCorrect`, `NothingStranded`, `RequestsAreMeant`. The
  inductive invariant is the conjunction of the checked ones. Neither
  `NoStrandedByte` nor `EventIsUseful` is inductive alone: a delivery restores
  the first only because the second says that the buffer was free, and the
  second survives `queue_byte` only because the event is not armed over an
  unread byte.
* `InterruptsProofs!Implements`: `Keyboard` implements `ByteChannel`. A step that queues
  bytes is an `Offer` of all of them, of which `Fitting` lets in what `Admitted` does,
  also when it is none; a read is `ReadPresented` or `ReadStale` by obf; all else but the reset
  is `Quiet`. The delivery leaves the channel as it is because it fires, by the
  invariant, only over a free buffer: over an unread byte it would take one that
  nobody read.
* `KeyPathProofs!PathConsistent`: `Consistent`, for every ring size and every
  sequence of host events. The invariant (`Control`) adds how the parts are tied
  together: only lines 0 and 1 are ever requested or served, the slave asks for
  nothing, and the master serves exactly the handler that has not sent its EOI
  (`Wired`); a handler runs with interrupts disabled and returns to where they were
  enabled (`Handling`); there is an unread byte exactly if line 1 is requested or
  INT 9 is about to read it (`Meant`), so INT 9 never decodes a stale byte; a halted
  CPU's byte is still requested (`Halting`).
* `KeyPathProofs!KeysInOrder`: `InOrder`. The inductive form (`InLine`) says of each
  stage of the path (received, the ring from head to tail, the unread codes) that it
  is ordered, that all of it is older than what the next holds, and that nothing is
  newer than the last event. Moving one element between two neighbours keeps that
  (`OrderedConcat`, `BeforeConcat`); that storing at the tail, advancing the head or
  emptying the ring is such a move is arithmetic of modular places (`RingPush`,
  `RingPop`, `RingBroken`).
* `KeyPathProofs!NoShiftSticks`: `ShiftsFollowKeys`. INT 9 run over all unread codes
  ends in the shift state of the keys held, and, the strengthening, with no E0
  prefix pending (`Followed`). Without it the next press could be read as an
  extended key. An event appends its codes to the run and INT 9 takes the first
  away (`RunAppend`, `RunTail`); two runs over the same codes agree, or there
  would be a least place where they differ (`RunsAgree`).

* `InterruptsProofs!DeliveryConsistent`. `ServiceMatchesStack` is about lines,
  the stack about frames; what ties them is the invariant that the frames' lines
  rise strictly in priority from the bottom to the top, that the services of both
  controllers are exactly those of the frames which have not sent their EOIs yet,
  and that the stages of a frame fit its line (`ServiceMatchesStack`, `StagesFit`,
  `Wired`). An acceptance keeps it because `pic_ack` answers only for a line of
  higher priority than every service (`AckServes`); the slave has
  one service at most, as two would both stand behind the cascade's service of the
  master. A non-specific EOI then ends the lowest line in service, which is the
  frame on top. `LoopUndisturbed` says what the idle loop has seen, so that a halt
  finds no work.
* `MouseProofs!DriverConsistent`, `NoStuckButton`. Beside the parts of
  `Consistent` the invariant holds what the last event taken from the queue left
  in the driver (`Remembered`), that only the last frame of the stack is more than
  its IRET (`Nesting`), that the master serves the cascade until that frame has
  sent its last EOI (`Served`), and that the master's only request is the cascade's
  (`OnlyCascade`): so no second INT 74h enters while a handler runs.
* `MouseProofs!CountedOnce`: `EachCountedOnce` adds up what is in the queue by a
  recursive function. Three facts about such sums carry the proof: there is
  one, the sum of a queue with an event appended is the sum and that event, and
  the sum is the first event and the sum of the rest (`SumsExist`, `SumAppended`,
  `SumApplied`). Each is an induction, done as "of the lengths at which it fails
  there is a least one" (`FirstOfMany`). Then a host event adds the same to
  `total` and to the queue, or nothing when it is dropped; the driver's interrupt
  moves the first event to the tally; INT 33h and the handler move the tally to
  what the program was told.
* `SchedProofs!LoopIsSound`, `CyclesAreTime`, `TimeGoesOn`, `WaitsAreFull`. The invariant adds to
  `NothingOverdue` and `TimeIsCycles` what holds while the CPU runs: the clock is
  behind by the cycles since `start` (`Ledger`), and the anchor is at the last
  piece or, after a reset, ahead of it (`Anchored`); for the waits it says that flag
  and event belong to the call that waits (`OneWait`), if no wait is given up. The core is arithmetic:
  division that rounds towards zero is monotone (`CDivMonotone`), and the start of
  the tick after the one that a time falls in is not before that time, although
  both conversions round down (`TickIsLater`). All rates, costs, counts and slices
  are arbitrary; nothing is assumed of the rates' proportions, so the constants of
  the run, chosen small, stand for the real ones.
* `SchedProofs!TimerKeepsItsGrid`: `TicksOnGrid` with two more parts, that the
  count was loaded at a tick which has come (`LoadIsPast`), and that the armed tick
  is a whole number of periods after it (`Grid`). When the event fires,
  the next multiple after the time is armed, and by `TickIsLater` it is the first
  that has not passed. The bound of n in `TicksOnGrid` only makes the property
  finite for TLC; it is the number of ticks from the load to the armed one, so it excludes none.
* `DriveCProofs!NeverRegresses`, without any hypothesis: `StoreNeverRegresses`. The
  versions of a chunk only grow on their way from the database through the waiting
  transactions, in their order, to the image if the chunk is dirty (`Ascending`,
  `Newest`, together `OrderInv`). A transaction that fails leaves the queue,
  which leaves the rest ascending.
* `DriveCProofs!NothingForgotten`, `WipesAreWipes`: `CleanIsSaved` and `Consistent`,
  with the hypothesis `~UserEarly`, that the user does not wipe a drive before the
  machine has started. Without it they are false: boot's image outlives the
  wipe (section 6). The invariant adds to `OrderInv` that boot reads
  alone (`Reading`), that import, wipe and machine wait for it (`BootFirst`,
  `BootTx`), that a wipe gives the image away before it deletes and nothing
  is written after it (`WipeIsLast`), that without a meta record there is
  nothing but the system (`MetaFirst`), that nothing is older than the last wipe
  (`AllRecent`), and `CleanIsSaved` as a statement about every chunk's last waiting
  version (`Clean`). A load that finds no chunk of the system because the page
  closed early is in the invariant, so the theorems hold in spite of that defect.
* `FatProofs!OnlyWhenFull`: `FailsOnlyWhenFull` of `FatFs`, for volumes and
  directories of any size, whatever the archives hold, and also for imports after
  one that failed (`GoesOn`), which leaves directory entries without clusters. The
  invariant says only that the FAT and the entries are numbers in range, that the FAT
  on the drive is the one in memory unless an import is under way, and that the job's
  directories are clusters (`SpaceInv`). The rest is counting. The search for a
  free cluster meets every cluster once, since i + hint runs through all
  remainders (`OrderInClusters`), so it fails only when none is free
  (`AllocClusterGives`); a directory that is made takes one cluster and at most one more in its
  parent (`MkdirGives`), so a path takes at most two for each of its names (`InDirReaches`), and
  a file its pieces and at most one cluster (`WriteFileGives`). Nothing else that
  an import does makes a free cluster less; the link to a directory's new
  cluster, which on a chain cut short is written over entry 0, is the case to watch
  (`FreeSlotGives`). The loops over pieces, names and files are recursive
  functions, taken one index further at a time (`UpTo`).
* `FatProofs!VolumeStaysSound`: `VolumeSound` of `FatFs`, with the hypothesis
  `~GoesOn`, that nobody imports again on the page where an import failed; without it
  the volume is broken by what that import leaves behind (section 6). Neither part is inductive:
  `NoSharedClusters` and `NothingLost` are about what can be reached from the root, and say
  nothing of what becomes of an entry behind one never used, or of a directory that is its own
  ancestor. The invariant (`Settled`) is about places instead. The chains that
  begin at the entries in use are a family (`Chains`): each ends, no two share a cluster, and
  together they are all clusters in use. A file's is as long as its size (`RightSizes`).
  Every entry in use is in the root or in a cluster of a directory that has an entry (`Homes`), no
  directory has an entry in use behind one never used (`NoGap`), and there
  is a function `to` from directories to their paths, so that there are no cycles (`Nested`).
  In the middle of an operation the family has one chain more,
  which no entry has yet, or an entry whose chain is free (`Whole`).
  An allocated cluster is a chain of its own (`WholeTakes`), which is linked to the file
  that grows (`WholeLinks`) or to the directory that was full (`WholeDirGrows`); an entry takes the
  chain (`FileWritten`, `DirWritten`), and a deletion gives it back (`WholeFrees`).
  Then `Tree` is what is in use, level by level (`LevelsAre`, `TreeIs`), and the two
  properties follow (`SharesNothing`, `LosesNothing`).
* `FatProofs!FilesStayTogether`: `PlacedTogether`, with the hypotheses `~GoesOn` and
  `StemsApart`, that no directory's plain name is what another's becomes when its characters are
  changed, which is the divergence of section 6; long names may collide as they like. The
  invariant (`Known`) says of each directory that the job remembers how deep it is, that its
  name on the drive is made from the last name of its path, and that the path without
  it leads to the directory's parent (`At`). A directory that `mkdir` finds and the job does
  not remember cannot be one it remembers under another path: both would have one
  parent, one stem and neither a number (`KnownGrows`).
* `FatProofs!ImportsImplementTree`: `FatFs` implements `FileTree`, with the hypothesis
  `~GoesOn`. The files that are found are the entries in use of the sound volume, each with
  the path that `to` gives its directory (`FilesAre`). No two have one path, because
  no two entries of a directory have one name (`NamesApart`, `EntriesApart`). What
  an operation owes the files it is not about is one relation between the
  volume before and after it (`Keeps`: their entries, chains and pieces are the same, and no
  directory loses a cluster), which composes (`KeepsTwice`) and is proved of each part of
  `mkdir`, `writeFile` and deletion. From it follow the files after making directories
  (`GrewSameFiles`), putting one (`PutFiles`) and deleting one (`DeleteFiles`). `writeFile`
  either puts its file, under a name nothing else in the directory has, or throws and has left
  every entry, and every piece of a file that was there, as it was (`WriteFileOutcome`,
  `MkdirOutcome`, `Intact`).

  Then the FAT in memory is lost, and chains are again those of the volume
  on which the import began, while the contents are those it left. So the invariant
  (`TreeInv`) remembers that volume (`Since`): what the import has kept of it, which of its files
  it replaced, and that all it put is among the paths that `touched` lists. A file that the
  import did not put is still in the directory it was in, its chain in the old FAT is the one
  it had, and its pieces were never written over (`Remains`, `FileRemains`); nothing else that
  can be reached then, however strange, has its path (`FoundThere`).
* `GamesFolderProofs!Implements`: `GamesDrive` implements `Blocks`, whatever the
  layout, block size, read-ahead, cache size and depth of nesting. The invariant
  needed is only that `calls` is a sequence of requests: an INT 13h call that waits
  is `Ask` or a stutter, one that answers reads the overlay and loaded blocks in
  one step, which is `ReadAtOnce` or `Answered`; arrivals, failures, evictions and
  interrupts change nothing that the mapping shows.
* `GamesFolderProofs!CacheConsistent`: `DriveConsistent`, which is inductive. A read
  touches the cached blocks among those it needs, in the order of their sectors;
  `AllTouched` is a fold over that set, and the fold is a recursive function on its
  subsets (`TouchesExist`). That touching keeps the length, the elements and their
  being different (`TouchedKeeps`) carries over to it by the size of the set
  (`AllTouchedKeeps`). A fetch leaves out what is cached, pending or failed, so the
  answer of one, which may evict the block used longest ago, moves a block between places
  and never doubles it.
* `GamesFolderProofs!OverlaysStayTheirFolders`, `NothingLeftOut`, `InStep`:
  `OverlaysAreTheirFolders`, `CleanIsSaved` and `Consistent`, with the hypothesis
  `~Impatient`, that the user connects and disconnects only when no mount or
  disconnect is at work, and connects only when no drive is attached. Without it they
  are false (section 6). The timer's flush, DOS, a reset, a failed scan, the closing of
  the page and the failure of any transaction still come at any moment. `CleanIsSaved`
  exempts the disks in `lost`: a put that fails is not undone, and the theorem says that
  nothing else is left out, neither the disks the same flush had still to save nor
  those another handler saved or loaded. The invariant's first part, `Control`, says
  what may be under way: each handler waits for one transaction, the one of its step
  (`Queue`, `Asked`, `Steps`); one of the handlers that move the drive at a time
  (`OneMoves`); a mount has set the overlay's id before it loads (`Mounting`), and there
  is no drive from the first step of a disconnect on (`Leaving`). A failed mount may leave
  a drive that is not attached; so `DriveOK` does not say that there is none, only
  that it is never dirty, and that while one is attached nothing mounts or disconnects. What
  flush has put is of the attached drive, or waits before the deletions of the folder that
  is being disconnected (`PutsOK`, `Queue`). Then come whose each write is, wherever it is
  (`Owned`), how far a mount has loaded (`Loading`) and a disconnect deleted
  (`Deleting`, `Gone`, which a disconnect repeated after a failure meets without a
  folder), and that from the end of loading on a disk neither dirty nor lost is saved or
  on its way (`Clean`).

The library's induction theorems take an operator as a parameter, which the
installed provers cannot instantiate. Where a proof needs an induction it says
instead that a nonempty set of numbers has a least element, which is one instance
of well-founded induction (`FirstOfMany` in `GamesFolderProofs`, `MouseProofs`,
`KeyPathProofs` and `FatProofs`).

Only model-checked:

* liveness, which this prover does not reach: `RequestsAreHandled`, `WorkIsDone`,
  `SliceEnds`, `KeysArrive`, `QueueDrains`, `CallsReturn`, `WritesAreSaved`,
  `ImportEndsRunning`, `RunsAgain`.

Neither checked nor proved: what further imports do to the volume and to the files of
`FileTree` on a page where an import failed; `VolumeSound` is false then (section 6).

## 5. Plan

1. Done: `Pic`, `Interrupts`, `Keyboard`, `KeyPath`, `DriveC`, `Sched`,
   `GamesDrive` over `Blocks`, `GamesMount`, `FatFs` over `FileTree`, `Mouse`.
2. Left to model: `Rtc` (the periodic interrupt and register C), `PitPort` (latch,
   flip-flop and read-back of the timer's counts), `SoundDma` (DMA, Sound Blaster,
   audio ring), `WorkerLife` (Ctrl+Alt+Del's fallback, pausing, pacing), `Paging`,
   and `PlanDisk`, the partition arithmetic against a reference definition.
3. Left to prove: nothing but liveness, and what comes with new modules.

### Not modelled

The instruction set, video and FM synthesis and the archive readers are long
sequential data transformations, where a model would be a transliteration. The
RTC, the sound devices, paging, the timer's read-back and the rest of the BIOS
are in the plan. Floppies, disk export, image formatting and the layout of the
synthetic volumes are left out, and so is the page's own user interface.

Most of the repository's C lines are the third-party sources of MS-DOS 4.0 under
`tools/_msdos-build`, from which the guest's programs are built. They run inside
the machine, and every module takes the guest to do anything it may; they are no
part of the emulator, whose own code is about 12,400 lines.

## 6. Where code and words disagree

* `drive_c_closed_early`: a page that closes between the meta record and the
  chunks of a new drive leaves a blank drive C:, and no later start rebuilds it.
  A wipe during the first start ends in the same state (`DriveCClosedEarly.cfg`
  with `UserEarly` for `CloseEarly` shows it).
* `sched_double_tick`: time that lands exactly on a tick makes the timer fire it
  twice; a guest in STI; HLT sees twice the rate.

`PROJECT.json` quotes the lines concerned. These have no run of their own; a
constant or a condition of a property keeps them out of the passing runs, and
lifting it makes TLC show them:

* A guest that halts with interrupts disabled while the timer runs makes a slice
  that never ends (`sched.c:62`): with `MaskedHalt = TRUE` in `Sched.cfg`,
  `SliceEnds` is violated.
* Chunks whose flush failed are not written again (`store.ts:134` forgets them
  before they are saved): `WritesAreSaved` of `DriveC` exempts them (`lost`).
* The same holds of a games folder: `flush` takes a disk's dirty sectors
  (`worker.ts:203`) before `putChunks` (`worker.ts:204`), which may reject (`store.ts:72`).
  The sectors are then clean, not saved and not on their way. `CleanIsSaved` and
  `WritesAreSaved` of `GamesMount` exempt those disks (`lost`) until DOS writes them again.
* A disconnect whose deletion fails leaves the machine stopped, as nothing in
  `disconnectLocalFolder` catches it (`worker.ts:410`), while the page goes on showing the
  folder. The user may disconnect again, but by then the worker has forgotten which folder
  it was, so only the meta record is deleted: the machine runs, and the overlays stay in
  the database and lie over that folder's files when it is mounted again. `RunsAgain` exempts the failed disconnect
  (`stranded`), and `ForgottenIsGone` asks for the overlays only of a disconnect that still
  knew its folder.
* A mount that fails after its scan goes to the catch (`worker.ts:401`) with `localOverlayId`,
  and perhaps `disks.local`, already set. On a connect the drive stays unattached. In
  `init` every drive there is gets attached, so the machine runs with a folder of which the page
  was not told, and offers to connect one. What then happens is the same as with two connects at
  a time (below); `Impatient = FALSE` excludes that connect.
* A pending INT 13h read halts until an interrupt comes (`bios_disk.c:69`), and its completion
  raises none: `CallsReturn` assumes one, with the fairness of `Wake`. With every
  interrupt masked the call would never return.
* An import that throws leaves the machine stopped (`worker.ts:74`):
  `ImportEndsRunning` exempts it.
* An import that throws has written directory entries of clusters that the FAT on
  the drive still calls free; the next import gives them out again. With `GoesOn =
  TRUE` in `FatFs.cfg`, `VolumeSound` is violated. Even at once, a directory that
  the failed import made may show files nobody put, those of another directory it
  made, where its cluster is one that the FAT on the drive still gives to a replaced file;
  so `FileTree` asks of a failed import only that no file it did not put is lost or changed.
* Two folders that are connected at the same time: `localOverlayId` is set
  (`worker.ts:128`) before `disks.local` (`worker.ts:130`), with an await between,
  so a flush writes one folder's overlay under the other's id, though `localdrive.ts:12`
  speaks of "persistent per-folder sector overlays". With `Connects = {first, second}` and
  `Impatient = TRUE` in `GamesMount.cfg`, `CleanIsSaved` and `OverlaysAreTheirFolders` are
  violated, the first in the shorter trace. `Impatient =
  FALSE` keeps what the user starts while a mount or a disconnect is at work out of
  `games_mount` and of the theorems; flushes, resets and the page's closing overlap with
  both there.
* Importing a file or directory with a long name again makes a second one
  instead of replacing it: `mkdir` and `writeFile` compare the name as given
  (`fatfs.ts:190`, `fatfs.ts:206`) with the shortened ones. `FatFs` models it, and
  `FileTree` allows it.
* For the same reason two directories of an archive become one when the second is
  named as the first was shortened: `MY DATA` becomes `MY_DATA` (`fat.ts:25`), and
  `mkdir` takes that for the archive's own `MY_DATA`; files likewise. With
  `Named("MYDATA", "changed")` and `Named("MYDATA", "plain")` both in `SomeDirs` of
  `MCFatFs`, `PlacedTogether` is violated.
* After a reset the fine-grained clock is behind emu_ns until the first piece of
  a slice ends (`machine_reset` in `Sched`), as the anchor is taken from the cycle
  counter before that is cleared; `NowNeverRunsBack` exempts the reset itself.
* INT 15h's wait counts from emu_ns (`bios.c:998`), which is behind the time the
  program can read by the cycles of the piece that runs: on that clock it may return
  early by as much. And it has one flag and one event: a program that gives a wait up
  leaves them to the next, which then ends early. With `Abandons = TRUE` in
  `Sched.cfg`, `WaitsInFull` is violated.
* A mouse range below 0 whose ends are equal puts the position one beyond it on
  the driver's software reset (`mouse.c:53` rounds towards 0); `Mouse` leaves
  negative ranges out.
